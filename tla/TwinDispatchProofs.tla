--------------------------- MODULE TwinDispatchProofs ---------------------------
(***************************************************************************)
(* What the device twin shows of the handlers, for any handlers, any       *)
(* dependencies, any number of twin updates, direct methods and failures,  *)
(* and with both threads reporting at once.                                *)
(***************************************************************************)
EXTENDS TwinDispatch, TLAPS, FiniteSetTheorems

Marking == at["sdk"] \in {"mark", "ask", "sendMarks"}
Invoking == at["sdk"] \in {"invoke", "run", "clear", "compose", "send"}
InHandler == at["sdk"] \in {"run", "clear", "compose", "send"}
Reporting(t) == at[t] \in {"compose", "send"}

\* What the loops are about, and the sequence they go by.
Control ==
    /\ at["sdk"] \notin {"starting", "sequencing"}
    /\ at["sdk"] = "connecting" <=> at["main"] \in {"starting", "sequencing", "connecting"}
    /\ sequence = << >> \/ ToSet(sequence) = Handlers
    /\ at["main"] = "starting" => active = {}
    /\ todo["main"] \subseteq active
    /\ update.objects \subseteq update.keys
    /\ Marking => /\ ~update.method
                  /\ update.status \in {"pending", "failed"}
                  /\ todo["sdk"] \subseteq update.objects
                  /\ update.status = "failed" => sequence = << >>
    /\ at["sdk"] \in {"connecting", "idle", "sendMarks"} => todo["sdk"] = {}
    /\ InHandler => report["sdk"].handler \notin todo["sdk"]
    /\ at["sdk"] = "clear" => report["sdk"].handler = ClearReported

\* What is being reported, and in which section.
ReportOK ==
    /\ Reporting("sdk") =>
         \/ report["sdk"].status = "pending" /\ report["sdk"].shown = "refreshing"
         \/ /\ report["sdk"].status \in {"succeeded", "failed"}
            /\ report["sdk"].shown = report["sdk"].status
    /\ Reporting("main") =>
         /\ report["main"].status \in {"succeeded", "failed"}
         /\ report["main"].shown = report["main"].status
         /\ report["main"].handler \in ReportOnConnect \cap active
    /\ \A t \in Threads : at[t] = "send" =>
         patch[t].sections = [Nothing EXCEPT ![report[t].handler] = report[t].shown]

\* The marks on their way to the hub.
MarksOK ==
    Marking => \A h \in Handlers :
      /\ h \in update.keys => outcome[h] = "due"
      /\ IF h \in update.objects \ todo["sdk"]
         THEN patch["sdk"].sections[h] \in {update.status, "unknown"}
         ELSE patch["sdk"].sections[h] = "none"

\* The handler's invocation is under way or to come.
Under(h) ==
    \/ Marking /\ h \in update.keys
    \/ Invoking /\ h \in todo["sdk"]
    \/ InHandler /\ h = report["sdk"].handler
    \/ at["sdk"] = "terminated"

PendingOK ==
    \A h \in Handlers :
      twin[h] \in {"pending", "refreshing"} => outcome[h] \in {"skipped", "lost"} \/ Under(h)

ShownOK ==
    \A h \in Handlers \ ReportOnConnect :
      outcome[h] \in {"succeeded", "failed"} => twin[h] \in {outcome[h], "absent"} \/ Under(h)

Agrees(status, shown) ==
    /\ status = "failed" <=> shown = "failed"
    /\ status = "pending" <=> shown \in {"pending", "refreshing"}

\* Only the callback thread reports, and nothing has failed.
Alone == received.failures = 0 /\ ReportOnConnect \cap active = {}

\* The section's entry in the summary is newer than what the hub holds.
Newer(h) ==
    \/ Marking /\ h \in update.objects
    \/ Reporting("sdk") /\ h = report["sdk"].handler

SummaryOK ==
    Alone =>
      /\ \A h \in Handlers : twin[h] # "absent" /\ ~Newer(h) => Agrees(sectionStatus[h], twin[h])
      /\ Marking => \A h \in Handlers :
           patch["sdk"].sections[h] # "none" =>
             patch["sdk"].sections[h] = update.status /\ sectionStatus[h] = update.status
      /\ at["sdk"] = "ask" => \A h \in Handlers :
           Turn("sdk", h) => sectionStatus[h] = update.status
      /\ Reporting("sdk") => sectionStatus[report["sdk"].handler] = report["sdk"].status
      /\ at["sdk"] \in {"sendMarks", "send"} =>
           patch["sdk"].summary = SummaryObject(sectionStatus)
      /\ ~Marking /\ ~Reporting("sdk") /\ at["sdk"] # "terminated" =>
           \A h \in Handlers : twin[h] # "absent" =>
             /\ h \in twinSummary.failed <=> sectionStatus[h] = "failed"
             /\ h \in twinSummary.pending <=> sectionStatus[h] = "pending"

TwinInv ==
    /\ TypeOK /\ Control /\ ReportOK /\ MarksOK
    /\ NoOldOutcomeShown /\ PendingOK /\ ShownOK /\ SummaryOK

-----------------------------------------------------------------------------
\* A sequence of the handlers in which none is twice has all of them.
LEMMA SequenceComplete ==
  ASSUME NEW s \in SetToSeqs(Handlers)
  PROVE  s \in Seq(Handlers) /\ ToSet(s) = Handlers
<1> DEFINE n == Cardinality(Handlers)
<1>1. s \in [1 .. n -> Handlers] /\ \A i, j \in 1 .. n : i # j => s[i] # s[j]
  BY DEF SetToSeqs
<1>2. IsFiniteSet(Handlers)
  <2>1. MapOrder \in [1 .. Len(MapOrder) -> Handlers] /\ Len(MapOrder) \in Nat
    BY ParametersOK
  <2>2. MapOrder \in Surjection(1 .. Len(MapOrder), Handlers)
    BY <2>1 DEF Surjection, Handlers, ToSet
  <2>3. QED
    BY <2>1, <2>2, FS_Interval, FS_Surjection
<1>3. n \in Nat
  BY <1>2, FS_CardinalityType
<1>4. s \in Injection(1 .. n, Handlers)
  BY <1>1 DEF Injection, IsInjective
<1>5. IsFiniteSet(1 .. n) /\ Cardinality(1 .. n) = n
  BY <1>3, FS_Interval
<1>6. s \in Surjection(1 .. n, Handlers)
  BY <1>2, <1>4, <1>5, FS_Injection
<1>7. s \in Seq(Handlers) /\ DOMAIN s = 1 .. n
  BY <1>1, <1>3
<1>8. QED
  BY <1>6, <1>7 DEF Surjection, ToSet

LEMMA SequenceTaken ==
  HandlerInvokeSequence =>
    /\ sequence' \in Seq(Handlers)
    /\ sequence' = << >> \/ ToSet(sequence') = Handlers
<1> SUFFICES ASSUME HandlerInvokeSequence
             PROVE  /\ sequence' \in Seq(Handlers)
                    /\ sequence' = << >> \/ ToSet(sequence') = Handlers
  OBVIOUS
<1>1. \A s \in InvokeOrders : s \in Seq(Handlers) /\ ToSet(s) = Handlers
  BY SequenceComplete DEF InvokeOrders
<1>2. CASE InvokeOrders = {}
  BY <1>2 DEF HandlerInvokeSequence
<1>3. CASE InvokeOrders # {}
  <2>1. sequence' \in InvokeOrders
    BY <1>3 DEF HandlerInvokeSequence
  <2>2. QED
    BY <1>1, <2>1
<1>4. QED
  BY <1>2, <1>3

\* It is one handler's turn at a time.
LEMMA TurnUnique ==
  ASSUME NEW t \in Threads, NEW h, NEW g, Order(t) = MapOrder, Turn(t, h), Turn(t, g)
  PROVE  h = g
  BY ParametersOK DEF Turn

-----------------------------------------------------------------------------
\* The records that the steps build.
LEMMA Empty ==
  NoPatch \in Patches /\ NoReport \in Reports /\ NoUpdate \in UnderWay
  BY ParametersOK DEF NoPatch, NoReport, NoUpdate, NoSummary, Patches, Reports, UnderWay,
                      Summaries, Nothing

LEMMA SummaryOf == \A f : SummaryObject(f) \in Summaries
  BY DEF SummaryObject, Summaries

LEMMA PatchOf ==
  /\ \A p \in Patches, h \in Handlers, x \in Shown \cup {"none"} :
       [p EXCEPT !.sections[h] = x] \in Patches
  /\ \A p \in Patches, x \in Summaries : [p EXCEPT !.summary = x] \in Patches
  /\ \A h \in Handlers, x \in Shown \cup {"none"}, y \in Summaries :
       [sections |-> [Nothing EXCEPT ![h] = x], summary |-> y] \in Patches
<1>1. \A p \in Patches, h \in Handlers, x \in Shown \cup {"none"} :
         [p EXCEPT !.sections[h] = x] \in Patches
  BY DEF Patches
<1>2. \A p \in Patches, x \in Summaries : [p EXCEPT !.summary = x] \in Patches
  BY DEF Patches
<1>3. \A h \in Handlers, x \in Shown \cup {"none"}, y \in Summaries :
         [sections |-> [Nothing EXCEPT ![h] = x], summary |-> y] \in Patches
  BY DEF Patches, Nothing
<1>4. QED
  BY <1>1, <1>2, <1>3

LEMMA MergedType ==
  ASSUME twin \in [Handlers -> Shown], NEW p \in Patches
  PROVE  Merged(p.sections) \in [Handlers -> Shown]
  BY DEF Merged, Patches

LEMMA CountFails ==
  ASSUME TypeOK, Fails
  PROVE  received' \in [callbacks : 0 .. MaxCallbacks, failures : 0 .. MaxFailures]
<1>1. /\ received \in [callbacks : 0 .. MaxCallbacks, failures : 0 .. MaxFailures]
      /\ MaxFailures \in Nat
  BY ParametersOK DEF TypeOK
<1>2. /\ received.failures < MaxFailures
      /\ received' = [received EXCEPT !.failures = @ + 1]
  BY DEF Fails
<1>3. received.failures + 1 \in 0 .. MaxFailures
  BY ONLY <1>1, <1>2
<1>4. QED
  BY ONLY <1>1, <1>2, <1>3

LEMMA CountCallback ==
  ASSUME TypeOK, received.callbacks < MaxCallbacks
  PROVE  [received EXCEPT !.callbacks = @ + 1]
           \in [callbacks : 0 .. MaxCallbacks, failures : 0 .. MaxFailures]
<1>1. MaxCallbacks \in Nat /\ MaxFailures \in Nat
  BY ParametersOK
<1>2. received \in [callbacks : 0 .. MaxCallbacks, failures : 0 .. MaxFailures]
  BY DEF TypeOK
<1>3. QED
  BY <1>1, <1>2

\* Every step keeps the types.
LEMMA TypeStep == TypeOK /\ [Next]_state => TypeOK'
<1> SUFFICES ASSUME TypeOK, [Next]_state PROVE TypeOK'
  OBVIOUS
<1>1. ASSUME SignalStart PROVE TypeOK'
  <2>1. at' \in [Threads -> Places]
    BY <1>1 DEF TypeOK, SignalStart, Threads, Goto, Places
  <2>2. active' \in SUBSET Handlers
    BY <1>1, ParametersOK DEF TypeOK, SignalStart
  <2>3. QED
    BY <1>1, <2>1, <2>2 DEF TypeOK, SignalStart
<1>2. ASSUME HandlerInvokeSequence PROVE TypeOK'
  <2>1. at' \in [Threads -> Places]
    BY <1>2 DEF TypeOK, HandlerInvokeSequence, Threads, Goto, Places
  <2>2. sequence' \in Seq(Handlers)
    BY <1>2, SequenceTaken
  <2>3. QED
    BY <1>2, <2>1, <2>2 DEF TypeOK, HandlerInvokeSequence
<1>3. ASSUME Connect PROVE TypeOK'
  <2>1. at' \in [Threads -> Places]
    BY <1>3 DEF TypeOK, Connect, Threads, Goto, Places
  <2>2. todo' \in [Threads -> SUBSET Handlers]
    BY <1>3 DEF TypeOK, Connect, Threads
  <2>3. QED
    BY <1>3, <2>1, <2>2 DEF TypeOK, Connect
<1>4. ASSUME NEW h \in Handlers, OnConnectionStatusChanged(h) PROVE TypeOK'
  <2>1. todo' \in [Threads -> SUBSET Handlers]
    BY <1>4 DEF TypeOK, OnConnectionStatusChanged, Threads, Visited
  <2>2. at' \in [Threads -> Places]
    BY <1>4 DEF TypeOK, OnConnectionStatusChanged, Threads, Goto, Places, BeginReport
  <2>3. sectionStatus' \in [Handlers -> Statuses \cup {"none"}]
    BY <1>4 DEF TypeOK, OnConnectionStatusChanged, BeginReport, Statuses
  <2>4. report' \in [Threads -> Reports]
    BY <1>4 DEF TypeOK, OnConnectionStatusChanged, Threads, Reports, BeginReport, Statuses,
         Shown
  <2>5. QED
    BY <1>4, <2>1, <2>2, <2>3, <2>4 DEF TypeOK, OnConnectionStatusChanged, BeginReport
<1>5. ASSUME AllTold PROVE TypeOK'
  <2>1. at' \in [Threads -> Places]
    BY <1>5 DEF TypeOK, AllTold, Threads, Goto, Places
  <2>2. QED
    BY <1>5, <2>1 DEF TypeOK, AllTold
<1>6. ASSUME NEW h \in Handlers, MarkSection(h) PROVE TypeOK'
  <2>1. at' \in [Threads -> Places]
    BY <1>6 DEF TypeOK, MarkSection, Threads, Goto, Places
  <2>2. sectionStatus' \in [Handlers -> Statuses \cup {"none"}]
    BY <1>6 DEF TypeOK, MarkSection, UnderWay
  <2>3. QED
    BY <1>6, <2>1, <2>2 DEF TypeOK, MarkSection
<1>7. ASSUME NEW h \in Handlers, SetDeploymentStatus(h) PROVE TypeOK'
  <2>1. at' \in [Threads -> Places]
    BY <1>7 DEF TypeOK, SetDeploymentStatus, Threads, Goto, Places
  <2>2. todo' \in [Threads -> SUBSET Handlers]
    BY <1>7 DEF TypeOK, SetDeploymentStatus, Threads, Visited
  <2>3. patch' \in [Threads -> Patches]
    BY <1>7, PatchOf DEF TypeOK, SetDeploymentStatus, Threads, UnderWay, Shown
  <2>4. QED
    BY <1>7, <2>1, <2>2, <2>3 DEF TypeOK, SetDeploymentStatus
<1>8. ASSUME NEW h \in Handlers, SetDeploymentStatusFails(h) PROVE TypeOK'
  <2>1. at' \in [Threads -> Places]
    BY <1>8 DEF TypeOK, SetDeploymentStatusFails, Threads, Goto, Places
  <2>2. todo' \in [Threads -> SUBSET Handlers]
    BY <1>8 DEF TypeOK, SetDeploymentStatusFails, Threads, Visited
  <2>3. patch' \in [Threads -> Patches]
    BY <1>8, PatchOf DEF TypeOK, SetDeploymentStatusFails, Threads, Statuses, Shown
  <2>4. sectionStatus' \in [Handlers -> Statuses \cup {"none"}]
    BY <1>8 DEF TypeOK, SetDeploymentStatusFails, Statuses
  <2>5. received' \in [callbacks : 0 .. MaxCallbacks, failures : 0 .. MaxFailures]
    BY <1>8, CountFails DEF TypeOK, SetDeploymentStatusFails
  <2>6. QED
    BY <1>8, <2>1, <2>2, <2>3, <2>4, <2>5 DEF TypeOK, SetDeploymentStatusFails, Fails
<1>9. ASSUME AggregateMarks PROVE TypeOK'
  <2>1. at' \in [Threads -> Places]
    BY <1>9 DEF TypeOK, AggregateMarks, Threads, Goto, Places
  <2>2. patch' \in [Threads -> Patches]
    BY <1>9, PatchOf, SummaryOf DEF TypeOK, AggregateMarks, Threads
  <2>3. QED
    BY <1>9, <2>1, <2>2 DEF TypeOK, AggregateMarks
<1>10. ASSUME SendMarks PROVE TypeOK'
  <2>1. at' \in [Threads -> Places]
    BY <1>10 DEF TypeOK, SendMarks, Threads, Goto, Places, AfterMarks, BeginMarks
  <2>2. patch' \in [Threads -> Patches]
    BY <1>10, Empty DEF TypeOK, SendMarks, Threads, AfterMarks, BeginMarks
  <2>3. todo' \in [Threads -> SUBSET Handlers]
    BY <1>10 DEF TypeOK, SendMarks, Threads, AfterMarks, BeginMarks, SectionsToMark, ToInvoke,
         UnderWay
  <2>4. twin' \in [Handlers -> Shown]
    BY <1>10, MergedType DEF TypeOK, SendMarks, Threads
  <2>5. twinSummary' \in Summaries
    BY <1>10 DEF TypeOK, SendMarks, Threads, Patches
  <2>6. update' \in UnderWay
    BY <1>10, Empty DEF TypeOK, SendMarks, UnderWay, AfterMarks, BeginMarks, Statuses
  <2>7. outcome' \in [Handlers -> Outcomes]
    BY <1>10 DEF TypeOK, SendMarks, Outcomes, AfterMarks
  <2>8. QED
    BY <1>10, <2>1, <2>2, <2>3, <2>4, <2>5, <2>6, <2>7 DEF TypeOK, SendMarks, AfterMarks,
         BeginMarks
<1>11. ASSUME SendMarksFails PROVE TypeOK'
  <2>1. at' \in [Threads -> Places]
    BY <1>11 DEF TypeOK, SendMarksFails, Threads, Goto, Places
  <2>2. received' \in [callbacks : 0 .. MaxCallbacks, failures : 0 .. MaxFailures]
    BY <1>11, CountFails DEF TypeOK, SendMarksFails
  <2>3. QED
    BY <1>11, <2>1, <2>2 DEF TypeOK, SendMarksFails, Fails
<1>12. ASSUME NEW h \in Handlers, InvokeInactive(h) PROVE TypeOK'
  <2>1. outcome' \in [Handlers -> Outcomes]
    BY <1>12 DEF TypeOK, InvokeInactive, Outcomes
  <2>2. todo' \in [Threads -> SUBSET Handlers]
    BY <1>12 DEF TypeOK, InvokeInactive, Threads, Visited
  <2>3. QED
    BY <1>12, <2>1, <2>2 DEF TypeOK, InvokeInactive
<1>13. ASSUME NEW h \in Handlers, InvokeActive(h) PROVE TypeOK'
  <2>1. at' \in [Threads -> Places]
    BY <1>13 DEF TypeOK, InvokeActive, Threads, Goto, Places
  <2>2. todo' \in [Threads -> SUBSET Handlers]
    BY <1>13 DEF TypeOK, InvokeActive, Threads, Visited
  <2>3. report' \in [Threads -> Reports]
    <3>1. report \in [Threads -> Reports] /\ report' = [report EXCEPT !["sdk"].handler = h]
      BY <1>13 DEF TypeOK, InvokeActive
    <3>2. [report["sdk"] EXCEPT !.handler = h] \in Reports
      BY ONLY <1>13, <3>1 DEF Threads, Reports
    <3>3. QED
      BY ONLY <3>1, <3>2 DEF Threads
  <2>4. QED
    BY <1>13, <2>1, <2>2, <2>3 DEF TypeOK, InvokeActive
<1>14. ASSUME ReportRefreshing PROVE TypeOK'
  <2>1. at' \in [Threads -> Places]
    BY <1>14 DEF TypeOK, ReportRefreshing, Threads, Goto, Places, BeginReport
  <2>2. sectionStatus' \in [Handlers -> Statuses \cup {"none"}]
    BY <1>14 DEF TypeOK, ReportRefreshing, BeginReport, Statuses
  <2>3. report' \in [Threads -> Reports]
    BY <1>14 DEF TypeOK, ReportRefreshing, Threads, Reports, BeginReport, Statuses, Shown
  <2>4. QED
    BY <1>14, <2>1, <2>2, <2>3 DEF TypeOK, ReportRefreshing, BeginReport
<1>15. ASSUME FinalizeAndReport PROVE TypeOK'
  <2>1. at' \in [Threads -> Places]
    BY <1>15 DEF TypeOK, FinalizeAndReport, Threads, Goto, Places, BeginReport
  <2>2. sectionStatus' \in [Handlers -> Statuses \cup {"none"}]
    BY <1>15 DEF TypeOK, FinalizeAndReport, BeginReport, Statuses
  <2>3. report' \in [Threads -> Reports]
    BY <1>15 DEF TypeOK, FinalizeAndReport, Threads, Reports, BeginReport, Statuses, Shown
  <2>4. QED
    BY <1>15, <2>1, <2>2, <2>3 DEF TypeOK, FinalizeAndReport, BeginReport
<1>16. ASSUME InvokeThrows PROVE TypeOK'
  <2>1. at' \in [Threads -> Places]
    BY <1>16 DEF TypeOK, InvokeThrows, Threads, Goto, Places
  <2>2. outcome' \in [Handlers -> Outcomes]
    <3>1. report["sdk"].handler \in Handlers
      BY DEF TypeOK, Threads, Reports
    <3>2. QED
      BY <1>16, <3>1 DEF TypeOK, InvokeThrows, Outcomes
  <2>3. report' \in [Threads -> Reports]
    BY <1>16, Empty DEF TypeOK, InvokeThrows, Threads, Reports
  <2>4. received' \in [callbacks : 0 .. MaxCallbacks, failures : 0 .. MaxFailures]
    BY <1>16, CountFails DEF TypeOK, InvokeThrows
  <2>5. QED
    BY <1>16, <2>1, <2>2, <2>3, <2>4 DEF TypeOK, InvokeThrows, Fails
<1>17. ASSUME ClearOthers PROVE TypeOK'
  <2>1. twin' \in [Handlers -> Shown]
    BY <1>17 DEF TypeOK, ClearOthers, Shown
  <2>2. at' \in [Threads -> Places]
    BY <1>17, ParametersOK DEF TypeOK, ClearOthers, Threads, Goto, Places, BeginReport
  <2>3. sectionStatus' \in [Handlers -> Statuses \cup {"none"}]
    BY <1>17, ParametersOK DEF TypeOK, ClearOthers, BeginReport, Statuses
  <2>4. report' \in [Threads -> Reports]
    BY <1>17, ParametersOK DEF TypeOK, ClearOthers, Threads, Reports, BeginReport, Statuses,
         Shown
  <2>5. QED
    BY <1>17, <2>1, <2>2, <2>3, <2>4 DEF TypeOK, ClearOthers, BeginReport
<1>18. ASSUME ClearFails PROVE TypeOK'
  <2>1. at' \in [Threads -> Places]
    BY <1>18, ParametersOK DEF TypeOK, ClearFails, Threads, Goto, Places, BeginReport
  <2>2. sectionStatus' \in [Handlers -> Statuses \cup {"none"}]
    BY <1>18, ParametersOK DEF TypeOK, ClearFails, BeginReport, Statuses
  <2>3. report' \in [Threads -> Reports]
    BY <1>18, ParametersOK DEF TypeOK, ClearFails, Threads, Reports, BeginReport, Statuses,
         Shown
  <2>4. QED
    BY <1>18, <2>1, <2>2, <2>3 DEF TypeOK, ClearFails, BeginReport
<1>19. ASSUME AllInvoked PROVE TypeOK'
  <2>1. at' \in [Threads -> Places]
    BY <1>19 DEF TypeOK, AllInvoked, Threads, Goto, Places
  <2>2. update' \in UnderWay
    BY <1>19, Empty DEF TypeOK, AllInvoked, UnderWay
  <2>3. QED
    BY <1>19, <2>1, <2>2 DEF TypeOK, AllInvoked
<1>20. ASSUME NEW u \in Updates, OnDeviceTwinReceived(u.keys, u.objects) PROVE TypeOK'
  <2>1. at' \in [Threads -> Places]
    BY <1>20 DEF TypeOK, OnDeviceTwinReceived, Threads, Goto, Places, BeginMarks
  <2>2. todo' \in [Threads -> SUBSET Handlers]
    BY <1>20, ParametersOK DEF TypeOK, OnDeviceTwinReceived, Threads, BeginMarks, SectionsToMark
  <2>3. patch' \in [Threads -> Patches]
    BY <1>20, Empty DEF TypeOK, OnDeviceTwinReceived, Threads, BeginMarks
  <2>4. update' \in UnderWay
    BY <1>20, ParametersOK DEF TypeOK, OnDeviceTwinReceived, UnderWay, BeginMarks, Statuses
  <2>5. outcome' \in [Handlers -> Outcomes]
    BY <1>20 DEF TypeOK, OnDeviceTwinReceived, Outcomes
  <2>6. received' \in [callbacks : 0 .. MaxCallbacks, failures : 0 .. MaxFailures]
    BY <1>20, CountCallback DEF TypeOK, OnDeviceTwinReceived
  <2>7. QED
    BY <1>20, <2>1, <2>2, <2>3, <2>4, <2>5, <2>6 DEF TypeOK, OnDeviceTwinReceived, BeginMarks
<1>21. ASSUME NEW h \in Handlers, OnDirectMethodInvoked(h) PROVE TypeOK'
  <2>1. at' \in [Threads -> Places]
    BY <1>21 DEF TypeOK, OnDirectMethodInvoked, Threads, Goto, Places
  <2>2. todo' \in [Threads -> SUBSET Handlers]
    BY <1>21 DEF TypeOK, OnDirectMethodInvoked, Threads
  <2>3. update' \in UnderWay
    BY <1>21, Empty DEF TypeOK, OnDirectMethodInvoked, UnderWay
  <2>4. received' \in [callbacks : 0 .. MaxCallbacks, failures : 0 .. MaxFailures]
    BY <1>21, CountCallback DEF TypeOK, OnDirectMethodInvoked
  <2>5. QED
    BY <1>21, <2>1, <2>2, <2>3, <2>4 DEF TypeOK, OnDirectMethodInvoked
<1>22. ASSUME NEW t \in Threads, Compose(t) PROVE TypeOK'
  <2>1. at' \in [Threads -> Places]
    BY <1>22 DEF TypeOK, Compose, Threads, Goto, Places
  <2>2. patch' \in [Threads -> Patches]
    BY <1>22, PatchOf, SummaryOf DEF TypeOK, Compose, Threads, Reports
  <2>3. QED
    BY <1>22, <2>1, <2>2 DEF TypeOK, Compose
<1>23. ASSUME NEW t \in Threads, SendReport(t) PROVE TypeOK'
  <2>1. at' \in [Threads -> Places]
    BY <1>23 DEF TypeOK, SendReport, Threads, Goto, Places, AfterReport
  <2>2. twin' \in [Handlers -> Shown]
    BY <1>23, MergedType DEF TypeOK, SendReport
  <2>3. twinSummary' \in Summaries
    BY <1>23 DEF TypeOK, SendReport, Patches
  <2>4. outcome' \in [Handlers -> Outcomes]
    <3>1. report[t] \in Reports
      BY DEF TypeOK
    <3>2. /\ report[t].handler \in Handlers
          /\ report[t].status # "pending" => report[t].status \in Outcomes
      BY <3>1 DEF Reports, Outcomes
    <3>3. QED
      BY <1>23, <3>2 DEF TypeOK, SendReport, Outcomes
  <2>5. patch' \in [Threads -> Patches]
    BY <1>23, Empty DEF TypeOK, SendReport, Threads
  <2>6. report' \in [Threads -> Reports]
    BY <1>23, Empty DEF TypeOK, SendReport, Threads, Reports, AfterReport
  <2>7. QED
    BY <1>23, <2>1, <2>2, <2>3, <2>4, <2>5, <2>6 DEF TypeOK, SendReport, AfterReport
<1>24. ASSUME NEW t \in Threads, SendReportFails(t) PROVE TypeOK'
  <2>1. at' \in [Threads -> Places]
    BY <1>24 DEF TypeOK, SendReportFails, Threads, Goto, Places
  <2>2. outcome' \in [Handlers -> Outcomes]
    <3>1. report[t].handler \in Handlers
      BY DEF TypeOK, Threads, Reports
    <3>2. QED
      BY <1>24, <3>1 DEF TypeOK, SendReportFails, Outcomes
  <2>3. patch' \in [Threads -> Patches]
    BY <1>24, Empty DEF TypeOK, SendReportFails, Threads
  <2>4. report' \in [Threads -> Reports]
    BY <1>24, Empty DEF TypeOK, SendReportFails, Threads, Reports
  <2>5. received' \in [callbacks : 0 .. MaxCallbacks, failures : 0 .. MaxFailures]
    BY <1>24, CountFails DEF TypeOK, SendReportFails
  <2>6. QED
    BY <1>24, <2>1, <2>2, <2>3, <2>4, <2>5 DEF TypeOK, SendReportFails, Fails
<1>25. CASE UNCHANGED state
  BY <1>25 DEF state, TypeOK
<1>26. CASE MainStep
  BY <1>26, <1>1, <1>2, <1>3, <1>4, <1>5, <1>22, <1>23, <1>24 DEF MainStep, ReportStep, Threads
<1>27. CASE SdkStep
  BY <1>27, <1>6, <1>7, <1>8, <1>9, <1>10, <1>11, <1>12, <1>13, <1>14, <1>15, <1>16, <1>17,
     <1>18, <1>19, <1>22, <1>23, <1>24 DEF SdkStep, ReportStep, Threads
<1>28. QED
  BY <1>20, <1>21, <1>25, <1>26, <1>27 DEF Next, Callback

\* Every step keeps the invariant.
\* A handler's report begins: from now on its section is newer than the hub's.
LEMMA BeginReportSummary ==
  ASSUME TwinInv, NEW h \in Handlers, NEW status, NEW shown,
         BeginReport("sdk", h, status, shown), at["sdk"] \in {"run", "clear"},
         UNCHANGED <<active, received, update, patch>>,
         \A g \in Handlers : twin'[g] \in {twin[g], "absent"}
  PROVE  SummaryOK'
<1>1. SUFFICES ASSUME Alone PROVE SummaryOK'
  BY DEF SummaryOK, Alone
<1>2. /\ at'["sdk"] = "compose"
      /\ report'["sdk"].handler = h /\ report'["sdk"].status = status
      /\ sectionStatus' = [sectionStatus EXCEPT ![h] = status] /\ sectionStatus'[h] = status
  BY DEF TwinInv, TypeOK, BeginReport, Goto, Threads
<1>3. \A g \in Handlers : twin'[g] # "absent" /\ g # h => Agrees(sectionStatus'[g], twin'[g])
  BY <1>1, <1>2 DEF TwinInv, SummaryOK, Newer, Marking, Reporting
<1>4. QED
  BY <1>2, <1>3 DEF SummaryOK, Newer, Marking, Reporting

LEMMA SendMarksStep ==
  ASSUME TwinInv, TypeOK', SendMarks
  PROVE  TwinInv'
<1> DEFINE sections == patch["sdk"].sections
<1>1. /\ Marking /\ ~update.method /\ update.status \in {"pending", "failed"}
      /\ update.status = "failed" => sequence = << >>
      /\ sequence = << >> \/ ToSet(sequence) = Handlers
      /\ update.objects \subseteq update.keys /\ update.keys \subseteq Handlers
      /\ todo["sdk"] = {}
      /\ at["main"] \notin {"starting", "sequencing", "connecting"}
      /\ \A h \in update.keys : outcome[h] = "due"
  BY DEF TwinInv, TypeOK, UnderWay, SendMarks, Control, MarksOK, Marking
<1>2. ASSUME NEW h \in Handlers
      PROVE  IF h \in update.objects
             THEN twin'[h] = sections[h] /\ sections[h] \in {update.status, "unknown"}
             ELSE twin'[h] = twin[h] /\ sections[h] = "none"
  BY <1>1 DEF TwinInv, SendMarks, MarksOK, Merged
\* In an undisturbed round the hub holds what the summary says.
<1>3. ASSUME Alone
      PROVE  /\ twinSummary' = SummaryObject(sectionStatus)
             /\ \A h \in update.objects :
                  twin'[h] = update.status /\ sectionStatus[h] = update.status
             /\ \A h \in Handlers \ update.objects :
                  twin'[h] # "absent" => Agrees(sectionStatus[h], twin'[h])
  <2>1. twinSummary' = SummaryObject(sectionStatus)
    BY <1>3 DEF TwinInv, SummaryOK, SendMarks
  <2>2. \A h \in update.objects : twin'[h] = update.status /\ sectionStatus[h] = update.status
    BY <1>1, <1>2, <1>3 DEF TwinInv, SummaryOK
  <2>3. \A h \in Handlers \ update.objects :
          twin'[h] # "absent" => Agrees(sectionStatus[h], twin'[h])
    BY <1>1, <1>2, <1>3 DEF TwinInv, SummaryOK, Newer, Marking, Reporting
  <2>4. QED
    BY <2>1, <2>2, <2>3
<1>4. /\ UNCHANGED <<active, sequence, sectionStatus, report, received>>
      /\ at'["main"] = at["main"] /\ todo'["main"] = todo["main"]
      /\ patch'["main"] = patch["main"]
  BY DEF TwinInv, TypeOK, SendMarks, AfterMarks, BeginMarks, Goto, Threads
<1>5. CASE MarksAgain
  <2>1. /\ at'["sdk"] = "mark" /\ update' = [update EXCEPT !.status = "failed"]
        /\ todo'["sdk"] = update.objects /\ patch'["sdk"] = NoPatch /\ outcome' = outcome
        /\ sequence = << >>
    BY <1>5 DEF TwinInv, TypeOK, SendMarks, AfterMarks, BeginMarks, SectionsToMark, Goto,
                Threads, MarksAgain
  <2>2. /\ update'.objects = update.objects /\ update'.keys = update.keys
        /\ update'.status = "failed" /\ ~update'.method
    BY <1>1, <2>1 DEF TwinInv, TypeOK, UnderWay
  <2>3. Control'
    BY <1>1, <1>4, <2>1, <2>2 DEF TwinInv, Control, Marking, InHandler
  <2>4. ReportOK'
    BY <1>4, <2>1 DEF TwinInv, ReportOK, Reporting, Threads
  <2>5. MarksOK'
    BY <1>1, <2>1, <2>2 DEF MarksOK, NoPatch, Nothing
  <2>6. NoOldOutcomeShown'
    BY <2>1 DEF NoOldOutcomeShown
  <2>7. PendingOK'
    BY <1>1, <1>2, <2>1, <2>2 DEF TwinInv, PendingOK, Under, Marking, Invoking, InHandler
  <2>8. ShownOK'
    BY <1>1, <1>2, <2>1, <2>2 DEF TwinInv, ShownOK, Under, Marking, Invoking, InHandler
  <2>9. SummaryOK'
    BY <1>3, <1>4, <2>1, <2>2
       DEF SummaryOK, Alone, Newer, Marking, Reporting, NoPatch, Nothing
  <2>10. QED
    BY <2>3, <2>4, <2>5, <2>6, <2>7, <2>8, <2>9 DEF TwinInv
<1>6. CASE ~MarksAgain /\ sequence = << >>
  <2>1. /\ at'["sdk"] = "idle" /\ update' = NoUpdate /\ todo' = todo
        /\ outcome' = [h \in Handlers |-> IF outcome[h] = "due" THEN "skipped" ELSE outcome[h]]
    BY <1>6 DEF TwinInv, TypeOK, SendMarks, AfterMarks, Goto, Threads
  <2>2. Control'
    BY <1>1, <1>4, <2>1 DEF TwinInv, Control, Marking, InHandler, NoUpdate
  <2>3. ReportOK'
    BY <1>4, <2>1 DEF TwinInv, ReportOK, Reporting, Threads
  <2>4. MarksOK' /\ NoOldOutcomeShown'
    BY <2>1 DEF MarksOK, NoOldOutcomeShown, Marking
  <2>5. PendingOK'
    BY <1>1, <1>2, <2>1 DEF TwinInv, PendingOK, Under, Marking, Invoking, InHandler
  <2>6. ShownOK'
    BY <1>1, <1>2, <2>1 DEF TwinInv, ShownOK, Under, Marking, Invoking, InHandler
  <2>7. SummaryOK'
    <3>1. SUFFICES ASSUME Alone PROVE SummaryOK'
      BY <1>4 DEF SummaryOK, Alone
    <3>2. \A h \in Handlers : twin'[h] # "absent" => Agrees(sectionStatus[h], twin'[h])
      BY <1>1, <1>3, <3>1 DEF Agrees
    <3>3. \A h \in Handlers : /\ h \in twinSummary'.failed <=> sectionStatus[h] = "failed"
                              /\ h \in twinSummary'.pending <=> sectionStatus[h] = "pending"
      BY <1>3, <3>1 DEF SummaryObject
    <3>4. QED
      BY <1>4, <2>1, <3>2, <3>3 DEF SummaryOK, Marking, Reporting
  <2>8. QED
    BY <2>2, <2>3, <2>4, <2>5, <2>6, <2>7 DEF TwinInv
<1>7. CASE ~MarksAgain /\ sequence # << >>
  <2>1. /\ at'["sdk"] = "invoke" /\ update' = update /\ outcome' = outcome
        /\ todo'["sdk"] = update.keys
    <3>1. ToInvoke(update.keys) = update.keys
      BY <1>1, <1>7 DEF ToInvoke
    <3>2. QED
      BY <1>7, <3>1 DEF TwinInv, TypeOK, SendMarks, AfterMarks, Goto, Threads
  <2>2. Control'
    BY <1>1, <1>4, <2>1 DEF TwinInv, Control, Marking, InHandler
  <2>3. ReportOK'
    BY <1>4, <2>1 DEF TwinInv, ReportOK, Reporting, Threads
  <2>4. MarksOK'
    BY <2>1 DEF MarksOK, Marking
  <2>5. NoOldOutcomeShown'
    BY <1>1, <1>2, <1>7, <2>1 DEF NoOldOutcomeShown
  <2>6. PendingOK'
    BY <1>1, <1>2, <2>1 DEF TwinInv, PendingOK, Under, Marking, Invoking, InHandler
  <2>7. ShownOK'
    BY <1>1, <1>2, <2>1 DEF TwinInv, ShownOK, Under, Marking, Invoking, InHandler
  <2>8. SummaryOK'
    <3>1. SUFFICES ASSUME Alone PROVE SummaryOK'
      BY <1>4 DEF SummaryOK, Alone
    <3>2. \A h \in Handlers : twin'[h] # "absent" => Agrees(sectionStatus[h], twin'[h])
      BY <1>1, <1>3, <3>1 DEF Agrees
    <3>3. \A h \in Handlers : /\ h \in twinSummary'.failed <=> sectionStatus[h] = "failed"
                              /\ h \in twinSummary'.pending <=> sectionStatus[h] = "pending"
      BY <1>3, <3>1 DEF SummaryObject
    <3>4. QED
      BY <1>4, <2>1, <3>2, <3>3 DEF SummaryOK, Marking, Reporting
  <2>9. QED
    BY <2>2, <2>3, <2>4, <2>5, <2>6, <2>7, <2>8 DEF TwinInv
<1>8. QED
  BY <1>5, <1>6, <1>7

LEMMA SendReportStep ==
  ASSUME TwinInv, TypeOK', NEW t \in Threads, SendReport(t)
  PROVE  TwinInv'
<1> DEFINE r == report[t]
<1>1. /\ r.handler \in Handlers /\ at[t] = "send" /\ at \in [Threads -> Places]
      /\ \/ r.status = "pending" /\ r.shown = "refreshing"
         \/ r.status \in {"succeeded", "failed"} /\ r.shown = r.status
      /\ patch[t].sections = [Nothing EXCEPT ![r.handler] = r.shown]
      /\ report \in [Threads -> Reports] /\ patch \in [Threads -> Patches]
      /\ twin \in [Handlers -> Shown] /\ outcome \in [Handlers -> Outcomes]
  BY DEF TwinInv, TypeOK, Threads, Reports, ReportOK, Reporting, SendReport
<1>2. twin' = [twin EXCEPT ![r.handler] = r.shown]
  BY <1>1 DEF SendReport, Merged, Nothing
<1>3. UNCHANGED <<active, deps, sequence, sectionStatus, todo, update, received>>
  BY DEF SendReport
<1>4. CASE t = "main"
  <2>1. /\ at' = [at EXCEPT !["main"] = "invoke"] /\ outcome' = outcome
        /\ report'["sdk"] = report["sdk"] /\ patch'["sdk"] = patch["sdk"]
        /\ r.handler \in ReportOnConnect \cap active /\ r.shown \in {"succeeded", "failed"}
    BY <1>1, <1>4 DEF TwinInv, SendReport, AfterReport, Goto, ReportOK, Reporting, Threads
  <2>2. at'["sdk"] = at["sdk"] /\ at'["main"] = "invoke"
    BY <1>1, <2>1 DEF Threads
  <2>3. Control'
    BY <1>1, <1>3, <1>4, <2>1, <2>2 DEF TwinInv, Control, Marking, InHandler
  <2>4. ReportOK'
    <3>1. ~Reporting("main")' /\ (Reporting("sdk")' <=> Reporting("sdk"))
      BY <2>2 DEF Reporting
    <3>2. \A x \in Threads : at'[x] = "send" =>
            patch'[x].sections = [Nothing EXCEPT ![report'[x].handler] = report'[x].shown]
      <4>1. at["sdk"] = "send" =>
              patch["sdk"].sections =
                [Nothing EXCEPT ![report["sdk"].handler] = report["sdk"].shown]
        BY DEF TwinInv, ReportOK, Threads
      <4>2. QED
        BY <2>1, <2>2, <4>1 DEF Threads
    <3>3. QED
      BY <2>1, <3>1, <3>2 DEF TwinInv, ReportOK
  <2>5. MarksOK'
    BY <1>3, <2>1, <2>2 DEF TwinInv, MarksOK, Marking
  <2>6. NoOldOutcomeShown'
    BY <1>1, <1>2, <1>3, <2>1, <2>2 DEF TwinInv, TypeOK, NoOldOutcomeShown
  <2>7. PendingOK'
    BY <1>1, <1>2, <1>3, <2>1, <2>2
       DEF TwinInv, PendingOK, Under, Marking, Invoking, InHandler
  <2>8. ShownOK'
    BY <1>1, <1>2, <1>3, <2>1, <2>2
       DEF TwinInv, ShownOK, Under, Marking, Invoking, InHandler
  <2>9. SummaryOK'
    BY <1>3, <2>1 DEF SummaryOK, Alone
  <2>10. QED
    BY <2>3, <2>4, <2>5, <2>6, <2>7, <2>8, <2>9 DEF TwinInv
<1>5. CASE t = "sdk"
  <2>1. /\ report'["main"] = report["main"] /\ patch'["main"] = patch["main"]
        /\ at'["main"] = at["main"]
        /\ IF r.shown = "refreshing"
           THEN at'["sdk"] = "run" /\ report' = report /\ outcome' = outcome
           ELSE /\ at'["sdk"] = "invoke"
                /\ outcome' = [outcome EXCEPT ![r.handler] = r.shown]
    BY <1>1, <1>5 DEF SendReport, AfterReport, Goto, Threads
  <2>2. r.handler \notin todo["sdk"]
    BY <1>1, <1>5 DEF TwinInv, Control, InHandler
  <2>3. Control'
    BY <1>1, <1>3, <1>5, <2>1, <2>2 DEF TwinInv, Control, Marking, InHandler
  <2>4. ReportOK'
    <3>1. at'["sdk"] \notin {"compose", "send"}
      BY <2>1
    <3>2. ~Reporting("sdk")' /\ (Reporting("main")' <=> Reporting("main"))
      BY <2>1, <3>1 DEF Reporting
    <3>3. active' = active
      BY <1>3
    <3>4. ReportOK
      BY DEF TwinInv
    <3>5. \A x \in Threads : at'[x] = "send" =>
            /\ x = "main" /\ at[x] = "send"
            /\ report'[x] = report[x] /\ patch'[x] = patch[x]
      BY <2>1, <3>1 DEF Threads
    <3>6. QED
      BY ONLY <2>1, <3>2, <3>3, <3>4, <3>5 DEF ReportOK
  <2>5. MarksOK'
    BY <2>1 DEF MarksOK, Marking
  <2>6. NoOldOutcomeShown'
    BY <1>1, <1>2, <1>3, <1>5, <2>1, <2>2 DEF TwinInv, NoOldOutcomeShown
  <2>7. PendingOK'
    BY <1>1, <1>2, <1>3, <1>5, <2>1, <2>2
       DEF TwinInv, PendingOK, Under, Marking, Invoking, InHandler
  <2>8. ShownOK'
    BY <1>1, <1>2, <1>3, <1>5, <2>1, <2>2
       DEF TwinInv, ShownOK, Under, Marking, Invoking, InHandler
  <2>9. SummaryOK'
    <3>1. SUFFICES ASSUME Alone PROVE SummaryOK'
      BY <1>3 DEF SummaryOK, Alone
    <3>2. /\ twinSummary' = SummaryObject(sectionStatus) /\ sectionStatus[r.handler] = r.status
          /\ \A h \in Handlers \ {r.handler} :
               twin[h] # "absent" => Agrees(sectionStatus[h], twin[h])
      BY <1>1, <1>5, <3>1
         DEF TwinInv, SummaryOK, SendReport, Reporting, Newer, Marking
    <3>3. \A h \in Handlers : twin'[h] # "absent" => Agrees(sectionStatus[h], twin'[h])
      BY <1>1, <1>2, <3>2 DEF Agrees
    <3>4. \A h \in Handlers : /\ h \in twinSummary'.failed <=> sectionStatus[h] = "failed"
                              /\ h \in twinSummary'.pending <=> sectionStatus[h] = "pending"
      BY <3>2 DEF SummaryObject
    <3>5. QED
      BY <1>3, <2>1, <3>3, <3>4 DEF SummaryOK, Marking, Reporting
  <2>10. QED
    BY <2>3, <2>4, <2>5, <2>6, <2>7, <2>8, <2>9 DEF TwinInv
<1>6. QED
  BY <1>4, <1>5 DEF Threads

LEMMA TwinStep == TwinInv /\ [Next]_state => TwinInv'
<1> SUFFICES ASSUME TwinInv, [Next]_state PROVE TwinInv'
  OBVIOUS
<1>0. TypeOK'
  BY TypeStep DEF TwinInv
<1>1. ASSUME SignalStart PROVE TwinInv'
  <2>1. Control'
    BY <1>1 DEF TwinInv, TypeOK, Threads, SignalStart, Goto, Control, Marking
  <2>2. ReportOK'
    BY <1>1 DEF TwinInv, Threads, SignalStart, Goto, ReportOK, Reporting
  <2>3. MarksOK'
    BY <1>1 DEF TwinInv, SignalStart, Goto, MarksOK, Marking
  <2>4. NoOldOutcomeShown'
    BY <1>1 DEF TwinInv, SignalStart, Goto, NoOldOutcomeShown
  <2>5. PendingOK'
    BY <1>1 DEF TwinInv, SignalStart, PendingOK, Control, Under, Marking, InHandler
  <2>6. ShownOK'
    BY <1>1 DEF TwinInv, SignalStart, ShownOK, Control, MarksOK, Under, InHandler
  <2>7. SummaryOK'
    BY <1>1 DEF TwinInv, SignalStart, Goto, SummaryOK, Control, Alone, Newer, Marking,
       Reporting
  <2>8. QED
    BY <1>0, <2>1, <2>2, <2>3, <2>4, <2>5, <2>6, <2>7 DEF TwinInv
<1>2. ASSUME HandlerInvokeSequence PROVE TwinInv'
  <2>1. Control'
    BY <1>2, SequenceTaken DEF TwinInv, HandlerInvokeSequence, Goto, Control, Marking
  <2>2. ReportOK'
    BY <1>2 DEF TwinInv, Threads, HandlerInvokeSequence, Goto, ReportOK, Reporting
  <2>3. MarksOK'
    BY <1>2 DEF TwinInv, HandlerInvokeSequence, Goto, MarksOK, Marking
  <2>4. NoOldOutcomeShown'
    BY <1>2 DEF TwinInv, HandlerInvokeSequence, Goto, NoOldOutcomeShown
  <2>5. PendingOK'
    BY <1>2 DEF TwinInv, HandlerInvokeSequence, PendingOK, Control, Under, Marking,
       InHandler
  <2>6. ShownOK'
    BY <1>2 DEF TwinInv, HandlerInvokeSequence, ShownOK, Control, MarksOK, Under, InHandler
  <2>7. SummaryOK'
    BY <1>2 DEF TwinInv, HandlerInvokeSequence, Goto, SummaryOK, Control, Alone, Newer,
       Marking, Reporting
  <2>8. QED
    BY <1>0, <2>1, <2>2, <2>3, <2>4, <2>5, <2>6, <2>7 DEF TwinInv
<1>3. ASSUME Connect PROVE TwinInv'
  <2>1. Control'
    BY <1>3 DEF TwinInv, TypeOK, Threads, Connect, Control, Marking
  <2>2. ReportOK'
    BY <1>3 DEF TwinInv, TypeOK, Threads, Connect, ReportOK, Reporting
  <2>3. MarksOK'
    BY <1>3 DEF TwinInv, TypeOK, Threads, Connect, MarksOK, Marking
  <2>4. NoOldOutcomeShown'
    BY <1>3 DEF TwinInv, TypeOK, Threads, Connect, NoOldOutcomeShown
  <2>5. PendingOK'
    BY <1>3 DEF TwinInv, Connect, PendingOK, Control, Under, Marking, InHandler
  <2>6. ShownOK'
    BY <1>3 DEF TwinInv, Connect, ShownOK, Control, MarksOK, Under, InHandler
  <2>7. SummaryOK'
    BY <1>3 DEF TwinInv, TypeOK, Threads, Connect, SummaryOK, Control, Alone, Newer,
       Marking, Reporting
  <2>8. QED
    BY <1>0, <2>1, <2>2, <2>3, <2>4, <2>5, <2>6, <2>7 DEF TwinInv
<1>4. ASSUME NEW h \in Handlers, OnConnectionStatusChanged(h) PROVE TwinInv'
  <2>1. Control'
    BY <1>4 DEF TwinInv, TypeOK, Threads, OnConnectionStatusChanged, Visited, BeginReport,
       Goto, Control, Marking, InHandler
  <2>2. ReportOK'
    <3>1. h \in active /\ UNCHANGED <<active, patch>>
      BY <1>4 DEF TwinInv, Control, OnConnectionStatusChanged, Turn
    <3>2. CASE h \in ReportOnConnect
      <4>1. PICK s \in {"succeeded", "failed"} : BeginReport("main", h, s, s)
        BY <1>4, <3>2 DEF OnConnectionStatusChanged
      <4>2. /\ at' = [at EXCEPT !["main"] = "compose"]
            /\ report' = [report EXCEPT !["main"] = [handler |-> h, status |-> s, shown |-> s]]
        BY <4>1 DEF BeginReport, Goto
      <4>3. QED
        BY <3>1, <3>2, <4>2 DEF TwinInv, TypeOK, ReportOK, Reporting, Threads
    <3>3. CASE h \notin ReportOnConnect
      BY <1>4, <3>1, <3>3 DEF TwinInv, OnConnectionStatusChanged, ReportOK, Reporting
    <3>4. QED
      BY <3>2, <3>3
  <2>3. MarksOK'
    BY <1>4 DEF TwinInv, TypeOK, Threads, OnConnectionStatusChanged, Visited, BeginReport,
       Goto, MarksOK, Marking
  <2>4. NoOldOutcomeShown'
    BY <1>4 DEF TwinInv, TypeOK, Threads, OnConnectionStatusChanged, Visited, BeginReport,
       Goto, NoOldOutcomeShown
  <2>5. PendingOK'
    BY <1>4 DEF TwinInv, TypeOK, Threads, OnConnectionStatusChanged, Visited, BeginReport,
       Goto, PendingOK, Under, Marking, Invoking, InHandler
  <2>6. ShownOK'
    BY <1>4 DEF TwinInv, TypeOK, Threads, OnConnectionStatusChanged, Visited, BeginReport,
       Goto, ShownOK, MarksOK, Under, Invoking, InHandler
  <2>7. SummaryOK'
    BY <1>4 DEF TwinInv, OnConnectionStatusChanged, Visited, SummaryOK, Control, Alone,
       Newer, Marking, Reporting, Turn, Order
  <2>8. QED
    BY <1>0, <2>1, <2>2, <2>3, <2>4, <2>5, <2>6, <2>7 DEF TwinInv
<1>5. ASSUME AllTold PROVE TwinInv'
  <2>1. Control'
    BY <1>5 DEF TwinInv, AllTold, Goto, Control, Marking, InHandler
  <2>2. ReportOK'
    BY <1>5 DEF TwinInv, Threads, AllTold, Goto, ReportOK, Reporting
  <2>3. MarksOK'
    BY <1>5 DEF TwinInv, AllTold, Goto, MarksOK, Marking
  <2>4. NoOldOutcomeShown'
    BY <1>5 DEF TwinInv, AllTold, Goto, NoOldOutcomeShown
  <2>5. PendingOK'
    BY <1>5 DEF TwinInv, AllTold, Goto, PendingOK, Under, Marking, Invoking, InHandler
  <2>6. ShownOK'
    BY <1>5 DEF TwinInv, AllTold, Goto, ShownOK, MarksOK, Under, Invoking, InHandler
  <2>7. SummaryOK'
    BY <1>5 DEF TwinInv, AllTold, Goto, SummaryOK, Alone, Newer, Marking, Reporting, Turn,
       Order
  <2>8. QED
    BY <1>0, <2>1, <2>2, <2>3, <2>4, <2>5, <2>6, <2>7 DEF TwinInv
<1>6. ASSUME NEW h \in Handlers, MarkSection(h) PROVE TwinInv'
  <2>1. Control'
    BY <1>6 DEF TwinInv, MarkSection, Goto, Control, Marking, InHandler
  <2>2. ReportOK'
    BY <1>6 DEF TwinInv, Threads, MarkSection, Goto, ReportOK, Reporting
  <2>3. MarksOK'
    BY <1>6 DEF TwinInv, MarkSection, MarksOK, Marking
  <2>4. NoOldOutcomeShown'
    BY <1>6 DEF MarkSection, Goto, NoOldOutcomeShown
  <2>5. PendingOK'
    BY <1>6 DEF TwinInv, MarkSection, Goto, PendingOK, Control, Under, Marking, InHandler
  <2>6. ShownOK'
    BY <1>6 DEF TwinInv, MarkSection, Goto, ShownOK, Control, Under, Marking, InHandler
  <2>7. SummaryOK'
    <3>1. SUFFICES ASSUME Alone PROVE SummaryOK'
      BY <1>6 DEF MarkSection, SummaryOK, Alone
    <3>2. /\ at'["sdk"] = "ask" /\ at["sdk"] = "mark" /\ ~update.method /\ h \in update.objects
          /\ sectionStatus' = [sectionStatus EXCEPT ![h] = update.status]
          /\ UNCHANGED <<twin, twinSummary, update, patch, todo>>
      BY <1>6 DEF TwinInv, TypeOK, Threads, MarkSection, Goto, Turn, Control, Marking
    <3>3. sectionStatus \in [Handlers -> Statuses \cup {"none"}] /\ Newer(h)' 
      BY <3>2 DEF TwinInv, TypeOK, Newer, Marking
    <3>4. \A g \in Handlers : twin'[g] # "absent" /\ ~Newer(g)' =>
                                Agrees(sectionStatus'[g], twin'[g])
      BY <3>1, <3>2, <3>3 DEF TwinInv, SummaryOK, Newer, Reporting
    <3>5. \A g \in Handlers : Turn("sdk", g)' => g = h
      BY <1>6, <3>2, TurnUnique DEF Turn, Order, MarkSection, Threads
    <3>6. QED
      BY <3>1, <3>2, <3>3, <3>4, <3>5 DEF TwinInv, SummaryOK, Marking, Reporting
  <2>8. QED
    BY <1>0, <2>1, <2>2, <2>3, <2>4, <2>5, <2>6, <2>7 DEF TwinInv
<1>7. ASSUME NEW h \in Handlers, SetDeploymentStatus(h) PROVE TwinInv'
  <2>1. Control'
    BY <1>7 DEF TwinInv, SetDeploymentStatus, Goto, Visited, Control, Marking, InHandler
  <2>2. ReportOK'
    BY <1>7 DEF TwinInv, Threads, SetDeploymentStatus, Goto, ReportOK, Reporting
  <2>3. MarksOK'
    <3>1. /\ at["sdk"] = "ask" /\ h \in todo["sdk"] /\ todo["sdk"] \subseteq update.objects
          /\ at'["sdk"] = "mark" /\ todo'["sdk"] = todo["sdk"] \ {h}
          /\ UNCHANGED <<update, outcome>>
      BY <1>7 DEF TwinInv, TypeOK, Threads, SetDeploymentStatus, Turn, Visited, Goto,
         Control, Marking
    <3>2. patch'["sdk"].sections = [patch["sdk"].sections EXCEPT ![h] = update.status]
      BY <1>7 DEF TwinInv, TypeOK, Threads, SetDeploymentStatus
    <3>3. DOMAIN patch["sdk"].sections = Handlers
      BY DEF TwinInv, TypeOK, Threads, Patches
    <3>4. QED
      BY <3>1, <3>2, <3>3 DEF TwinInv, MarksOK, Marking
  <2>4. NoOldOutcomeShown'
    BY <1>7 DEF SetDeploymentStatus, Goto, NoOldOutcomeShown
  <2>5. PendingOK'
    BY <1>7 DEF TwinInv, SetDeploymentStatus, Goto, PendingOK, Control, Under, Marking,
       InHandler
  <2>6. ShownOK'
    BY <1>7 DEF TwinInv, SetDeploymentStatus, Goto, ShownOK, Control, Under, Marking,
       InHandler
  <2>7. SummaryOK'
    BY <1>7 DEF TwinInv, TypeOK, Threads, SetDeploymentStatus, Goto, SummaryOK, Alone,
       Newer, Marking, Reporting
  <2>8. QED
    BY <1>0, <2>1, <2>2, <2>3, <2>4, <2>5, <2>6, <2>7 DEF TwinInv
<1>8. ASSUME NEW h \in Handlers, SetDeploymentStatusFails(h) PROVE TwinInv'
  <2>1. Control'
    BY <1>8 DEF TwinInv, SetDeploymentStatusFails, Goto, Visited, Control, Marking,
       InHandler
  <2>2. ReportOK'
    BY <1>8 DEF TwinInv, Threads, SetDeploymentStatusFails, Goto, ReportOK, Reporting
  <2>3. MarksOK'
    <3>1. /\ at["sdk"] = "ask" /\ h \in todo["sdk"] /\ todo["sdk"] \subseteq update.objects
          /\ at'["sdk"] = "mark" /\ todo'["sdk"] = todo["sdk"] \ {h}
          /\ UNCHANGED <<update, outcome>>
      BY <1>8 DEF TwinInv, TypeOK, Threads, SetDeploymentStatusFails, Turn, Visited, Goto,
         Control, Marking
    <3>2. patch'["sdk"].sections = [patch["sdk"].sections EXCEPT ![h] = "unknown"]
      BY <1>8 DEF TwinInv, TypeOK, Threads, SetDeploymentStatusFails
    <3>3. DOMAIN patch["sdk"].sections = Handlers
      BY DEF TwinInv, TypeOK, Threads, Patches
    <3>4. QED
      BY <3>1, <3>2, <3>3 DEF TwinInv, MarksOK, Marking
  <2>4. NoOldOutcomeShown'
    BY <1>8 DEF SetDeploymentStatusFails, Goto, NoOldOutcomeShown
  <2>5. PendingOK'
    BY <1>8 DEF TwinInv, SetDeploymentStatusFails, Goto, PendingOK, Control, Under,
       Marking, InHandler
  <2>6. ShownOK'
    BY <1>8 DEF TwinInv, SetDeploymentStatusFails, Goto, ShownOK, Control, Under, Marking,
       InHandler
  <2>7. SummaryOK'
    BY <1>8 DEF TwinInv, TypeOK, SetDeploymentStatusFails, Fails, SummaryOK, Alone
  <2>8. QED
    BY <1>0, <2>1, <2>2, <2>3, <2>4, <2>5, <2>6, <2>7 DEF TwinInv
<1>9. ASSUME AggregateMarks PROVE TwinInv'
  <2>1. Control'
    BY <1>9 DEF TwinInv, AggregateMarks, Goto, Control, Marking
  <2>2. ReportOK'
    BY <1>9 DEF TwinInv, Threads, AggregateMarks, Goto, ReportOK, Reporting
  <2>3. MarksOK'
    BY <1>9 DEF TwinInv, AggregateMarks, MarksOK, Marking
  <2>4. NoOldOutcomeShown'
    BY <1>9 DEF TwinInv, AggregateMarks, NoOldOutcomeShown
  <2>5. PendingOK'
    BY <1>9 DEF TwinInv, AggregateMarks, Goto, PendingOK, Under, Marking, InHandler
  <2>6. ShownOK'
    BY <1>9 DEF TwinInv, AggregateMarks, ShownOK, MarksOK, Under, InHandler
  <2>7. SummaryOK'
    BY <1>9 DEF TwinInv, TypeOK, AggregateMarks, Goto, SummaryOK, Alone, Newer, Marking,
       Reporting
  <2>8. QED
    BY <1>0, <2>1, <2>2, <2>3, <2>4, <2>5, <2>6, <2>7 DEF TwinInv
<1>10. ASSUME SendMarks PROVE TwinInv'
  BY <1>0, <1>10, SendMarksStep
<1>11. ASSUME SendMarksFails PROVE TwinInv'
  <2>1. Control'
    BY <1>11 DEF TwinInv, Threads, SendMarksFails, Control, Marking
  <2>2. ReportOK'
    BY <1>11 DEF Threads, SendMarksFails, ReportOK, Reporting
  <2>3. MarksOK'
    BY <1>11 DEF TwinInv, SendMarksFails, MarksOK, Marking
  <2>4. NoOldOutcomeShown'
    BY <1>11 DEF Threads, SendMarksFails, NoOldOutcomeShown
  <2>5. PendingOK'
    BY <1>11 DEF Threads, SendMarksFails, PendingOK, Under
  <2>6. ShownOK'
    BY <1>11 DEF Threads, SendMarksFails, ShownOK, Under
  <2>7. SummaryOK'
    BY <1>11 DEF TwinInv, TypeOK, SendMarksFails, Fails, SummaryOK, Alone
  <2>8. QED
    BY <1>0, <2>1, <2>2, <2>3, <2>4, <2>5, <2>6, <2>7 DEF TwinInv
<1>12. ASSUME NEW h \in Handlers, InvokeInactive(h) PROVE TwinInv'
  <2>1. ReportOK'
    BY <1>12 DEF TwinInv, InvokeInactive, ReportOK, Reporting
  <2>2. Control'
    BY <1>12 DEF TwinInv, InvokeInactive, Visited, Control, Marking, InHandler
  <2>3. MarksOK'
    BY <1>12 DEF InvokeInactive, MarksOK, Marking
  <2>4. NoOldOutcomeShown'
    BY <1>12 DEF TwinInv, InvokeInactive, Visited, NoOldOutcomeShown
  <2>5. PendingOK'
    BY <1>12 DEF TwinInv, TypeOK, InvokeInactive, Visited, PendingOK, Under, Marking,
       Invoking, InHandler
  <2>6. ShownOK'
    BY <1>12 DEF TwinInv, TypeOK, InvokeInactive, Visited, ShownOK, MarksOK, Under,
       Invoking, InHandler
  <2>7. SummaryOK'
    BY <1>12 DEF TwinInv, InvokeInactive, SummaryOK, Alone, Newer, Marking, Reporting
  <2>8. QED
    BY <1>0, <2>1, <2>2, <2>3, <2>4, <2>5, <2>6, <2>7 DEF TwinInv
<1>13. ASSUME NEW h \in Handlers, InvokeActive(h) PROVE TwinInv'
  <2>1. Control'
    BY <1>13 DEF TwinInv, TypeOK, Threads, InvokeActive, Visited, Goto, Control, Marking
  <2>2. ReportOK'
    BY <1>13 DEF TwinInv, Threads, InvokeActive, Goto, ReportOK, Reporting
  <2>3. MarksOK'
    BY <1>13 DEF InvokeActive, Goto, MarksOK, Marking
  <2>4. NoOldOutcomeShown'
    BY <1>13 DEF TwinInv, InvokeActive, Visited, NoOldOutcomeShown
  <2>5. PendingOK'
    BY <1>13 DEF TwinInv, TypeOK, InvokeActive, Visited, Goto, PendingOK, Under, Marking,
       Invoking, InHandler
  <2>6. ShownOK'
    BY <1>13 DEF TwinInv, TypeOK, InvokeActive, Visited, Goto, ShownOK, MarksOK, Under,
       Invoking, InHandler
  <2>7. SummaryOK'
    BY <1>13 DEF TwinInv, InvokeActive, Goto, SummaryOK, Alone, Newer, Marking, Reporting
  <2>8. QED
    BY <1>0, <2>1, <2>2, <2>3, <2>4, <2>5, <2>6, <2>7 DEF TwinInv
<1>14. ASSUME ReportRefreshing PROVE TwinInv'
  <2>1. Control'
    BY <1>14 DEF TwinInv, ReportRefreshing, BeginReport, Goto, Control, Marking, InHandler
  <2>2. ReportOK'
    BY <1>14 DEF TwinInv, TypeOK, ReportRefreshing, BeginReport, Goto, ReportOK, Reporting
  <2>3. MarksOK'
    BY <1>14 DEF ReportRefreshing, BeginReport, Goto, MarksOK, Marking
  <2>4. NoOldOutcomeShown'
    BY <1>14 DEF TwinInv, ReportRefreshing, NoOldOutcomeShown
  <2>5. PendingOK'
    BY <1>14 DEF TwinInv, ReportRefreshing, BeginReport, Goto, PendingOK, Under, Marking,
       Invoking, InHandler
  <2>6. ShownOK'
    BY <1>14 DEF TwinInv, ReportRefreshing, BeginReport, Goto, ShownOK, MarksOK, Under,
       Invoking, InHandler
  <2>7. SummaryOK'
    <3>1. report["sdk"].handler \in Handlers
      BY DEF TwinInv, TypeOK, Reports, Threads
    <3>2. QED
      BY <1>14, <3>1, BeginReportSummary DEF TwinInv, TypeOK, ReportRefreshing
  <2>8. QED
    BY <1>0, <2>1, <2>2, <2>3, <2>4, <2>5, <2>6, <2>7 DEF TwinInv
<1>15. ASSUME FinalizeAndReport PROVE TwinInv'
  <2>1. Control'
    BY <1>15 DEF TwinInv, FinalizeAndReport, BeginReport, Goto, Control, Marking, InHandler
  <2>2. ReportOK'
    BY <1>15 DEF TwinInv, TypeOK, FinalizeAndReport, BeginReport, Goto, ReportOK, Reporting
  <2>3. MarksOK'
    BY <1>15 DEF FinalizeAndReport, BeginReport, Goto, MarksOK, Marking
  <2>4. NoOldOutcomeShown'
    BY <1>15 DEF TwinInv, FinalizeAndReport, NoOldOutcomeShown
  <2>5. PendingOK'
    BY <1>15 DEF TwinInv, FinalizeAndReport, BeginReport, Goto, PendingOK, Under, Marking,
       Invoking, InHandler
  <2>6. ShownOK'
    BY <1>15 DEF TwinInv, FinalizeAndReport, BeginReport, Goto, ShownOK, MarksOK, Under,
       Invoking, InHandler
  <2>7. SummaryOK'
    <3>1. report["sdk"].handler \in Handlers
      BY DEF TwinInv, TypeOK, Reports, Threads
    <3>2. QED
      BY <1>15, <3>1, BeginReportSummary DEF TwinInv, TypeOK, FinalizeAndReport
  <2>8. QED
    BY <1>0, <2>1, <2>2, <2>3, <2>4, <2>5, <2>6, <2>7 DEF TwinInv
<1>16. ASSUME InvokeThrows PROVE TwinInv'
  <2>1. Control'
    BY <1>16 DEF TwinInv, TypeOK, InvokeThrows, Goto, Control, Marking, InHandler
  <2>2. ReportOK'
    BY <1>16 DEF TwinInv, InvokeThrows, Goto, ReportOK, Reporting
  <2>3. MarksOK'
    BY <1>16 DEF InvokeThrows, Goto, MarksOK, Marking
  <2>4. NoOldOutcomeShown'
    BY <1>16 DEF TwinInv, InvokeThrows, NoOldOutcomeShown
  <2>5. PendingOK'
    BY <1>16 DEF TwinInv, TypeOK, InvokeThrows, Goto, PendingOK, Under, Marking, Invoking
  <2>6. ShownOK'
    BY <1>16 DEF TwinInv, TypeOK, InvokeThrows, Goto, ShownOK, MarksOK, Under, Invoking
  <2>7. SummaryOK'
    BY <1>16 DEF TwinInv, TypeOK, InvokeThrows, Fails, SummaryOK, Alone
  <2>8. QED
    BY <1>0, <2>1, <2>2, <2>3, <2>4, <2>5, <2>6, <2>7 DEF TwinInv
<1>17. ASSUME ClearOthers PROVE TwinInv'
  <2>1. Control'
    BY <1>17 DEF TwinInv, ClearOthers, BeginReport, Goto, Control, Marking, InHandler
  <2>2. ReportOK'
    BY <1>17 DEF TwinInv, TypeOK, ClearOthers, BeginReport, Goto, ReportOK, Reporting
  <2>3. MarksOK'
    BY <1>17 DEF ClearOthers, BeginReport, Goto, MarksOK, Marking
  <2>4. NoOldOutcomeShown'
    BY <1>17 DEF TwinInv, TypeOK, Threads, ClearOthers, NoOldOutcomeShown
  <2>5. PendingOK'
    BY <1>17 DEF TwinInv, TypeOK, Threads, ClearOthers, BeginReport, Goto, PendingOK,
       Under, InHandler
  <2>6. ShownOK'
    BY <1>17 DEF TwinInv, TypeOK, Threads, ClearOthers, BeginReport, Goto, ShownOK, Under,
       InHandler
  <2>7. SummaryOK'
    <3>1. ClearReported \in Handlers
      BY ParametersOK
    <3>2. QED
      BY <1>17, <3>1, BeginReportSummary DEF TwinInv, TypeOK, ClearOthers
  <2>8. QED
    BY <1>0, <2>1, <2>2, <2>3, <2>4, <2>5, <2>6, <2>7 DEF TwinInv
<1>18. ASSUME ClearFails PROVE TwinInv'
  <2>1. Control'
    BY <1>18 DEF TwinInv, ClearFails, BeginReport, Goto, Control, Marking, InHandler
  <2>2. ReportOK'
    BY <1>18 DEF TwinInv, TypeOK, ClearFails, BeginReport, Goto, ReportOK, Reporting
  <2>3. MarksOK'
    BY <1>18 DEF ClearFails, BeginReport, Goto, MarksOK, Marking
  <2>4. NoOldOutcomeShown'
    BY <1>18 DEF TwinInv, ClearFails, NoOldOutcomeShown
  <2>5. PendingOK'
    BY <1>18 DEF TwinInv, ClearFails, BeginReport, Goto, PendingOK, Control, Under,
       Marking, Invoking, InHandler
  <2>6. ShownOK'
    BY <1>18 DEF TwinInv, ClearFails, BeginReport, Goto, ShownOK, Control, MarksOK, Under,
       Invoking, InHandler
  <2>7. SummaryOK'
    <3>1. ClearReported \in Handlers
      BY ParametersOK
    <3>2. QED
      BY <1>18, <3>1, BeginReportSummary DEF TwinInv, TypeOK, ClearFails
  <2>8. QED
    BY <1>0, <2>1, <2>2, <2>3, <2>4, <2>5, <2>6, <2>7 DEF TwinInv
<1>19. ASSUME AllInvoked PROVE TwinInv'
  <2>1. Control'
    BY <1>19 DEF TwinInv, AllInvoked, Goto, Control, Marking, NoUpdate
  <2>2. ReportOK'
    BY <1>19 DEF TwinInv, AllInvoked, Goto, ReportOK, Reporting
  <2>3. MarksOK'
    BY <1>19 DEF AllInvoked, Goto, MarksOK, Marking
  <2>4. NoOldOutcomeShown'
    BY <1>19 DEF TwinInv, AllInvoked, NoOldOutcomeShown
  <2>5. PendingOK'
    BY <1>19 DEF TwinInv, AllInvoked, PendingOK, Under, Marking, InHandler
  <2>6. ShownOK'
    BY <1>19 DEF TwinInv, AllInvoked, ShownOK, MarksOK, Under, InHandler
  <2>7. SummaryOK'
    BY <1>19 DEF TwinInv, AllInvoked, Goto, SummaryOK, Alone, Newer, Marking, Reporting
  <2>8. QED
    BY <1>0, <2>1, <2>2, <2>3, <2>4, <2>5, <2>6, <2>7 DEF TwinInv
<1>20. ASSUME NEW u \in Updates, OnDeviceTwinReceived(u.keys, u.objects) PROVE TwinInv'
  <2>1. Control'
    BY <1>20, ParametersOK DEF TwinInv, TypeOK, OnDeviceTwinReceived, BeginMarks, Goto,
       SectionsToMark, Control, InHandler
  <2>2. ReportOK'
    BY <1>20 DEF TwinInv, Threads, OnDeviceTwinReceived, BeginMarks, Goto, ReportOK,
       Reporting
  <2>3. MarksOK'
    BY <1>20, ParametersOK DEF TwinInv, TypeOK, Threads, OnDeviceTwinReceived, BeginMarks,
       SectionsToMark, Goto, MarksOK, Marking, NoPatch, Nothing
  <2>4. NoOldOutcomeShown'
    BY <1>20 DEF TwinInv, TypeOK, Threads, OnDeviceTwinReceived, BeginMarks, Goto,
       SectionsToMark, NoOldOutcomeShown, Control, ReportOK, MarksOK
  <2>5. PendingOK'
    BY <1>20 DEF TwinInv, TypeOK, Threads, OnDeviceTwinReceived, BeginMarks, Goto,
       PendingOK, Control, Under, Marking, InHandler
  <2>6. ShownOK'
    BY <1>20 DEF TwinInv, OnDeviceTwinReceived, ShownOK, Control, MarksOK, Under, InHandler
  <2>7. SummaryOK'
    <3>1. /\ at["sdk"] = "idle" /\ at'["sdk"] = "mark" /\ patch'["sdk"] = NoPatch
          /\ received'.failures = received.failures /\ UNCHANGED <<active, sectionStatus, twin>>
      BY <1>20 DEF TwinInv, TypeOK, Threads, OnDeviceTwinReceived, BeginMarks, Goto
    <3>2. QED
      BY <3>1 DEF TwinInv, SummaryOK, Alone, Newer, Marking, Reporting, NoPatch, Nothing
  <2>8. QED
    BY <1>0, <2>1, <2>2, <2>3, <2>4, <2>5, <2>6, <2>7 DEF TwinInv
<1>21. ASSUME NEW h \in Handlers, OnDirectMethodInvoked(h) PROVE TwinInv'
  <2>1. Control'
    BY <1>21 DEF TwinInv, TypeOK, OnDirectMethodInvoked, Goto, Control, Marking, InHandler,
       NoUpdate
  <2>2. ReportOK'
    BY <1>21 DEF TwinInv, Threads, OnDirectMethodInvoked, Goto, ReportOK, Reporting
  <2>3. MarksOK'
    BY <1>21 DEF OnDirectMethodInvoked, Goto, MarksOK, Marking
  <2>4. NoOldOutcomeShown'
    BY <1>21 DEF TwinInv, OnDirectMethodInvoked, NoOldOutcomeShown
  <2>5. PendingOK'
    BY <1>21 DEF TwinInv, OnDirectMethodInvoked, PendingOK, Control, Under, Marking,
       InHandler
  <2>6. ShownOK'
    BY <1>21 DEF TwinInv, OnDirectMethodInvoked, ShownOK, Control, MarksOK, Under, InHandler
  <2>7. SummaryOK'
    BY <1>21 DEF TwinInv, OnDirectMethodInvoked, Goto, SummaryOK, Alone, Newer, Marking,
       Reporting
  <2>8. QED
    BY <1>0, <2>1, <2>2, <2>3, <2>4, <2>5, <2>6, <2>7 DEF TwinInv
<1>22. ASSUME NEW t \in Threads, Compose(t) PROVE TwinInv'
  <2>1. Control'
    BY <1>22 DEF TwinInv, Compose, Goto, Control, Marking, InHandler
  <2>2. ReportOK'
    <3>1. /\ at[t] = "compose" /\ at' = [at EXCEPT ![t] = "send"] /\ UNCHANGED <<report, active>>
          /\ patch' = [patch EXCEPT ![t] =
               [sections |-> [Nothing EXCEPT ![report[t].handler] = report[t].shown],
                summary  |-> SummaryObject(sectionStatus)]]
      BY <1>22 DEF Compose, Goto
    <3>2. at \in [Threads -> Places] /\ patch \in [Threads -> Patches]
      BY DEF TwinInv, TypeOK
    <3>3. \A x \in Threads : Reporting(x)' => Reporting(x)
      BY <3>1, <3>2 DEF Reporting
    <3>4. \A x \in Threads : at'[x] = "send" =>
            patch'[x].sections = [Nothing EXCEPT ![report[x].handler] = report[x].shown]
      BY <3>1, <3>2 DEF TwinInv, ReportOK
    <3>5. QED
      BY <3>1, <3>3, <3>4 DEF TwinInv, ReportOK, Threads
  <2>3. MarksOK'
    BY <1>22 DEF TwinInv, Compose, Goto, MarksOK, Marking
  <2>4. NoOldOutcomeShown'
    BY <1>22 DEF TwinInv, Compose, Goto, NoOldOutcomeShown
  <2>5. PendingOK'
    BY <1>22 DEF TwinInv, Compose, Goto, PendingOK, Under, Marking, Invoking, InHandler
  <2>6. ShownOK'
    BY <1>22 DEF TwinInv, Compose, Goto, ShownOK, MarksOK, Under, Invoking, InHandler
  <2>7. SummaryOK'
    BY <1>22 DEF TwinInv, TypeOK, Threads, Compose, Goto, SummaryOK, ReportOK, Alone,
       Newer, Marking, Reporting
  <2>8. QED
    BY <1>0, <2>1, <2>2, <2>3, <2>4, <2>5, <2>6, <2>7 DEF TwinInv
<1>23. ASSUME NEW t \in Threads, SendReport(t) PROVE TwinInv'
  BY <1>0, <1>23, SendReportStep
<1>24. ASSUME NEW t \in Threads, SendReportFails(t) PROVE TwinInv'
  <2>1. Control'
    BY <1>24 DEF TwinInv, TypeOK, Threads, SendReportFails, Goto, Control, Marking,
       InHandler
  <2>2. ReportOK'
    <3>1. CASE \A x \in Threads : at'[x] = "terminated"
      BY <3>1 DEF ReportOK, Reporting, Threads
    <3>2. CASE at' = [at EXCEPT ![t] = "invoke"]
      <4>1. ~Reporting(t)' /\ \A x \in Threads \ {t} : Reporting(x)' <=> Reporting(x)
        BY <3>2 DEF TwinInv, TypeOK, Reporting
      <4>2. \A x \in Threads \ {t} : patch'[x] = patch[x] /\ report'[x] = report[x]
        BY <1>24 DEF TwinInv, TypeOK, SendReportFails
      <4>3. at'[t] # "send" /\ \A x \in Threads \ {t} : at'[x] = at[x]
        BY <3>2 DEF TwinInv, TypeOK
      <4>4. active' = active
        BY <1>24 DEF SendReportFails
      <4>5. QED
        BY <4>1, <4>2, <4>3, <4>4 DEF TwinInv, ReportOK, Threads
    <3>3. QED
      BY <1>24, <3>1, <3>2 DEF SendReportFails, Goto
  <2>3. MarksOK'
    BY <1>24 DEF TwinInv, TypeOK, Threads, SendReportFails, Goto, MarksOK, Marking
  <2>4. NoOldOutcomeShown'
    BY <1>24 DEF TwinInv, TypeOK, Threads, SendReportFails, Goto, NoOldOutcomeShown
  <2>5. PendingOK'
    BY <1>24 DEF TwinInv, TypeOK, Threads, SendReportFails, Goto, PendingOK, Under,
       Marking, Invoking, InHandler
  <2>6. ShownOK'
    BY <1>24 DEF TwinInv, TypeOK, Threads, SendReportFails, Goto, ShownOK, MarksOK, Under,
       Invoking, InHandler
  <2>7. SummaryOK'
    BY <1>24 DEF TwinInv, TypeOK, SendReportFails, Fails, SummaryOK, Alone
  <2>8. QED
    BY <1>0, <2>1, <2>2, <2>3, <2>4, <2>5, <2>6, <2>7 DEF TwinInv
<1>25. CASE UNCHANGED state
  <2>1. Control' /\ ReportOK' /\ MarksOK' /\ NoOldOutcomeShown'
    BY <1>25 DEF state, TwinInv, Control, ReportOK, MarksOK, NoOldOutcomeShown, Marking,
       InHandler, Reporting
  <2>2. PendingOK' /\ ShownOK'
    BY <1>25 DEF state, TwinInv, PendingOK, ShownOK, Under, Marking, Invoking, InHandler
  <2>3. SummaryOK'
    BY <1>25 DEF state, TwinInv, SummaryOK, Alone, Newer, Marking, Reporting, Turn, Order
  <2>4. QED
    BY <1>0, <2>1, <2>2, <2>3 DEF TwinInv
<1>26. CASE MainStep
  BY <1>26, <1>1, <1>2, <1>3, <1>4, <1>5, <1>22, <1>23, <1>24 DEF MainStep, ReportStep,
     Threads
<1>27. CASE SdkStep
  BY <1>27, <1>6, <1>7, <1>8, <1>9, <1>10, <1>11, <1>12, <1>13, <1>14, <1>15, <1>16, <1>17,
     <1>18, <1>19, <1>22, <1>23, <1>24 DEF SdkStep, ReportStep, Threads
<1>28. QED
  BY <1>20, <1>21, <1>25, <1>26, <1>27 DEF Next, Callback

LEMMA TwinInit == Init => TwinInv
<1> SUFFICES ASSUME Init PROVE TwinInv
  OBVIOUS
<1>1. TypeOK
  <2>1. deps \in DependencyMaps /\ active \in SUBSET Handlers /\ sequence \in Seq(Handlers)
    BY DEF Init
  <2>2. /\ sectionStatus \in [Handlers -> Statuses \cup {"none"}] /\ twin \in [Handlers -> Shown]
        /\ twinSummary \in Summaries /\ outcome \in [Handlers -> Outcomes]
    BY DEF Init, Shown, Outcomes, Summaries, NoSummary
  <2>3. at \in [Threads -> Places] /\ todo \in [Threads -> SUBSET Handlers]
    BY DEF Init, Places
  <2>4. /\ patch \in [Threads -> Patches] /\ report \in [Threads -> Reports]
        /\ update \in UnderWay
    BY Empty DEF Init
  <2>5. received \in [callbacks : 0 .. MaxCallbacks, failures : 0 .. MaxFailures]
    <3>1. MaxCallbacks \in Nat /\ MaxFailures \in Nat
      BY ParametersOK
    <3>2. QED
      BY <3>1 DEF Init
  <2>6. QED
    BY <2>1, <2>2, <2>3, <2>4, <2>5 DEF TypeOK
<1>2. at["sdk"] = "connecting" /\ at["main"] = "starting"
  BY DEF Init, Threads
<1>3. Control
  BY <1>2 DEF Init, Control, Marking, InHandler, Threads, NoUpdate
<1>4. ReportOK
  BY <1>2 DEF ReportOK, Reporting, Threads
<1>5. MarksOK /\ NoOldOutcomeShown
  BY <1>2 DEF MarksOK, NoOldOutcomeShown, Marking
<1>6. PendingOK /\ ShownOK
  BY DEF Init, PendingOK, ShownOK
<1>7. SummaryOK
  BY <1>2 DEF Init, SummaryOK, Marking, Reporting
<1>8. QED
  BY <1>1, <1>3, <1>4, <1>5, <1>6, <1>7 DEF TwinInv

\* The inductive invariant: what the two threads' loops, reports and marks are
\* about, what the twin shows of each handler, and what the summary says of it
\* (AzureRawHost.cpp: MarkStatus, InvokeHandler, Report, SignalConnectionStatusChanged).
THEOREM TwinInvariant == Spec => []TwinInv
  BY TwinInit, TwinStep, PTL DEF Spec

-----------------------------------------------------------------------------
\* A handler that ran to its end is never left pending in the device twin
\* (AzureRawHost::OnDeviceTwinReceived, InvokeHandler).
THEOREM PendingOnlyWhileUnfinished == Spec => []PendingOnlyIfUnfinished
<1>1. TwinInv => PendingOnlyIfUnfinished
  BY DEF TwinInv, PendingOK, PendingOnlyIfUnfinished, Quiet, Under, Marking, Invoking, InHandler
<1>2. QED
  BY <1>1, TwinInvariant, PTL

\* While a handler waits for its turn in an update, the hub holds no outcome of
\* its earlier configuration (AzureRawHost::MarkStatus sends all marks before the
\* first InvokeHandler).
THEOREM OldOutcomesAreMarked == Spec => []NoOldOutcomeShown
<1>1. TwinInv => NoOldOutcomeShown
  BY DEF TwinInv
<1>2. QED
  BY <1>1, TwinInvariant, PTL

\* With nothing under way, a handler that does not report on connect shows the
\* outcome of its last invocation, whatever the main loop reported meanwhile
\* (AzureRawHost::Report, called by two threads without a lock).
THEOREM LastOutcomeStays == Spec => []LastOutcomeShown
<1>1. TwinInv => LastOutcomeShown
  BY DEF TwinInv, ShownOK, LastOutcomeShown, Quiet, Under, Marking, Invoking, InHandler
<1>2. QED
  BY <1>1, TwinInvariant, PTL

\* As long as only the callback thread reports and every report arrives, the
\* summary in the hub agrees with the sections it sums up (ReportedSummary,
\* AzureRawHost::MarkStatus and Report).
THEOREM SummaryAgrees == Spec => []SummaryMatchesTwin
<1>1. TwinInv => SummaryMatchesTwin
  BY DEF TwinInv, SummaryOK, SummaryMatchesTwin, Quiet, Alone, Agrees, Newer, Marking, Reporting
<1>2. QED
  BY <1>1, TwinInvariant, PTL

=============================================================================
