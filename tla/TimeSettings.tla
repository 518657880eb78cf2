----------------------------- MODULE TimeSettings -----------------------------
(***************************************************************************)
(* TimeStateHandler and the IoT Hub it hears from.  A change of the twin   *)
(* reaches the handler as the changed leaves only; on a new connection the *)
(* whole section comes.  The handler merges what comes into a section it   *)
(* keeps in memory and applies that: the NTP server if it has one, the     *)
(* time zone if it has all of its fields or none.  The memory is lost when *)
(* the plugin's host process ends - in an error, or unused for some time - *)
(* and nothing sends the section again.                                    *)
(***************************************************************************)
EXTENDS HandlerInvocation

CONSTANTS
    TimeZoneFields,               \* the eleven fields of the time zone
    StandardDate, DaylightDate,   \* two of them
    TimeValues,                   \* the values of any leaf
    TimeChanges                   \* the changes the cloud may make

Leaves == TimeZoneFields \cup {"ntpServer"}
Absent == "absent"
Sections == [Leaves -> TimeValues \cup {Absent}]

\* A change names some leaves; a removed leaf comes as null.
ASSUME TimeParametersOK ==
    /\ "ntpServer" \notin TimeZoneFields
    /\ {StandardDate, DaylightDate} \subseteq TimeZoneFields
    /\ TimeValues \cap {Absent, "same", "default"} = {}
    /\ \A c \in TimeChanges :
         /\ c.kind \in SectionKinds \ {"refreshing"}
         /\ c.detailed \in BOOLEAN
         /\ c.leaves \in [Leaves -> TimeValues \cup {Absent, "same"}]

VARIABLES
    timeDesired,    \* the section as the IoT Hub holds it
    timeCache,      \* _groupDesiredConfigJson
    timeChange,     \* the last invocation's kind and reporting mode
    timeDevice,     \* the NTP server and the time zone that are set
    forgotten       \* the memory was lost since the whole section came (ghost)

timeVars == <<timeDesired, timeCache, timeChange, timeDevice, forgotten>>

TimeInit ==
    /\ timeDesired = [l \in Leaves |-> Absent]
    /\ timeCache = timeDesired
    /\ timeChange = [kind |-> "good", detailed |-> TRUE]
    /\ timeDevice = [l \in Leaves |-> "default"]
    /\ forgotten = FALSE

TimeOK ==
    /\ timeDesired \in Sections
    /\ timeCache \in Sections
    /\ timeChange \in [kind : SectionKinds, detailed : BOOLEAN]
    /\ timeDevice \in [Leaves -> TimeValues \cup {"default"}]
    /\ forgotten \in BOOLEAN

Changed(section, change) ==
    [l \in Leaves |-> IF change.leaves[l] = "same" THEN section[l] ELSE change.leaves[l]]

\* Mutant: only a section that is complete in itself is kept.
MergeComplete(source, target) ==
    IF \E l \in TimeZoneFields : source[l] = "same" THEN target
    ELSE [l \in Leaves |-> IF source[l] = "same" THEN target[l] ELSE source[l]]

\* JsonHelpers::Merge: each leaf of the source replaces the target's.
Merge(source, target) ==
    [l \in Leaves |-> IF source[l] = "same" THEN target[l] ELSE source[l]]

\* The merge comes before the check of the version.
InvokeTime(kind, detailed, source) ==
    /\ Invoke(kind, "ntpServer")
    /\ timeCache' = Merge(source, timeCache)
    /\ timeChange' = [kind |-> kind, detailed |-> detailed]
    /\ UNCHANGED timeDevice

CloudChanges ==
    \E c \in TimeChanges :
       /\ timeDesired' = Changed(timeDesired, c)
       /\ InvokeTime(c.kind, c.detailed, c.leaves)
       /\ UNCHANGED forgotten

\* The complete section does not mention a leaf that was removed.
Reconnects ==
    /\ timeDesired # [l \in Leaves |-> Absent]
    /\ InvokeTime("good", timeChange.detailed,
                  [l \in Leaves |-> IF timeDesired[l] = Absent THEN "same" ELSE timeDesired[l]])
    /\ forgotten' = FALSE
    /\ UNCHANGED timeDesired

SetSubGroupNtpServer ==
    /\ At("ntpServer")
    /\ \/ /\ timeDevice' = IF timeCache["ntpServer"] = Absent THEN timeDevice
                           ELSE [timeDevice EXCEPT !["ntpServer"] = timeCache["ntpServer"]]
          /\ Go("timeZone")
       \/ /\ timeCache["ntpServer"] # Absent
          /\ FailTo("timeZone")
          /\ UNCHANGED timeDevice
    /\ UNCHANGED <<timeDesired, timeCache, timeChange, forgotten>>

Present == {l \in TimeZoneFields : timeCache[l] # Absent}

\* DaylightDate is parsed from the standard date.
TimeZone(l) == timeCache[IF l = DaylightDate THEN StandardDate ELSE l]

SetSubGroupTimeZone ==
    /\ At("timeZone")
    /\ \/ Present = {} /\ Go("report") /\ UNCHANGED timeDevice
       \/ Present \notin {{}, TimeZoneFields} /\ Throw("report") /\ UNCHANGED timeDevice
       \/ /\ Present = TimeZoneFields
          /\ timeDevice' = [l \in Leaves |-> IF l \in TimeZoneFields THEN TimeZone(l)
                                             ELSE timeDevice[l]]
          /\ Go("report")
       \/ Present = TimeZoneFields /\ FailTo("report") /\ UNCHANGED timeDevice
    /\ UNCHANGED <<timeDesired, timeCache, timeChange, forgotten>>

\* BuildReported reads both back, each in an operation; EmptyReported does not.
ReportTime ==
    /\ At("report")
    /\ \/ Leave(FALSE) /\ UNCHANGED spent
       \/ timeChange.detailed /\ Leave(TRUE) /\ Fault
    /\ UNCHANGED timeVars

\* Also when the agent stops the unused process.
TimeHostEnds ==
    /\ HostEnds
    /\ timeCache' = [l \in Leaves |-> Absent]
    /\ forgotten' = TRUE
    /\ UNCHANGED <<timeDesired, timeChange, timeDevice>>

TimeStep ==
    \/ CloudChanges \/ Reconnects
    \/ SetSubGroupNtpServer \/ SetSubGroupTimeZone \/ ReportTime
    \/ FinalizeAndReport /\ UNCHANGED timeVars
    \/ TimeHostEnds

(***************************************************************************)
(* While the handler's memory is not lost, success means that all the IoT  *)
(* Hub asks for is set - the leaves of this change and of every earlier    *)
(* one, failed or refused ones too - except the daylight date, which is    *)
(* set to the standard date.  (JsonHelpers::Merge, SetSubGroup...)         *)
(***************************************************************************)
TimeApplied ==
    (Applied /\ timeChange.kind = "good" /\ ~forgotten) =>
       \A l \in Leaves \ {DaylightDate} :
          timeDesired[l] # Absent => timeDevice[l] = timeDesired[l]

=============================================================================
