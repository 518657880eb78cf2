--------------------------- MODULE HandlerInvocation ---------------------------
(***************************************************************************)
(* The frame every handler's Invoke has: the whole of it runs in one       *)
(* RunOperation, which turns an exception into an entry of the error list; *)
(* a "refreshing" section is left alone, a section of another major        *)
(* version is refused, otherwise "refreshing" is reported and the section  *)
(* is applied; at the end the handler reports success exactly when the     *)
(* error list is empty.  The agent invokes a handler again only after it   *)
(* returned.  A handler's own module adds what applying its section does.  *)
(*                                                                         *)
(* What fails: one of the commands the handler gives (an MDM command, a    *)
(* download, a registry write, an installation), or its host process,      *)
(* which the agent starts again.                                           *)
(***************************************************************************)
EXTENDS Integers, FiniteSets, Sequences, SequencesExt

CONSTANTS
    MaxInvocations,   \* bound: invocations of the handler
    MaxFaults         \* bound: commands that fail and host processes that end

ASSUME InvocationBounds == MaxInvocations \in Nat /\ MaxFaults \in Nat

VARIABLES
    at,           \* where the invocation is
    step,         \* where the handler's own work is within "apply"
    errors,       \* the error list has an entry
    deployment,   \* the deployment status last reported
    spent         \* [invocations, faults] so far

frame == <<at, step, errors, deployment, spent>>

\* A section as the cloud sends it: text "refreshing", another major version,
\* or one that the handler applies.
SectionKinds == {"refreshing", "wrongVersion", "good"}

FrameInit ==
    /\ at = "idle"
    /\ step = "none"
    /\ errors = FALSE
    /\ deployment = "none"
    /\ spent = [invocations |-> 0, faults |-> 0]

FrameOK(steps) ==
    /\ at \in {"idle", "apply", "finalize", "terminated"}
    /\ step \in steps \cup {"none"}
    /\ errors \in BOOLEAN
    /\ deployment \in {"none", "pending", "succeeded", "failed"}
    /\ spent \in [invocations : 0 .. MaxInvocations, faults : 0 .. MaxFaults]

\* A call of the handler, up to the check of the version; the handler's work
\* begins at first.
Begin(kind, first) ==
    /\ at = "idle"
    /\ spent.invocations < MaxInvocations
    /\ spent' = [spent EXCEPT !.invocations = @ + 1]
    /\ errors' = (kind = "wrongVersion")
    /\ at' = IF kind = "good" THEN "apply" ELSE "finalize"
    /\ step' = IF kind = "good" THEN first ELSE "none"

\* Invoke with a section of the twin.
Invoke(kind, first) ==
    /\ Begin(kind, first)
    /\ deployment' = IF kind = "refreshing" THEN deployment ELSE "pending"

\* Control moves on within the handler's work.
At(here) == at = "apply" /\ step = here
Move(there) == step' = there /\ UNCHANGED <<at, deployment>>
Go(there) == Move(there) /\ UNCHANGED <<errors, spent>>

\* A DMException in a nested RunOperation: an error, and control moves on.
Throw(there) == Move(there) /\ errors' = TRUE /\ UNCHANGED spent

Fault ==
    /\ spent.faults < MaxFaults
    /\ spent' = [spent EXCEPT !.faults = @ + 1]

\* The same, because a command failed.
FailTo(there) == Fault /\ Move(there) /\ errors' = TRUE

\* The work ends; failed: an exception left it for the outer RunOperation.
Leave(failed) ==
    /\ at' = "finalize"
    /\ step' = "none"
    /\ errors' = (errors \/ failed)
    /\ UNCHANGED deployment

\* The call returns.
Return ==
    /\ at = "finalize"
    /\ at' = "idle"
    /\ UNCHANGED <<step, errors, spent>>

FinalizeAndReport ==
    /\ Return
    /\ deployment' = IF errors THEN "failed" ELSE "succeeded"

\* The host process ends, for any reason, and the next call starts it again.
HostEnds ==
    /\ Fault
    /\ at' = "idle"
    /\ step' = "none"
    /\ errors' = FALSE
    /\ UNCHANGED deployment

Applied == at = "idle" /\ deployment = "succeeded"

\* The members of S listed in the order they have in order: that one sequence.
InOrderOf(order, S) ==
    {q \in [1 .. Cardinality(S) -> S] :
       /\ S \subseteq Range(q)
       /\ \A i, j \in DOMAIN q : i < j =>
            \E k, l \in DOMAIN order : k < l /\ order[k] = q[i] /\ order[l] = q[j]}

=============================================================================
