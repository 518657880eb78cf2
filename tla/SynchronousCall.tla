--------------------------- MODULE SynchronousCall ---------------------------
(***************************************************************************)
(* What SendAndGetResponse promises its callers: a procedure call.  The    *)
(* agent has at most one call in progress; the host's request processor    *)
(* calls back only while it runs an agent's call, and that call is not     *)
(* answered until the callback has returned.                               *)
(***************************************************************************)
CONSTANTS AgentCallers, HostCallers, HostRP

Callers == AgentCallers \cup HostCallers \cup {HostRP}

VARIABLE phase

Init == phase = [t \in Callers |-> "idle"]

MayAsk(t) ==
    /\ t \in AgentCallers => \A u \in AgentCallers : phase[u] = "idle"
    /\ t = HostRP => \E u \in AgentCallers : phase[u] = "running"

Ask(t) ==
    /\ phase[t] = "idle"
    /\ MayAsk(t)
    /\ phase' = [phase EXCEPT ![t] = "asked"]

\* One processor on each side: one call runs at a time in each direction.
Run(t) ==
    /\ phase[t] = "asked"
    /\ \A u \in Callers : (u \in AgentCallers <=> t \in AgentCallers) => phase[u] # "running"
    /\ phase' = [phase EXCEPT ![t] = "running"]

Answer(t) ==
    /\ phase[t] = "running"
    /\ t \in AgentCallers => phase[HostRP] = "idle"
    /\ phase' = [phase EXCEPT ![t] = "answered"]

Return(t) ==
    /\ phase[t] = "answered"
    /\ phase' = [phase EXCEPT ![t] = "idle"]

Next == \E t \in Callers : Ask(t) \/ Run(t) \/ Answer(t) \/ Return(t)

Spec == Init /\ [][Next]_phase
=============================================================================
