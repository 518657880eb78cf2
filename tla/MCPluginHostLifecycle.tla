------------------------ MODULE MCPluginHostLifecycle ------------------------
(***************************************************************************)
(* Small instances of PluginHostLifecycle: two agent threads, c1 and c2,   *)
(* as model values.  The cfg files choose what may go wrong; in an         *)
(* undisturbed behaviour, which Init may choose, the host does not crash,  *)
(* is not unloaded and outlives Load, and operations have to end.          *)
(***************************************************************************)
EXTENDS PluginHostLifecycle

VARIABLE undisturbed

MCInit == Init /\ undisturbed \in BOOLEAN

Disturbance ==
    \/ HostCrashes
    \/ \E c \in Callers : Unload(c)
    \/ stage = "loading" /\ MonitorTimesOut

MCNext ==
    /\ Next
    /\ undisturbed => ~Disturbance
    /\ UNCHANGED undisturbed

MCSpec == MCInit /\ [][MCNext]_<<vars, undisturbed>> /\ Fairness

(***************************************************************************)
(* Every invocation that has entered the transport returns or throws as    *)
(* long as the host neither crashes nor is unloaded: whatever launches     *)
(* fail, whenever the keep-alive time runs out, and however monitor and    *)
(* callers meet at _mutex and at each other's joins.                       *)
(***************************************************************************)
UndisturbedOperationsEnd == undisturbed => OperationsEnd
=============================================================================
