---------------------------- MODULE MCTwinDispatch ----------------------------
(***************************************************************************)
(* One built-in handler and two plugin handlers; the manifests name a      *)
(* dependency against the map's order, or a cycle.                         *)
(***************************************************************************)
EXTENDS TwinDispatch

CONSTANTS clear, app, time

InTheMap == <<app, clear, time>>
NoDeps == [h \in {app, clear, time} |-> {}]
Manifests == {[NoDeps EXCEPT ![app] = {time}],
              [NoDeps EXCEPT ![app] = {time}, ![time] = {app}]}

\* Everything, everything with one section not an object, one section alone.
CloudUpdates ==
    {[keys |-> {app, clear, time}, objects |-> {app, clear, time}],
     [keys |-> {app, time}, objects |-> {app}],
     [keys |-> {time}, objects |-> {time}]}
=============================================================================
