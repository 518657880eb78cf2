------------------------------ MODULE MCUwpBridge ------------------------------
(***************************************************************************)
(* A small instance of UwpBridge: three handles are enough to tell the new *)
(* client of a renewal from the one before it, and two apps to have two    *)
(* scope ids set at the same time.                                         *)
(***************************************************************************)
EXTENDS UwpBridge, TLC

\* Handles are interchangeable, and so are apps.
Symmetry == Permutations(Handles) \cup Permutations(Apps)

\* Bound: two calls are under way together only while both set scope ids, of a
\* service that is running.
SettersTogether ==
    LET calling == {a \in Apps : callPc[a] # "idle"}
    IN  Cardinality(calling) > 1 =>
            status = "RUNNING" /\ \A a \in calling : callOf[a] = "dps"
=============================================================================
