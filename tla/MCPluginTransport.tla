-------------------------- MODULE MCPluginTransport --------------------------
(***************************************************************************)
(* Small instances of PluginTransport: agent threads a1, a2 and plugin     *)
(* threads h1, h2 as model values.                                         *)
(***************************************************************************)
EXTENDS PluginTransport, TLC

\* Agent threads are interchangeable.
Symmetry == Permutations(AgentCallers)
=============================================================================
