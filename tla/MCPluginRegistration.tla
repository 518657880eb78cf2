------------------------- MODULE MCPluginRegistration -------------------------
(***************************************************************************)
(* Small instances of PluginRegistration: two manifests, one handler of    *)
(* the agent's own, and every assignment of short dependency lists to the  *)
(* handlers that the plug-ins report.                                      *)
(***************************************************************************)
EXTENDS PluginRegistration
=============================================================================
