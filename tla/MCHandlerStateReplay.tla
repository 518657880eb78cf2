------------------------- MODULE MCHandlerStateReplay -------------------------
(***************************************************************************)
(* Small instances of HandlerStateReplay: one plugin with a few handlers,  *)
(* numbered in the order of the proxy's map.                               *)
(***************************************************************************)
EXTENDS HandlerStateReplay
=============================================================================
