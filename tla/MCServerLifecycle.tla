------------------------- MODULE MCServerLifecycle -------------------------
(* ServerLifecycle as TLC checks it; all its constants are plain values. *)
EXTENDS ServerLifecycle
=============================================================================
