---------------------------- MODULE MCCoreWindow ----------------------------
(* Small instances of CoreWindow: one fact table a rewind deletes before   *)
(* the processed blocks and one it deletes after them.                     *)
EXTENDS CoreWindow

Creates   == {"creates"}
Movements == {"movements"}
=============================================================================
