----------------------------- MODULE MCSyncLate -----------------------------
(***************************************************************************)
(* The instances of MCSync with the history variable of SyncLate.          *)
(***************************************************************************)
EXTENDS MCSync, SyncLate
=============================================================================
