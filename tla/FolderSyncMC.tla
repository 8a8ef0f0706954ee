---------------------------- MODULE FolderSyncMC ----------------------------
(* The instances of FolderSync that TLC checks. *)
EXTENDS FolderSync
=============================================================================
