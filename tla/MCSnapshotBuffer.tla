------------------------- MODULE MCSnapshotBuffer -------------------------
(* Small instances of SnapshotBuffer; the constants are in the .cfg. *)
EXTENDS SnapshotBuffer
=============================================================================
