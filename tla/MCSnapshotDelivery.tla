------------------------- MODULE MCSnapshotDelivery -------------------------
(* A small instance of SnapshotDelivery for TLC.                            *)
EXTENDS SnapshotDelivery
=============================================================================
