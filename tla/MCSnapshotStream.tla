------------------------- MODULE MCSnapshotStream -------------------------
(* SnapshotStream on two publishers and two streams.                        *)
EXTENDS SnapshotStream

CONSTANTS p1, p2, s1, s2
=============================================================================
