---------------------------- MODULE MCTaskLogger ----------------------------
(* Small instances of TaskLogger: one of the samples may be reused. *)
EXTENDS TaskLogger
CONSTANTS s1, s2, s3, s4, s5

MCSamples == {s1, s2, s3, s4, s5}
MCReused == {s5}
=============================================================================
