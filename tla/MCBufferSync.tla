---------------------------- MODULE MCBufferSync ----------------------------
(* Small instances of BufferSync. *)
EXTENDS BufferSync
CONSTANTS A, B, e1, e2

MCSamples == {A, B}
MCEvents == {e1, e2}

(* One sample with two attachments; one that is retried; two samples, of   *)
(* which one flushes while the other ends                                  *)
MCSituations ==
  {[samples |-> {A}, hashes |-> {1, 2}, rows |-> 2, retries |-> 0],
   [samples |-> {A}, hashes |-> {1}, rows |-> 2, retries |-> 1],
   [samples |-> {A, B}, hashes |-> {1}, rows |-> 1, retries |-> 0]}
=============================================================================
