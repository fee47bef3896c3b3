--------------------------- MODULE MCSandboxService ---------------------------
(* Two calls of one service; liveness is checked, hence no symmetry. *)
EXTENDS SandboxService
CONSTANTS c1, c2

MCCalls == {c1, c2}
MCMaxFailures == [c \in MCCalls |-> IF c = c1 THEN 2 ELSE 1]
=============================================================================
