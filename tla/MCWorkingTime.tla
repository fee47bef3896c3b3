---------------------------- MODULE MCWorkingTime ----------------------------
(* Two agents, one in a tool call, the other with limits of its own, and one connection. *)
EXTENDS WorkingTime
CONSTANTS a1, a2

MCAgents == {a1, a2}
MCScoped == {a2}
MCNested == {a1}
MCTokenLimit == [n \in Nodes |-> IF n = Sample THEN 2 ELSE 1]
=============================================================================
