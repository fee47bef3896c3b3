---------------------------- MODULE MCReactAgent ----------------------------
(* Agents with all kinds of settings, and a model that calls at most two   *)
(* tools at once.                                                          *)
EXTENDS ReactAgent

MCTurns == {<<>>, <<Memory, "bash">>, <<Transfer, "bash">>, <<"bash", Submit>>}

\* Not the call that saved something before a handoff, but the handoff itself.
MCThinking == {id \in 1..40 : id % 3 # 0}

Plain == [submit |-> "removed", attempts |-> 2, hook |-> FALSE, truncation |-> "auto",
          strategy |-> "none", memory |-> FALSE, handed_off |-> FALSE]

Compacting(strategy) == [Plain EXCEPT !.strategy = strategy, !.truncation = "disabled"]
HandedOffTo(s) == [s EXCEPT !.handed_off = TRUE]
WithMemory(s) == [s EXCEPT !.memory = TRUE]

MCSettings ==
  {Plain, HandedOffTo(Plain), [Plain EXCEPT !.strategy = "trim"]}
  \cup {[Plain EXCEPT !.submit = s, !.hook = TRUE] : s \in {"kept", "off"}}
  \cup {Compacting("summary")} \cup {WithMemory(Compacting(s)) : s \in {"trim", "edit", "edit_calls"}}
  \cup {HandedOffTo(Compacting(s)) : s \in {"trim", "edit", "edit_calls"}}
  \cup {HandedOffTo(WithMemory(Compacting("trim")))}
=============================================================================
