----------------------------- MODULE ReactAgent -----------------------------
(***************************************************************************)
(* The loop of the react() agent, agent/_react.py: the model is called     *)
(* with the conversation, or with the compacted input that stands for it   *)
(* (model/_compaction/_compaction.py); the tools that it calls are run one *)
(* after another (execute_tools() of model/_call_tools.py); a conversation *)
(* that exceeds the context window is trimmed; and the agent ends when the *)
(* model submits an answer or, without a submit tool, calls no more tools. *)
(*                                                                         *)
(* Token counts are not kept: any input may exceed the threshold of the    *)
(* compaction or the context window.                                       *)
(***************************************************************************)
EXTENDS Messages

CONSTANTS
  Settings,     \* the arguments of react(), see Setting
  Turns,        \* what a model may call in one message: sequences of functions
  KeepToolUses, \* keep_tool_uses of CompactionEdit
  TrimTenths,   \* what CompactionTrim drops of a conversation: 10 * (1 - preserve)
  Thinking,     \* ids: the messages whose content is a list, where thinking may be
  MaxTurns      \* how many messages of the model a limit allows

Submit == "submit"
Transfer == "transfer" \* a handoff to another agent

Setting ==
  [submit: {"removed", "kept", "off"}, attempts: Nat, hook: BOOLEAN,
   truncation: {"auto", "disabled"},
   strategy: {"none", "trim", "edit", "edit_calls", "summary"}, memory: BOOLEAN,
   handed_off: BOOLEAN]

ASSUME ReactAssumption ==
  /\ Settings \subseteq Setting
  /\ \A s \in Settings : s.attempts > 0
  /\ \A t \in Turns : t \in Seq(STRING)
  /\ KeepToolUses \in Nat /\ MaxTurns \in Nat /\ TrimTenths \in 0..10

VARIABLES
  setting,   \* the arguments of this agent
  pc,        \* where the loop is
  messages,  \* state.messages
  prefix,    \* the messages at the start, which compaction preserves
  compacted, \* compacted_input
  processed, \* processed_message_ids
  warned,    \* memory_warning_issued
  input,     \* what the model was given last
  called,    \* does state.output.message have tool calls?
  attempts,  \* attempt_count
  turns,     \* messages of the model that did not overflow
  last_id,   \* the largest id so far
  settled    \* how many messages the last compaction or truncation has seen

compactVars == <<compacted, processed, warned, input>>
vars == <<setting, pc, messages, prefix, compactVars, called, attempts, turns, last_id, settled>>

Over == {"done", "raised"}

TypeOK ==
  /\ setting \in Settings
  /\ pc \in {"input", "model", "overflow", "tools", "submitted", "continue"} \cup Over
  /\ \A list \in {messages, prefix, compacted, input} :
       \A i \in DOMAIN list : list[i].id \in -last_id..last_id + 1
  /\ called \in BOOLEAN /\ warned \in BOOLEAN /\ settled \in Nat
  /\ attempts \in 0..setting.attempts /\ turns \in 0..MaxTurns

(* The system message and the input; or, of an agent that was handed off   *)
(* to, the conversation so far (the other agent saved something to memory) *)
(* with the call that did.                                                 *)
HandedOff ==
  <<Input(2), Assistant(3, <<Call(3, Memory)>>), Tool(4, Call(3, Memory)),
    Assistant(5, <<Call(5, Transfer)>>), Tool(6, Call(5, Transfer))>>

Init ==
  /\ setting \in Settings
  /\ prefix = <<System(1)>> \o IF setting.handed_off THEN HandedOff ELSE <<Input(2)>>
  /\ messages = prefix /\ last_id = Len(prefix)
  /\ pc = "input"
  /\ compacted = <<>> /\ processed = {} /\ warned = FALSE /\ input = <<>>
  /\ called = FALSE
  /\ attempts = 0 /\ turns = 0 /\ settled = 0

-----------------------------------------------------------------------------
(* compact_fn() *)

Unprocessed_All == messages \* mutant: messages already in the input are added again

Unprocessed == At(messages, {i \in DOMAIN messages : messages[i].id \notin processed})

Preserved_Lost(c) == c \* mutant: the prefix may be compacted away

Preserved(c) == At(prefix, {i \in DOMAIN prefix : prefix[i].id \notin Ids(c)}) \o c

(* What a strategy with memory leaves of some lists *)
Remembered(lists) == IF setting.memory THEN {ClearMemory(m) : m \in lists} ELSE lists

Trimmed(lists) == Remembered({Trim(m, TrimTenths) : m \in lists})

(* The thinking is cleared from earlier turns.  (In an edited copy there is *)
(* none left; that the code copies it again makes no difference.)          *)
Unthought(m) == EditAt(m, {i \in EarlierTurns(m) : m[i].id \in Thinking})

(* What may be left: a strategy is applied up to four times, which makes a *)
(* difference to trimming only.                                            *)
Compactions(target) ==
  CASE setting.strategy = "edit" ->
         Remembered({ClearResults(Unthought(target), KeepToolUses)})
    [] setting.strategy = "edit_calls" ->
         Remembered({ClearCalls(Unthought(target), KeepToolUses)})
    [] setting.strategy = "summary" -> {Summarize(target, last_id + 1)}
    [] setting.strategy = "trim" ->
         LET once == Trimmed({target})
             twice == Trimmed(once)
         IN once \cup twice \cup Trimmed(twice) \cup Trimmed(Trimmed(twice))

NoCompaction ==
  /\ pc = "input" /\ pc' = "model"
  /\ setting.strategy = "none"
  /\ input' = messages
  /\ UNCHANGED <<setting, messages, prefix, compacted, processed, warned, called, attempts, turns,
                 last_id, settled>>

(* Close to the threshold the model is warned, once, to save what it needs *)
(* to memory; the history does not get the warning.                        *)
BelowThreshold ==
  /\ pc = "input" /\ pc' = "model"
  /\ setting.strategy # "none"
  /\ \/ /\ compacted' = compacted \o Unprocessed
        /\ processed' = processed \cup Ids(messages)
        /\ UNCHANGED <<warned, last_id>>
     \/ /\ setting.memory /\ ~warned /\ warned' = TRUE
        /\ compacted' = Append(compacted \o Unprocessed, Warning(last_id + 1))
        /\ processed' = processed \cup Ids(messages) \cup {last_id + 1}
        /\ last_id' = last_id + 1
  /\ input' = compacted'
  /\ UNCHANGED <<setting, messages, prefix, called, attempts, turns, settled>>

(* A summary is appended to the history, too. *)
Compact ==
  /\ pc = "input" /\ pc' = "model"
  /\ setting.strategy # "none"
  /\ \E c \in Compactions(compacted \o Unprocessed) : compacted' = Preserved(c)
  /\ input' = compacted'
  /\ IF setting.strategy = "summary"
     THEN /\ messages' = Append(messages, Summary(last_id + 1))
          /\ last_id' = last_id + 1
     ELSE UNCHANGED <<messages, last_id>>
  /\ processed' = processed \cup Ids(compacted) \cup Ids(messages')
  /\ warned' = FALSE
  /\ settled' = Len(messages')
  /\ UNCHANGED <<setting, prefix, called, attempts, turns>>

-----------------------------------------------------------------------------
(* The loop: End(m) leaves it with the messages m. *)

End(m) ==
  /\ pc' = "done"
  /\ messages' = IF setting.submit = "removed" THEN RemoveSubmit(m, Submit) ELSE m

(* The model answers.  (A refusal that is retried changes nothing; another *)
(* is an answer without calls.)                                            *)
Generate ==
  /\ pc = "model" /\ turns < MaxTurns
  /\ \E turn \in Turns :
       /\ setting.submit = "off" => Submit \notin ToSet(turn)
       /\ messages' = Append(messages,
                        Assistant(last_id + 1, [n \in DOMAIN turn |-> Call(last_id + n, turn[n])]))
       /\ last_id' = last_id + 1 + Len(turn)
       /\ called' = (turn # <<>>)
  /\ pc' = IF called' THEN "tools" ELSE "continue"
  /\ turns' = turns + 1
  /\ UNCHANGED <<setting, prefix, compactVars, attempts, settled>>

(* stop_reason "model_length"; the message is the last one, or is dropped. *)
GenerateOverflows ==
  /\ pc = "model" /\ pc' = "overflow"
  /\ messages' = Append(messages, Assistant(last_id + 1, <<>>))
  /\ called' = FALSE
  /\ UNCHANGED <<setting, prefix, compactVars, attempts, turns, last_id, settled>>

(* trim_messages(), with its default preserve=0.7 *)
Truncated(m) == Trim(m, 3)

Reduced_Equal(after, before) == Len(after) <= Len(before) \* mutant: off by one

Reduced(after, before) == Len(after) < Len(before)

HandleOverflow ==
  /\ pc = "overflow"
  /\ IF setting.truncation = "disabled" THEN End(messages)
     ELSE LET before == Front(messages)
              after == Truncated(before)
          IN IF Reduced(after, before) THEN messages' = after /\ pc' = "input" ELSE End(after)
  /\ settled' = Len(messages')
  /\ UNCHANGED <<setting, prefix, compactVars, called, attempts, turns, last_id>>

(* The answer to a call: the result, or the error of a tool that failed,   *)
(* was not approved, does not exist or was cancelled by the operator.  A   *)
(* handoff adds what the other agent said, and a user has the last word:   *)
(* content_only(), the default output_filter, leaves no calls in it.       *)
Answer_Lost(results, call) == \* mutant: a handoff has no result of its own
  IF call.function = Transfer
  THEN results \o <<Assistant(last_id + Len(results) + 1, <<>>), User(last_id + Len(results) + 2)>>
  ELSE Append(results, Tool(last_id + Len(results) + 1, call))

Answer(results, call) ==
  LET id == last_id + Len(results) + 1
  IN Append(results, Tool(id, call))
       \o IF call.function = Transfer THEN <<Assistant(id + 1, <<>>), User(id + 2)>> ELSE <<>>

Answers(calls) ==
  LET results[n \in 0..Len(calls)] ==
        IF n = 0 THEN <<>> ELSE Answer(results[n - 1], calls[n])
  IN results[Len(calls)]

(* execute_tools(): a submission counts if one of its calls is no error,   *)
(* and the output of the agent that was handed off to becomes the output.  *)
ExecuteTools ==
  /\ pc = "tools"
  /\ LET calls == Last(messages).calls
         results == Answers(calls)
         functions == {call.function : call \in ToSet(calls)}
     IN /\ messages' = messages \o results
        /\ last_id' = last_id + Len(results)
        /\ pc' \in {"continue"} \cup (IF Submit \in functions THEN {"submitted"} ELSE {})
        /\ called' \in {TRUE} \cup (IF Transfer \in functions THEN {FALSE} ELSE {})
  /\ UNCHANGED <<setting, prefix, compactVars, attempts, turns, settled>>

(* The last attempt, or a successful one *)
SubmitEnds ==
  /\ pc = "submitted"
  /\ attempts' = attempts + 1
  /\ End(messages)
  /\ UNCHANGED <<setting, prefix, compactVars, called, turns, last_id, settled>>

SayUser == messages' = Append(messages, User(last_id + 1)) /\ last_id' = last_id + 1

SubmitIncorrect ==
  /\ pc = "submitted" /\ pc' = "continue"
  /\ attempts' = attempts + 1 /\ attempts' < setting.attempts
  /\ SayUser
  /\ UNCHANGED <<setting, prefix, compactVars, called, turns, settled>>

(* The model is urged on if it calls no tools, or when the hook says so. *)
Continue ==
  /\ pc = "continue" /\ pc' = "input"
  /\ \/ called /\ UNCHANGED <<messages, last_id>>
     \/ (IF setting.hook THEN TRUE ELSE ~called /\ setting.submit # "off") /\ SayUser
  /\ UNCHANGED <<setting, prefix, compactVars, called, attempts, turns, settled>>

(* The hook says no; or there is neither hook nor submit tool. *)
Stop ==
  /\ pc = "continue"
  /\ setting.hook \/ (setting.submit = "off" /\ ~called)
  /\ End(messages)
  /\ UNCHANGED <<setting, prefix, compactVars, called, attempts, turns, last_id, settled>>

(* A limit, a compaction that is insufficient, or another exception *)
Raise ==
  /\ pc \notin Over /\ pc' = "raised"
  /\ UNCHANGED <<setting, messages, prefix, compactVars, called, attempts, turns, last_id,
                 settled>>

-----------------------------------------------------------------------------
ModelInput == NoCompaction \/ BelowThreshold \/ Compact

(* (TLC tries Raise first, which makes it quick to see that Next is enabled.) *)
Next ==
  \/ Raise
  \/ ModelInput
  \/ Generate \/ GenerateOverflows \/ HandleOverflow
  \/ ExecuteTools \/ SubmitEnds \/ SubmitIncorrect
  \/ Continue \/ Stop

Spec == Init /\ [][Next]_vars

(* The model answers, tools end, and a limit stops an agent that goes on.  *)
FairSpec == Spec /\ WF_vars(Next)

-----------------------------------------------------------------------------
(* Properties *)

Copies(list, m) == {i \in DOMAIN list : list[i].id \in {m.id, -m.id}}

Unwarned(list) == At(list, {i \in DOMAIN list : list[i].origin # "warning"})

(* An edited copy of one of the messages at the start has another id, and  *)
(* Preserved puts the message itself in front once more.  There is one to  *)
(* edit only in what was handed off.                                       *)
PrefixEdited ==
  /\ setting.handed_off
  /\ setting.strategy \in {"edit", "edit_calls"} \/ (setting.strategy = "trim" /\ setting.memory)

(* What the model is given, however often it was compacted, edited, warned *)
(* and extended before: compacted, it still holds the messages at the      *)
(* start, and ends, but for warnings, with all that has come since, in     *)
(* order.  Unless a message at the start was edited, it holds these once   *)
(* each, and is a conversation that the model's API accepts: each tool     *)
(* call has its result after it.                                           *)
InputValid ==
  pc = "model" =>
    /\ setting.strategy # "none" =>
         /\ Ids(prefix) \subseteq Ids(input)
         /\ IsSuffix(SubSeq(messages, settled + 1, Len(messages)), Unwarned(input))
    /\ ~PrefixEdited =>
         /\ Valid(input)
         /\ setting.strategy # "none" => \A m \in ToSet(prefix) : Cardinality(Copies(input, m)) = 1

(* "the core history with all messages is still retained by agents when    *)
(* using compaction": only a truncation, and the removal of the submit     *)
(* calls at the end, take messages away.                                   *)
HistoryRetained ==
  [][ \/ IsPrefix(messages, messages')
      \/ setting.truncation = "auto" /\ pc = "overflow"
      \/ /\ pc' = "done"
         /\ \A m \in ToSet(messages) : m.id \in Ids(messages') \/ m.call.function = Submit]_vars

(* The history of an agent that ends by itself is valid, too, and where    *)
(* submissions are to be removed it has nothing that a parent agent could  *)
(* take for a submission of its own: neither calls of the submit tool nor  *)
(* their results.                                                          *)
FinalHistory ==
  /\ TypeOK
  /\ pc = "done" =>
    /\ Valid(messages)
    /\ setting.submit = "removed" =>
         \A m \in ToSet(messages) :
           m.call.function # Submit /\ \A call \in ToSet(m.calls) : call.function # Submit

(* An agent ends: truncation does not go on for ever when the conversation *)
(* is too long for the model whatever is left of it.                       *)
AgentEnds == <>(pc \in Over)
=============================================================================
