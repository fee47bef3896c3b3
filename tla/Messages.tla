------------------------------ MODULE Messages ------------------------------
(***************************************************************************)
(* Lists of chat messages, and what trims, compacts and clears them:       *)
(* trim_messages() of model/_trim.py, the compaction strategies of         *)
(* model/_compaction/, and _remove_submit_tool() of agent/_react.py.       *)
(*                                                                         *)
(* Of a message its role, its place of origin, and the tool calls that it  *)
(* makes or answers are kept; its content is not.                          *)
(***************************************************************************)
EXTENDS Integers, Sequences, FiniteSets, SequencesExt

(* A tool call: its id and the name of the function *)
Call(id, function) == [id |-> id, function |-> function]
NoCall == Call(0, "")

(* An edited copy of a message gets a new id, which differs from all that  *)
(* others know it by: -id.  The origin is "input" for the messages of the  *)
(* sample's input, "summary" and "warning" for those of a compaction.      *)
Message(id, role) == [id |-> id, role |-> role, origin |-> "run", calls |-> <<>>, call |-> NoCall]
System(id) == Message(id, "system")
User(id) == Message(id, "user")
Input(id) == [User(id) EXCEPT !.origin = "input"]
Assistant(id, calls) == [Message(id, "assistant") EXCEPT !.calls = calls]
Tool(id, call) == [Message(id, "tool") EXCEPT !.call = call]
Summary(id) == [User(id) EXCEPT !.origin = "summary"]
Warning(id) == [User(id) EXCEPT !.origin = "warning"] \* memory_warning_message()

Ids(messages) == {messages[i].id : i \in DOMAIN messages}

(* The elements of a sequence at some indices, in order: taken[n] are those *)
(* of the first n.                                                         *)
At(seq, I) ==
  LET taken[n \in 0..Len(seq)] ==
        IF n = 0 THEN <<>>
        ELSE IF n \in I THEN Append(taken[n - 1], seq[n]) ELSE taken[n - 1]
  IN taken[Len(seq)]

-----------------------------------------------------------------------------
(* partition_messages() *)

SystemIndices(messages) == {i \in DOMAIN messages : messages[i].role = "system"}
SystemOf(messages) == At(messages, SystemIndices(messages))
Others(messages) == At(messages, DOMAIN messages \ SystemIndices(messages))

(* The messages of the input, else those up to the first of a user *)
InputIndices(others) ==
  LET input == {i \in DOMAIN others : others[i].origin = "input"}
      users == {i \in DOMAIN others : others[i].role = "user"}
  IN IF input # {} THEN input ELSE {i \in DOMAIN others : \A u \in users : i <= u}

InputOf(messages) == LET others == Others(messages) IN At(others, InputIndices(others))

ConversationOf(messages) ==
  LET others == Others(messages) IN At(others, DOMAIN others \ InputIndices(others))

-----------------------------------------------------------------------------
(* trim_messages() *)

HasParent_Any(conversation, i) == TRUE \* mutant: tool messages are kept as they are

(* The last message of an assistant, with none of a user since, made the   *)
(* call that tool message i answers.                                       *)
HasParent(conversation, i) ==
  \E j \in 1..i - 1 :
    /\ conversation[j].role = "assistant"
    /\ \E n \in DOMAIN conversation[j].calls : conversation[j].calls[n].id = conversation[i].call.id
    /\ \A k \in j + 1..i - 1 : conversation[k].role = "tool"

WithoutOrphans(conversation) ==
  At(conversation, {i \in DOMAIN conversation :
                      conversation[i].role = "tool" => HasParent(conversation, i)})

Answered(messages) == {messages[i].call.id : i \in {j \in DOMAIN messages : messages[j].role = "tool"}}

OnlyAnswered_All(messages) == messages \* mutant: calls without a result are kept

(* (TLC evaluates a concatenation at once, and a function each time that it *)
(* is applied.)                                                            *)
OnlyAnswered(messages) ==
  LET answered == Answered(messages)
  IN <<>> \o [i \in DOMAIN messages |->
                [messages[i] EXCEPT !.calls = At(@, {n \in DOMAIN @ : @[n].id \in answered})]]

NotEndingInAssistant(conversation) ==
  IF conversation # <<>> /\ Last(conversation).role = "assistant"
  THEN Front(conversation) ELSE conversation

(* The oldest of the conversation are dropped: so many tenths of it, that  *)
(* is 10 * (1 - preserve), rounded down.  In floating point 1 - 0.9 and    *)
(* 1 - 0.8, the default of CompactionTrim, are less than 0.1 and 0.2, and  *)
(* what should be a whole number becomes the one below it.  (With 0.3 this *)
(* happens, too, but only from 90 messages on.)                            *)
Dropped(tenths, length) ==
  IF tenths \in {1, 2} /\ length > 0
  THEN (tenths * length - 1) \div 10
  ELSE (tenths * length) \div 10

Trim(messages, tenths) ==
  LET conversation == ConversationOf(messages)
      start == Dropped(tenths, Len(conversation))
      preserved == SubSeq(conversation, start + 1, Len(conversation))
  IN SystemOf(messages) \o InputOf(messages)
       \o NotEndingInAssistant(OnlyAnswered(WithoutOrphans(preserved)))

-----------------------------------------------------------------------------
(* clear_memory_content(), and CompactionEdit.compact(): the thinking, and  *)
(* the results of all but the last few calls                               *)

Edited(message) == [message EXCEPT !.id = IF @ > 0 THEN -@ ELSE @]

EditAt(messages, I) ==
  <<>> \o [i \in DOMAIN messages |-> IF i \in I THEN Edited(messages[i]) ELSE messages[i]]

(* The name of the memory tool; its calls are those that save something.   *)
Memory == "memory"

(* "(content saved to memory)" *)
ClearMemory(messages) ==
  EditAt(messages, {i \in DOMAIN messages :
                      \E call \in ToSet(messages[i].calls) : call.function = Memory})

(* What _clear_reasoning() may rewrite, with keep_thinking_turns=1         *)
EarlierTurns(messages) ==
  LET assistants == {i \in DOMAIN messages : messages[i].role = "assistant"}
  IN {i \in assistants : \E j \in assistants : j > i}

(* The tool messages that answer a call before them: _find_tool_message()  *)
Results(messages) ==
  {i \in DOMAIN messages :
     /\ messages[i].role = "tool"
     /\ \E j \in 1..i - 1 :
          /\ \E n \in DOMAIN messages[j].calls : messages[j].calls[n].id = messages[i].call.id
          /\ \A k \in j + 1..i - 1 : messages[k].call.id # messages[i].call.id}

ToClear(messages, keep) ==
  {i \in Results(messages) : Cardinality({j \in Results(messages) : j > i}) >= keep}

(* "(Tool result removed)" *)
ClearResults(messages, keep) == EditAt(messages, ToClear(messages, keep))

RemoveCalls_Kept(messages, calls) == messages \* mutant: the calls stay

(* The calls are replaced by a text. *)
RemoveCalls(messages, calls) ==
  [i \in DOMAIN messages |->
     IF ToSet(messages[i].calls) \cap calls = {} THEN messages[i]
     ELSE [Edited(messages[i]) EXCEPT !.calls = At(@, {n \in DOMAIN @ : @[n] \notin calls})]]

ClearCalls(messages, keep) ==
  LET clear == ToClear(messages, keep)
  IN RemoveCalls(At(messages, DOMAIN messages \ clear), {messages[i].call : i \in clear})

-----------------------------------------------------------------------------
(* CompactionSummary.compact() *)

Summarize(messages, id) == SystemOf(messages) \o InputOf(messages) \o <<Summary(id)>>

-----------------------------------------------------------------------------
(* _remove_submit_tool() *)

NoSubmission(messages, submit) ==
  At(messages, {i \in DOMAIN messages : messages[i].call.function # submit})

RemoveSubmit_Results(messages, submit) == NoSubmission(messages, submit) \* mutant: the calls are left

RemoveSubmit_Whole(messages, submit) == \* mutant: with all that the model said or called there
  At(messages, {i \in DOMAIN messages :
    /\ messages[i].call.function # submit
    /\ \A call \in ToSet(messages[i].calls) : call.function # submit})

RemoveSubmit(messages, submit) ==
  LET filtered == NoSubmission(messages, submit)
  IN [i \in DOMAIN filtered |->
        [filtered[i] EXCEPT !.calls = At(@, {n \in DOMAIN @ : @[n].function # submit})]]

-----------------------------------------------------------------------------
(* What "many model apis require": each tool message answers a call that   *)
(* an assistant made before it, and each call has one answer.  (It cannot  *)
(* ask that no user speaks in between, as trim_messages() does: the result *)
(* of a parallel call comes after the last word of a handoff's user.)      *)
Valid(messages) ==
  /\ \A i \in DOMAIN messages :
       messages[i].role = "tool" =>
         \E j \in 1..i - 1 : messages[i].call \in ToSet(messages[j].calls)
  /\ \A i \in DOMAIN messages : \A call \in ToSet(messages[i].calls) :
       Cardinality({j \in DOMAIN messages : messages[j].call = call}) = 1
=============================================================================
