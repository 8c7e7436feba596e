-------------------------------- MODULE Wire --------------------------------
(***************************************************************************)
(* The transcript of an agent run, what each provider is sent of it, and   *)
(* what is read from its answer:                                           *)
(*                                                                         *)
(*   src/src/server/ai/provider.ts     the three providers                 *)
(*                                                                         *)
(* A message is its role and the calls in it: those an assistant message   *)
(* asks for, the one a tool message answers.  A turn of the wire format is *)
(* its role, whether its content is a plain string, and the calls that its *)
(* tool_use, tool_result or tool_calls hold.  Texts are not modelled.      *)
(***************************************************************************)
EXTENDS Naturals, Sequences, SequencesExt

UserMessage == [role |-> "user", calls |-> << >>]
AssistantMessage(calls) == [role |-> "assistant", calls |-> calls]
ToolMessage(call) == [role |-> "tool", calls |-> <<call>>]

\* Mutant of ResultTurn: every tool result is a turn of its own.
ResultTurnAlone(turns, m) ==
  Append(turns, [role |-> "user", plain |-> FALSE, calls |-> m.calls])

\* A tool result rides in the turn before it when that turn already holds tool
\* results: consecutive ones merge into one user turn.
ResultTurn(turns, m) ==
  LET last == Len(turns) IN
  IF last > 0 /\ turns[last].role = "user" /\ ~ turns[last].plain
    THEN [turns EXCEPT ![last].calls = @ \o m.calls]
    ELSE Append(turns, [role |-> "user", plain |-> FALSE, calls |-> m.calls])

AddMessage(turns, m) ==
  IF m.role = "tool"
    THEN ResultTurn(turns, m)
    ELSE Append(turns, [role |-> m.role, plain |-> m.role = "user", calls |-> m.calls])

ToAnthropicMessages(messages) == FoldLeft(AddMessage, << >>, messages)

\* OpenAI has a turn for each message, and the calls of a turn beside its text.
ToOpenAiMessages(messages) ==
  [i \in DOMAIN messages |-> [role  |-> messages[i].role,
                              plain |-> TRUE,
                              calls |-> messages[i].calls]]

\* Gemini is sent the texts under the roles they have in the transcript, and
\* nothing else.
ToGoogleContents(messages) ==
  [i \in DOMAIN messages |-> [role |-> messages[i].role, plain |-> TRUE, calls |-> << >>]]

\* An answer is a sequence of texts and calls.  Anthropic's content holds both,
\* and only the tool_use blocks are calls; an OpenAI message lists them by
\* themselves; Gemini's calls are not looked for.
AnthropicCalls(content) == SelectSeq(content, LAMBDA block : block # "text")
OpenAiCalls(message) == message.toolCalls

=============================================================================
