---------------------------- MODULE OpenAIStream ----------------------------
(***************************************************************************)
(* _OpenAIStream._consume: an answer comes in as chunks, the arguments of  *)
(* its tool calls in pieces that may interleave, and is put together       *)
(* again.  Beside it complete(), which gets the same answer in one         *)
(* document.                                                               *)
(*                                                                         *)
(* The provider picks an answer and streams it.  Abstracted: a piece of    *)
(* text or of JSON is its number (0 for text, the call for arguments) and  *)
(* place; arguments parse when all of their pieces are there, and a tool's *)
(* id and name are the number of its call.  A chunk holds one thing; chunks*)
(* without a choice or a delta are stutters.  The text has no <think>      *)
(* block: ThinkFilter treats those.                                        *)
(***************************************************************************)
EXTENDS Naturals, Sequences, SequencesExt

CONSTANTS Answers,      \* what the provider may answer
          Absent,       \* nothing sent yet
          None          \* null

\* Arguments come as JSON text in pieces or, with some gateways, as an object.
\* A gateway that does not number the calls leaves their index out.
Calls == [form : {"text", "object"}, size : Nat, numbered : BOOLEAN]
Counts == [input : Nat, output : Nat]
Reports == [prompt_tokens : Nat \cup {None}, completion_tokens : Nat \cup {None}]
Reasons == {"stop", "tool_calls", "length", "content_filter"}

IsAnswer(a) == /\ a.text \in Nat          \* pieces of text
               /\ a.calls \in Seq(Calls)
               /\ a.finish_reason \in Reasons
               /\ a.interim \subseteq Reports      \* usage on the way
               /\ a.total \in Reports \cup {None}  \* and at the end
               /\ a.total = None => a.interim = {}

ASSUME AnswersAssumption == /\ \A a \in Answers : IsAnswer(a)
                            /\ Absent \notin Nat /\ None \notin Nat /\ Absent # None

VARIABLES answer,       \* the provider's
          stage,        \* how far it has got with it
          said,         \* pieces of text sent
          sent,         \* pieces of each call sent; Absent before its id and name
          text,         \* _text
          tool_calls,   \* _tool_calls, the slots by index
          finish,       \* _finish_reason
          usage,        \* _usage
          drained       \* _drained
vars == <<answer, stage, said, sent, text, tool_calls, finish, usage, drained>>

Indices == DOMAIN answer.calls
Pieces(n, size) == [k \in 1..size |-> <<n, k>>]
Arguments(i) == Pieces(i, answer.calls[i].size)

NoSlot == [used |-> FALSE, id |-> 0, name |-> 0, object |-> FALSE, arguments |-> <<>>]
Slots == [used : BOOLEAN, id : Nat, name : Nat, object : BOOLEAN, arguments : Seq(Nat \X Nat)]

TypeOK == /\ IsAnswer(answer)
          /\ stage \in {"content", "finished", "sent", "cut", "rejected"}
          /\ said \in Nat
          /\ sent \in [Indices -> Nat \cup {Absent}]
          /\ text \in Seq(Nat \X Nat)
          /\ tool_calls \in [Indices -> Slots]
          /\ finish \in Reasons \cup {None}
          /\ usage \in Counts
          /\ drained \in BOOLEAN

Number(x) == IF x \in {None, Absent} THEN 0 ELSE x         \* x or 0

\* Mutant: a count that is null stays null.
usage_fromNull(raw) == IF raw = None THEN [input |-> 0, output |-> 0]
                       ELSE [input |-> raw.prompt_tokens, output |-> raw.completion_tokens]

usage_from(raw) == IF raw = None THEN [input |-> 0, output |-> 0]
                   ELSE [input |-> Number(raw.prompt_tokens),
                         output |-> Number(raw.completion_tokens)]

stop_reason(reason) == CASE reason = "tool_calls" -> "tool_use"
                         [] reason = "length" -> "max_tokens"
                         [] OTHER -> "end_turn"

Init == /\ answer \in Answers
        /\ stage = "content"
        /\ said = 0
        /\ sent = [i \in Indices |-> Absent]
        /\ text = <<>>
        /\ tool_calls = [i \in Indices |-> NoSlot]
        /\ finish = None
        /\ usage = usage_from(None)
        /\ drained = FALSE

(***************************************************************************)
(* The chunks.                                                             *)
(***************************************************************************)
\* Mutant: a null usage is a report of nothing.
takes_usageReset(raw) == usage' = usage_from(raw)

\* A null usage is passed over; the last report counts.
takes_usage(raw) == usage' = IF raw = None THEN usage ELSE usage_from(raw)

\* Any chunk on the way may report the usage so far.
Interim == \E raw \in answer.interim \cup {None} : takes_usage(raw)

Content == /\ stage = "content"
           /\ said < answer.text
           /\ said' = said + 1
           /\ text' = Append(text, <<0, said + 1>>)
           /\ Interim
           /\ UNCHANGED <<answer, stage, sent, tool_calls, finish, drained>>

\* Mutant: every tool call goes to the slot of the first.
KeyIgnored(i) == 1

\* The slot of call i.
Key(i) == IF answer.calls[i].numbered THEN i ELSE 1

\* The id and the name of a call.
ToolCall(i) ==
    /\ stage = "content" /\ sent[i] = Absent
    /\ sent' = [sent EXCEPT ![i] = 0]
    /\ tool_calls' = [tool_calls EXCEPT ![Key(i)].used = TRUE,
                                        ![Key(i)].id = i, ![Key(i)].name = i]
    /\ Interim
    /\ UNCHANGED <<answer, stage, said, text, finish, drained>>

\* An object replaces what came before, and nothing comes after an object.
Takes(slot, i, k) ==
    IF answer.calls[i].form = "object"
    THEN [slot EXCEPT !.object = TRUE, !.arguments = Arguments(i)]
    ELSE IF slot.object THEN slot
    ELSE [slot EXCEPT !.arguments = Append(@, <<i, k>>)]

\* The next piece of the arguments of a call, or all of them as an object.
ToolArguments(i) ==
    /\ stage = "content" /\ sent[i] # Absent /\ sent[i] < answer.calls[i].size
    /\ sent' = [sent EXCEPT ![i] = IF answer.calls[i].form = "object"
                                   THEN answer.calls[i].size ELSE @ + 1]
    /\ tool_calls' = [tool_calls EXCEPT ![Key(i)] = Takes(@, i, sent[i] + 1)]
    /\ Interim
    /\ UNCHANGED <<answer, stage, said, text, finish, drained>>

Finish == /\ stage = "content"
          /\ said = answer.text
          /\ \A i \in Indices : sent[i] = answer.calls[i].size
          /\ stage' = "finished"
          /\ finish' = answer.finish_reason
          /\ Interim
          /\ UNCHANGED <<answer, said, sent, text, tool_calls, drained>>

\* The chunk with the usage, without a choice; a provider may leave it out.  What
\* comes after it, before [DONE], has a null usage and no choice either.
UsageChunk == /\ ~drained
              /\ \/ stage = "finished" /\ takes_usage(answer.total)
                 \/ stage = "sent" /\ takes_usage(None)
              /\ stage' = "sent"
              /\ UNCHANGED <<answer, said, sent, text, tool_calls, finish, drained>>

\* A chunk that is no object, or has no choices, or a choice, delta or tool call
\* that is no object: TransportProtocolError (AttributeError for a usage that is
\* none), and the stream is never drained.
Reject == /\ ~drained /\ stage # "rejected"
          /\ stage' = "rejected"
          /\ Interim
          /\ UNCHANGED <<answer, said, sent, text, tool_calls, finish, drained>>

\* [DONE] or the end of the body, which may be cut short anywhere.
End == /\ ~drained /\ stage # "rejected"
       /\ drained' = TRUE
       /\ stage' = IF stage = "sent" THEN "sent" ELSE "cut"
       /\ UNCHANGED <<answer, said, sent, text, tool_calls, finish, usage>>

Next == \/ Content \/ Finish \/ UsageChunk \/ Reject \/ End
        \/ \E i \in Indices : ToolCall(i) \/ ToolArguments(i)

Spec == Init /\ [][Next]_vars
-----------------------------------------------------------------------------
(***************************************************************************)
(* The responses: the text block, if any, and the tool calls in the order  *)
(* of their index, which is the order of the answer.                       *)
(***************************************************************************)
\* Mutant: what there is of the arguments passes for all of them.
tool_argsAnyway(arguments) == arguments

\* Arguments that do not parse become {}.
tool_args(arguments) ==
    IF \E i \in Indices : arguments = Arguments(i) THEN arguments ELSE <<>>

get_final_message ==
    [text |-> text,
     calls |-> [i \in {j \in Indices : tool_calls[j].used} |->
                   [id |-> tool_calls[i].id, name |-> tool_calls[i].name,
                    input |-> tool_args(tool_calls[i].arguments)]],
     stop_reason |-> stop_reason(finish),
     usage |-> usage]

complete ==
    [text |-> Pieces(0, answer.text),
     calls |-> [i \in Indices |-> [id |-> i, name |-> i, input |-> tool_args(Arguments(i))]],
     stop_reason |-> stop_reason(answer.finish_reason),
     usage |-> usage_from(answer.total)]
-----------------------------------------------------------------------------
(***************************************************************************)
(* Properties.                                                             *)
(***************************************************************************)
\* Every call has a slot of its own: they are numbered, or there is only one.
Distinct == Len(answer.calls) > 1 => \A i \in Indices : answer.calls[i].numbered

\* The two ways to get an answer get the same: of a stream that was not cut
\* short, get_final_message is what complete() returns -- text, tool calls with
\* their ids, names and inputs in the same order, stop reason and usage.
StreamAgreesWithComplete ==
    drained /\ stage = "sent" /\ Distinct => get_final_message = complete

\* A stream cut short anywhere leaves a truncation of the answer: no tool call
\* that the answer does not have, none with the id or the name of another, and
\* none with other arguments than all of its own or none.
CutShortIsATruncation ==
    drained /\ Distinct =>
        /\ IsPrefix(get_final_message.text, Pieces(0, answer.text))
        /\ \A i \in DOMAIN get_final_message.calls :
              LET call == get_final_message.calls[i]
              IN  /\ call.id = i /\ call.name = i
                  /\ call.input \in {<<>>, Arguments(i)}
=============================================================================
