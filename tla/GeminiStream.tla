---------------------------- MODULE GeminiStream ----------------------------
(***************************************************************************)
(* _GeminiStream._consume: an answer comes in part by part and is put      *)
(* together again.  complete() gets the same answer in one document, and   *)
(* the loop of _blocks_from_parts is followed beside, part by part.        *)
(* Gemini gives its function calls no ids; both ways make some up, each in *)
(* its own way, and Conversation follows them through the requests that    *)
(* come after.                                                             *)
(*                                                                         *)
(* Abstracted: a part is its place in the answer, and so are the arguments *)
(* of a function call, which come whole.  "skipped" is a thought, or a     *)
(* part of a kind the code does not know.  A chunk with several parts is   *)
(* several steps; one without candidates changes at most the usage.        *)
(***************************************************************************)
EXTENDS Naturals, Sequences, SequencesExt

CONSTANTS Answers,      \* what the provider may answer
          Names,        \* names of tools
          NoName,       \* no tool's name
          None          \* null; also, no answer at all

Parts == [type : {"text", "functionCall", "skipped"}, name : Names \cup {NoName}]
Counts == Nat \cup {None}
Reports == [prompt : Counts, candidates : Counts, thoughts : Counts, cached : Counts]
Reasons == {"STOP", "MAX_TOKENS", "SAFETY"}

IsAnswer(a) == /\ a.parts \in Seq(Parts)
               /\ \A i \in DOMAIN a.parts : (a.parts[i].type = "functionCall") <=>
                                            (a.parts[i].name # NoName)
               /\ a.finishReason \in Reasons
               /\ a.interim \subseteq Reports      \* usageMetadata on the way
               /\ a.total \in Reports \cup {None}  \* and at the end
               /\ a.total = None => a.interim = {}

AnswersAreAnswers == /\ \A a \in Answers : IsAnswer(a)
                     /\ None \notin Nat /\ None \notin Answers /\ NoName \notin Names

VARIABLES answer,       \* the provider's
          taken,        \* how many of its parts have come in
          text,         \* _text: the text parts in it
          calls,        \* _calls: the function calls in it
          finish,       \* _finish_reason
          usage,        \* _usage
          drained,      \* _drained
          blocks        \* complete()'s, of the same parts

Number(x) == IF x = None THEN 0 ELSE x                     \* x or 0

\* Mutant: a prompt count that is null stays null.
usage_fromNull(raw) == IF raw = None THEN [input |-> 0, output |-> 0, read |-> None]
                       ELSE [input |-> raw.prompt,
                             output |-> Number(raw.candidates) + Number(raw.thoughts),
                             read |-> raw.cached]

usage_from(raw) == IF raw = None THEN [input |-> 0, output |-> 0, read |-> None]
                   ELSE [input |-> Number(raw.prompt),
                         output |-> Number(raw.candidates) + Number(raw.thoughts),
                         read |-> raw.cached]

stop_reason(reason, saw_tool_call) == IF saw_tool_call THEN "tool_use"
                                      ELSE IF reason = "MAX_TOKENS" THEN "max_tokens"
                                      ELSE "end_turn"

\* The id of a call, gemini-call-<n>-<name>, is its two pieces; other providers'
\* ids, which have no name, are in Conversation.
Ids == [turn : Nat, n : Nat, name : Names \cup {NoName}]
NoId == [turn |-> 0, n |-> 0, name |-> NoName]
\* Mutant: ids without the name in them.
call_idNumberOnly(n, name) == [turn |-> 0, n |-> n, name |-> NoName]
\* Mutant: ids without a number in them.
call_idNameOnly(n, name) == [turn |-> 0, n |-> 0, name |-> name]
call_id(n, name) == [turn |-> 0, n |-> n, name |-> name]

TextBlock(pieces) == [type |-> "text", id |-> NoId, name |-> NoName, pieces |-> pieces]
ToolUseBlock(n, i) == [type |-> "tool_use", id |-> call_id(n, answer.parts[i].name),
                       name |-> answer.parts[i].name, pieces |-> <<i>>]

ContentBlocks == [type : {"text", "tool_use"}, id : Ids, name : Names \cup {NoName},
                  pieces : Seq(Nat)]

TypeOK == /\ answer \in Answers \cup {None}
          /\ taken \in Nat
          /\ text \in Seq(Nat) /\ calls \in Seq(Nat)
          /\ finish \in Reasons \cup {None}
          /\ usage \in [input : Nat, output : Nat, read : Counts]
          /\ drained \in BOOLEAN
          /\ blocks \in Seq(ContentBlocks)

Init(a) == /\ answer = a
           /\ taken = 0
           /\ text = <<>> /\ calls = <<>>
           /\ finish = None
           /\ usage = usage_from(None)
           /\ drained = FALSE
           /\ blocks = <<>>

\* A session of its own for every answer.
New(a) == /\ answer' = a
          /\ taken' = 0
          /\ text' = <<>> /\ calls' = <<>>
          /\ finish' = None
          /\ usage' = usage_from(None)
          /\ drained' = FALSE
          /\ blocks' = <<>>

(***************************************************************************)
(* The chunks.                                                             *)
(***************************************************************************)
\* Any chunk may report the usage so far.
Interim == usage' \in {usage} \cup {usage_from(raw) : raw \in answer.interim}

Takes(type) == /\ ~drained /\ taken < Len(answer.parts)
               /\ answer.parts[taken + 1].type = type
               /\ taken' = taken + 1
               /\ Interim
               /\ UNCHANGED <<answer, finish, drained>>

\* complete() joins the text between two calls, whatever was skipped in it.
TextPart ==
    /\ Takes("text")
    /\ text' = Append(text, taken + 1)
    /\ blocks' = IF blocks # <<>> /\ blocks[Len(blocks)].type = "text"
                 THEN [blocks EXCEPT ![Len(blocks)].pieces = Append(@, taken + 1)]
                 ELSE Append(blocks, TextBlock(<<taken + 1>>))
    /\ UNCHANGED calls

\* complete() numbers a call by its place among the parts.
CallPart == /\ Takes("functionCall")
            /\ calls' = Append(calls, taken + 1)
            /\ blocks' = Append(blocks, ToolUseBlock(taken, taken + 1))
            /\ UNCHANGED text

\* Mutant: a thought is text like any other.
SkippedPartIsText == /\ Takes("skipped")
                     /\ text' = Append(text, taken + 1)
                     /\ UNCHANGED <<calls, blocks>>
SkippedPart == Takes("skipped") /\ UNCHANGED <<text, calls, blocks>>

\* Mutant: usage is kept from the first report on.
FinishKeepsUsage ==
    /\ ~drained /\ taken = Len(answer.parts) /\ finish = None
    /\ finish' = answer.finishReason
    /\ usage' = IF answer.total = None \/ usage # usage_from(None) THEN usage
               ELSE usage_from(answer.total)
    /\ UNCHANGED <<answer, taken, text, calls, drained, blocks>>

\* The finish reason, and the usage of the whole answer.
Finish == /\ ~drained /\ taken = Len(answer.parts) /\ finish = None
          /\ finish' = answer.finishReason
          /\ usage' = IF answer.total = None THEN usage ELSE usage_from(answer.total)
          /\ UNCHANGED <<answer, taken, text, calls, drained, blocks>>

\* The body ends, which may be anywhere.
End == /\ ~drained
       /\ drained' = TRUE
       /\ UNCHANGED <<answer, taken, text, calls, finish, usage, blocks>>

Next == TextPart \/ CallPart \/ SkippedPart \/ Finish \/ End
-----------------------------------------------------------------------------
(***************************************************************************)
(* The responses.                                                          *)
(***************************************************************************)
\* The stream numbers a call among the calls, and puts them behind all of the text.
get_final_message ==
    [content |-> (IF text = <<>> THEN <<>> ELSE <<TextBlock(text)>>)
                 \o [k \in DOMAIN calls |-> ToolUseBlock(k - 1, calls[k])],
     stop_reason |-> stop_reason(finish, calls # <<>>),
     usage |-> usage]

complete ==
    [content |-> blocks,
     stop_reason |-> stop_reason(answer.finishReason,
                                 \E i \in DOMAIN answer.parts :
                                     answer.parts[i].type = "functionCall"),
     usage |-> usage_from(answer.total)]
-----------------------------------------------------------------------------
(***************************************************************************)
(* Properties.                                                             *)
(***************************************************************************)
Pieces(content, type) ==
    UNION {ToSet(content[k].pieces) : k \in {j \in DOMAIN content : content[j].type = type}}
Ascending(seq) == \A i, j \in DOMAIN seq : i < j => seq[i] < seq[j]
Ordered(content, type) ==
    \A k \in DOMAIN content : content[k].type = type =>
        /\ Ascending(content[k].pieces)
        /\ \A j \in 1..(k - 1) : content[j].type = type =>
              \A p \in ToSet(content[j].pieces), q \in ToSet(content[k].pieces) : p < q

\* The two ways to get an answer get the same text and the same calls, each in
\* the order of the answer, and of a whole answer the same stop reason and usage
\* -- not the same ids, nor the same place of text that stands behind a call.
StreamAgreesWithComplete ==
    answer # None =>
        /\ \A type \in {"text", "tool_use"} :
              /\ Pieces(get_final_message.content, type) = Pieces(complete.content, type)
              /\ Ordered(get_final_message.content, type) /\ Ordered(complete.content, type)
        /\ finish # None => /\ get_final_message.stop_reason = complete.stop_reason
                            /\ get_final_message.usage = complete.usage

\* A stream cut short anywhere has assembled exactly the text and the calls that
\* came in, each in its order: no thought among the text, no call twice.
Enumerates(seq, type) ==
    /\ Ascending(seq)
    /\ ToSet(seq) = {i \in 1..taken : answer.parts[i].type = type}
CutShortIsATruncation ==
    answer # None => Enumerates(text, "text") /\ Enumerates(calls, "functionCall")
=============================================================================
