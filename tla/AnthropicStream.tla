--------------------------- MODULE AnthropicStream ---------------------------
(***************************************************************************)
(* _AnthropicStream._consume: an answer comes in as events -- its usage in *)
(* two instalments, its blocks in pieces, possibly interleaved -- and is   *)
(* put together again.  Beside it complete(), which gets the same answer   *)
(* in one document.                                                        *)
(*                                                                         *)
(* The provider picks an answer and streams it.  Abstracted: a piece of    *)
(* text or of JSON is the block it belongs to and its number in it; the    *)
(* JSON of a tool's input parses when all of its pieces are there.  Events *)
(* without effect on the stream (ping, error, content_block_stop,          *)
(* message_stop) are stutters.  Every block has an index of its own; one   *)
(* that a provider leaves out would be 0.                                  *)
(***************************************************************************)
EXTENDS Naturals, Sequences, SequencesExt

CONSTANTS Answers,      \* what the provider may answer
          Absent,       \* a key that is not there
          None          \* null

\* Of a block only the number of pieces counts.  One that is not announced
\* comes without its content_block_start.
BlockTypes == {"text", "tool_use", "thinking"}
Blocks == [type : BlockTypes, size : Nat, announced : BOOLEAN]
Counts == [input : Nat, output : Nat, read : Nat \cup {None}, creation : Nat \cup {None}]
Reports == [input : Nat \cup {None, Absent}, output : Nat \cup {None, Absent},
            read : Nat \cup {None, Absent}, creation : Nat \cup {None, Absent}]

IsAnswer(a) == /\ a.blocks \in Seq(Blocks)
               /\ a.stop_reason \in {"end_turn", "stop_sequence", "tool_use", "max_tokens"}
               /\ a.first \in Reports \cup {None}    \* usage in message_start
               /\ a.last \in Reports \cup {None}     \* usage in message_delta
               /\ a.total \in Reports                \* usage of the whole answer

ASSUME AnswersAssumption == /\ \A a \in Answers : IsAnswer(a)
                            /\ Absent \notin Nat /\ None \notin Nat /\ Absent # None

VARIABLES answer,       \* the provider's
          stage,        \* how far it has got with it
          sent,         \* pieces sent of each block; Absent before its start
          blocks,       \* _blocks, the slots by index
          stop,         \* _stop_reason
          usage,        \* _usage
          drained,      \* _drained
          yielded       \* the deltas given to the consumer
vars == <<answer, stage, sent, blocks, stop, usage, drained, yielded>>

Indices == DOMAIN answer.blocks
Pieces(i) == [k \in 1..answer.blocks[i].size |-> <<i, k>>]

NoSlot == [type |-> "none", text |-> <<>>, json |-> <<>>]
Slots == [type : BlockTypes \cup {"none"}, text : Seq(Nat \X Nat), json : Seq(Nat \X Nat)]

TypeOK == /\ IsAnswer(answer)
          /\ stage \in {"message_start", "content", "sent", "cut"}
          /\ sent \in [Indices -> Nat \cup {Absent}]
          /\ blocks \in [Indices -> Slots]
          /\ stop \in {None, "end_turn", "stop_sequence", "tool_use", "max_tokens"}
          /\ usage \in Counts
          /\ drained \in BOOLEAN
          /\ yielded \in Seq(Nat \X Nat)

Init == /\ answer \in Answers
        /\ stage = "message_start"
        /\ sent = [i \in Indices |-> Absent]
        /\ blocks = [i \in Indices |-> NoSlot]
        /\ stop = None
        /\ usage = [input |-> 0, output |-> 0, read |-> None, creation |-> None]
        /\ drained = FALSE
        /\ yielded = <<>>

(***************************************************************************)
(* Usage.                                                                  *)
(***************************************************************************)
Number(x) == IF x \in {None, Absent} THEN 0 ELSE x         \* x or 0

\* Mutant: input and cache counts stay with their first sighting.
merge_usageFirst(raw) ==
    usage' = IF raw = None THEN usage
             ELSE [usage EXCEPT
                     !.input = IF raw.input = Absent \/ @ # 0 THEN @ ELSE Number(raw.input),
                     !.output = IF raw.output = Absent THEN @ ELSE Number(raw.output),
                     !.read = IF raw.read \in {None, Absent} THEN @ ELSE raw.read,
                     !.creation = IF raw.creation \in {None, Absent} THEN @ ELSE raw.creation]

\* Mutant: an output count that is null becomes the count.
merge_usageNull(raw) ==
    usage' = IF raw = None THEN usage
             ELSE [usage EXCEPT
                     !.input = IF raw.input = Absent THEN @ ELSE Number(raw.input),
                     !.output = IF raw.output = Absent THEN @ ELSE raw.output,
                     !.read = IF raw.read \in {None, Absent} THEN @ ELSE raw.read,
                     !.creation = IF raw.creation \in {None, Absent} THEN @ ELSE raw.creation]

merge_usage(raw) ==
    usage' = IF raw = None THEN usage
             ELSE [input    |-> IF raw.input = Absent THEN usage.input ELSE Number(raw.input),
                   output   |-> IF raw.output = Absent THEN usage.output ELSE Number(raw.output),
                   read     |-> IF raw.read \in {None, Absent} THEN usage.read ELSE raw.read,
                   creation |-> IF raw.creation \in {None, Absent} THEN usage.creation
                                                                  ELSE raw.creation]

usage_from(raw) == [input    |-> Number(raw.input),
                    output   |-> Number(raw.output),
                    read     |-> IF raw.read = Absent THEN None ELSE raw.read,
                    creation |-> IF raw.creation = Absent THEN None ELSE raw.creation]

stop_reason(reason) == IF reason \in {"tool_use", "max_tokens"} THEN reason ELSE "end_turn"

(***************************************************************************)
(* The events.                                                             *)
(***************************************************************************)
MessageStart == /\ stage = "message_start"
                /\ stage' = "content"
                /\ merge_usage(answer.first)
                /\ UNCHANGED <<answer, sent, blocks, stop, drained, yielded>>

\* A thinking block gets no slot.
ContentBlockStart(i) ==
    /\ stage = "content"
    /\ answer.blocks[i].announced /\ sent[i] = Absent
    /\ sent' = [sent EXCEPT ![i] = 0]
    /\ blocks' = IF answer.blocks[i].type = "thinking" THEN blocks
                 ELSE [blocks EXCEPT ![i] = [NoSlot EXCEPT !.type = answer.blocks[i].type]]
    /\ UNCHANGED <<answer, stage, stop, usage, drained, yielded>>

\* The next piece of block i, which the provider is sending.
Piece(i) == <<i, Number(sent[i]) + 1>>
Sends(i) == /\ stage = "content"
            /\ answer.blocks[i].announced => sent[i] # Absent
            /\ Number(sent[i]) < answer.blocks[i].size
            /\ sent' = [sent EXCEPT ![i] = Number(@) + 1]

\* Mutant: a delta goes to the slot of another block if there is one.
TextDeltaAstray(i) ==
    /\ Sends(i) /\ answer.blocks[i].type = "text"
    /\ \E j \in Indices : /\ blocks[j].type = "text"
                          /\ blocks' = [blocks EXCEPT ![j].text = Append(@, Piece(i))]
    /\ yielded' = Append(yielded, Piece(i))
    /\ UNCHANGED <<answer, stage, stop, usage, drained>>

\* Yielded to the consumer even when there is no slot to keep it.
TextDelta(i) ==
    /\ Sends(i) /\ answer.blocks[i].type = "text"
    /\ blocks' = IF blocks[i] = NoSlot THEN blocks
                 ELSE [blocks EXCEPT ![i].text = Append(@, Piece(i))]
    /\ yielded' = Append(yielded, Piece(i))
    /\ UNCHANGED <<answer, stage, stop, usage, drained>>

InputJsonDelta(i) ==
    /\ Sends(i) /\ answer.blocks[i].type = "tool_use"
    /\ blocks' = IF blocks[i] = NoSlot THEN blocks
                 ELSE [blocks EXCEPT ![i].json = Append(@, Piece(i))]
    /\ UNCHANGED <<answer, stage, stop, usage, drained, yielded>>

ThinkingDelta(i) == /\ Sends(i) /\ answer.blocks[i].type = "thinking"
                    /\ UNCHANGED <<answer, stage, blocks, stop, usage, drained, yielded>>

MessageDelta == /\ stage = "content"
                /\ \A i \in Indices : /\ answer.blocks[i].announced => sent[i] # Absent
                                      /\ Number(sent[i]) = answer.blocks[i].size
                /\ stage' = "sent"
                /\ stop' = answer.stop_reason
                /\ merge_usage(answer.last)
                /\ UNCHANGED <<answer, sent, blocks, drained, yielded>>

\* The body ends: after message_delta, or cut short anywhere.
End == /\ ~drained
       /\ drained' = TRUE
       /\ stage' = IF stage = "sent" THEN "sent" ELSE "cut"
       /\ UNCHANGED <<answer, sent, blocks, stop, usage, yielded>>

Next == \/ MessageStart \/ MessageDelta \/ End
        \/ \E i \in Indices : \/ ContentBlockStart(i)
                              \/ TextDelta(i) \/ InputJsonDelta(i) \/ ThinkingDelta(i)

Spec == Init /\ [][Next]_vars
-----------------------------------------------------------------------------
(***************************************************************************)
(* The responses.  Their content is indexed as the answer is, which is the *)
(* order both put it in.                                                   *)
(***************************************************************************)
\* Mutant: what there is of a tool's input passes for all of it.
ParsedAnyway(i, json) == json

\* A tool's input that does not parse becomes {}.
Parsed(i, json) == IF json = Pieces(i) THEN json ELSE <<>>

get_final_message ==
    LET kept == {i \in Indices : \/ blocks[i].type = "tool_use"
                                 \/ blocks[i].type = "text" /\ blocks[i].text # <<>>}
    IN  [content |-> [i \in kept |-> IF blocks[i].type = "text"
                                     THEN blocks[i].text ELSE Parsed(i, blocks[i].json)],
         stop_reason |-> stop_reason(stop),
         usage |-> usage]

complete ==
    LET kept == {i \in Indices : answer.blocks[i].type \in {"text", "tool_use"}}
    IN  [content |-> [i \in kept |-> Pieces(i)],
         stop_reason |-> stop_reason(answer.stop_reason),
         usage |-> usage_from(answer.total)]
-----------------------------------------------------------------------------
(***************************************************************************)
(* Properties.                                                             *)
(***************************************************************************)
Announced == \A i \in Indices : answer.blocks[i].announced

\* The two ways to get an answer get the same: of a stream that was not cut
\* short, get_final_message has the blocks, inputs, stop reason and usage of
\* complete(), except that it leaves out text blocks without text.
StreamAgreesWithComplete ==
    drained /\ stage = "sent" /\ Announced =>
        LET final == get_final_message
            empty == {i \in Indices : answer.blocks[i].type = "text" /\ Pieces(i) = <<>>}
        IN  /\ DOMAIN final.content = DOMAIN complete.content \ empty
            /\ \A i \in DOMAIN final.content : final.content[i] = complete.content[i]
            /\ final.stop_reason = complete.stop_reason
            /\ final.usage = complete.usage

\* A stream cut short anywhere leaves a truncation of the answer: no block that
\* the answer does not have, no text that is not the beginning of its block's,
\* and no input of a tool other than all of it or none.
CutShortIsATruncation ==
    drained => \A i \in DOMAIN get_final_message.content :
                   LET content == get_final_message.content[i]
                   IN  CASE answer.blocks[i].type = "text" -> IsPrefix(content, Pieces(i))
                         [] answer.blocks[i].type = "tool_use" -> content \in {<<>>, Pieces(i)}
                         [] OTHER -> FALSE

\* However blocks interleave, the text of a block is what the consumer was given
\* of it -- every delta, in its own block, once and in the order given -- if the
\* block was announced.
DeltasAreKept ==
    \A i \in Indices : answer.blocks[i].type = "text" /\ answer.blocks[i].announced =>
        LET text == blocks[i].text
            given == {p \in DOMAIN yielded : yielded[p][1] = i}
        IN  \E at \in [DOMAIN text -> given] :
                /\ \A k, l \in DOMAIN text : k < l => at[k] < at[l]
                /\ \A p \in given : \E k \in DOMAIN text : at[k] = p
                /\ \A k \in DOMAIN text : yielded[at[k]] = text[k]
=============================================================================
