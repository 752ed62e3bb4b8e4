-------------------------- MODULE MCAnthropicStream --------------------------
(***************************************************************************)
(* Instances of AnthropicStream for TLC.                                   *)
(***************************************************************************)
EXTENDS AnthropicStream

CONSTANTS MaxBlocks, MaxPieces

SmallBlocks == [type : BlockTypes, size : 0..MaxPieces, announced : BOOLEAN]
AnnouncedBlocks == {b \in SmallBlocks : b.announced}

\* message_start reports what is known then, or nothing at all; message_delta
\* the final output count alone, or every count again.  A compatible provider
\* may revise its input and cache counts, and may leave cache counts out.
Total(input, output, read, creation) ==
    [input |-> input, output |-> output, read |-> read, creation |-> creation]
OutputOnly(total) ==
    [input |-> Absent, output |-> total.output, read |-> Absent, creation |-> Absent]

Totals == {Total(5, output, read, creation) :
              output \in {None, 3}, read \in {Absent, None, 0, 4}, creation \in {Absent, 2}}
Usages ==
    UNION {{[first |-> [total EXCEPT !.output = 1], last |-> OutputOnly(total), total |-> total],
            [first |-> [total EXCEPT !.output = Absent], last |-> total, total |-> total],
            [first |-> Total(4, 1, Absent, None), last |-> total, total |-> total],
            [first |-> None, last |-> total, total |-> total]} : total \in Totals}
OneUsage == {[first |-> Total(5, 1, 4, Absent), last |-> OutputOnly(Total(5, 3, 4, Absent)),
              total |-> Total(5, 3, 4, Absent)]}

AnswersOf(blocks_, usages, reasons) ==
    {[blocks |-> b, first |-> u.first, last |-> u.last, total |-> u.total, stop_reason |-> r] :
        b \in blocks_, u \in usages, r \in reasons}

\* Answers of a few blocks, announced or not; and, of at most one block, every
\* way to report the usage and every stop reason.
MCAnswers == AnswersOf(SeqOf(SmallBlocks, MaxBlocks), OneUsage, {"tool_use"})
             \cup AnswersOf(SeqOf(AnnouncedBlocks, 1), Usages,
                            {"end_turn", "stop_sequence", "tool_use", "max_tokens"})
=============================================================================
