--------------------------- MODULE MCOpenAIStream ---------------------------
(***************************************************************************)
(* Instances of OpenAIStream for TLC.                                      *)
(***************************************************************************)
EXTENDS OpenAIStream

CONSTANTS MaxText, MaxCalls, MaxPieces

SmallCalls == [form : {"text", "object"}, size : 0..MaxPieces, numbered : BOOLEAN]

Report(input, output) == [prompt_tokens |-> input, completion_tokens |-> output]

\* Usage in the last chunk only; in every chunk; never; and a broken report.
Usages == {[interim |-> {}, total |-> Report(5, 3)],
           [interim |-> {Report(5, 1), Report(5, 2)}, total |-> Report(5, 3)],
           [interim |-> {}, total |-> None],
           [interim |-> {Report(5, None)}, total |-> Report(None, 3)]}
OneUsage == {[interim |-> {}, total |-> Report(5, 3)]}

AnswersOf(texts, calls, usages, reasons) ==
    {[text |-> n, calls |-> c, interim |-> u.interim, total |-> u.total, finish_reason |-> r] :
        n \in texts, c \in calls, u \in usages, r \in reasons}

\* Answers with a few tool calls, in every form; and, with at most one, every
\* way to report the usage and every finish reason.
MCAnswers == AnswersOf(0..MaxText, SeqOf(SmallCalls, MaxCalls), OneUsage, {"tool_calls"})
             \cup AnswersOf(0..MaxText, SeqOf(SmallCalls, 1), Usages, Reasons)
=============================================================================
