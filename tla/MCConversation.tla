--------------------------- MODULE MCConversation ---------------------------
(***************************************************************************)
(* Instances of Conversation for TLC.                                      *)
(***************************************************************************)
EXTENDS Conversation, TLC

CONSTANTS a, b, MaxCalls

MCNames == {a, b}
Symmetry == Permutations(MCNames)

SomeText == [type |-> "text", name |-> NoName]
SomeCall(name) == [type |-> "functionCall", name |-> name]
Skipped == [type |-> "skipped", name |-> NoName]

Report(prompt, candidates, thoughts, cached) ==
    [prompt |-> prompt, candidates |-> candidates, thoughts |-> thoughts, cached |-> cached]

\* Usage at the end only, in every chunk, never, and in a broken report.
OneUsage == {[interim |-> {}, total |-> Report(5, 3, 2, None)]}
Usages == OneUsage \cup
          {[interim |-> {Report(5, 1, 1, 4), Report(5, 2, None, 4)}, total |-> Report(5, 3, 2, 4)],
           [interim |-> {}, total |-> None],
           [interim |-> {Report(5, 2, 1, 4)}, total |-> Report(None, None, 2, None)]}

AnswersOf(seqs, usages, reasons) ==
    {[parts |-> s, interim |-> u.interim, total |-> u.total, finishReason |-> r] :
        s \in seqs, u \in usages, r \in reasons}

\* Up to two calls; a call behind text, and between texts; a thought in the text;
\* and of one text every way to report usage and every finish reason.
MCAnswers ==
    LET some == SeqOf({SomeCall(name) : name \in MCNames}, MaxCalls)
        single == {c \in some : Len(c) = 1}
    IN  AnswersOf(some \cup {<<SomeText>> \o c : c \in single}
                         \cup {<<SomeText>> \o c \o <<SomeText>> : c \in single}
                         \cup {<<SomeText, Skipped, SomeText>>},
                  OneUsage, {"STOP"})
        \cup AnswersOf({<<SomeText>>}, Usages, {"STOP"})
        \cup AnswersOf({<<SomeText>>}, OneUsage, Stream!Reasons)
=============================================================================
