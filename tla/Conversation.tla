---------------------------- MODULE Conversation ----------------------------
(***************************************************************************)
(* A conversation with tools: the caller says something, asks a model,     *)
(* runs the tools it calls, appends their results and asks again.  The     *)
(* transport keeps no state between the requests; each is translated from  *)
(* all of the messages (RequestTranslation), with the ids that earlier     *)
(* answers came with (GeminiStream), and the caller may change to another  *)
(* wire, or forget its oldest messages, at any request.                    *)
(*                                                                         *)
(* The caller is external.  What it does here is what Anthropic's protocol *)
(* asks of it: every call is answered, in the user messages right behind   *)
(* it and before any text in a message of its own.                         *)
(***************************************************************************)
EXTENDS RequestTranslation

CONSTANTS Answers,      \* what the provider may answer
          None,         \* no answer
          MaxAnswers,   \* bound on the answers of a conversation
          MaxMessages,  \* on the messages of a request
          MaxWindow     \* and on those kept when the rest is forgotten

VARIABLES pc,           \* caller, request, complete or stream
          said,         \* history: the content of every answer so far
          answer, taken, text, calls, finish, usage, drained, blocks

stream == <<answer, taken, text, calls, finish, usage, drained, blocks>>
vars == <<wire, messages, loop, pc, said, stream>>

Stream == INSTANCE GeminiStream

ASSUME AnswersAssumption == Stream!AnswersAreAnswers

TypeOK == /\ TranslationTypeOK
          /\ pc \in {"caller", "request", "complete", "stream"}
          /\ said \in Seq(Seq(Blocks))
          /\ Stream!TypeOK

Init == /\ wire = "none"
        /\ messages = <<>>
        /\ Idle
        /\ pc = "caller"
        /\ said = <<>>
        /\ Stream!Init(None)

Goto(label) == pc' = label

(***************************************************************************)
(* The caller.                                                             *)
(***************************************************************************)
Text == [type |-> "text", id |-> Stream!NoId, name |-> NoName, call |-> <<0, 0>>]
ResultOf(call) == [type |-> "tool_result", id |-> said[call[1]][call[2]].id,
                   name |-> NoName, call |-> call]

\* The calls that have no result yet; all are in the last answer.
Answered == UNION {{messages[m].content[i].call : i \in DOMAIN messages[m].content} :
                      m \in {n \in DOMAIN messages : messages[n].role = "user"}}
Unanswered == {Use(p).call : p \in Uses} \ Answered

Says(content) ==
    /\ pc = "caller" /\ Len(messages) < MaxMessages
    /\ messages' = Append(messages, [role |-> "user", content |-> content])
    /\ UNCHANGED <<wire, loop, pc, said, stream>>

Say == Unanswered = {} /\ Says(<<Text>>)

\* Results in any order, in one message or several, the last of them with text in
\* front (text behind them is put in a list of its own just the same).
Reply == /\ Unanswered # {}
         /\ \E n \in 1..Len(said[Len(said)]) : \E order \in [1..n -> Unanswered] :
               LET content == [i \in 1..n |-> ResultOf(order[i])]
               IN  /\ IsInjective(order)
                   /\ \/ Says(content)
                      \/ Unanswered = ToSet(order) /\ Says(<<Text>> \o content)

Ready == /\ pc = "caller"
         /\ messages # <<>> /\ messages[Len(messages)].role = "user"
         /\ Unanswered = {}

Ask(w) == /\ Ready
          /\ Build(w)
          /\ Goto("request")
          /\ UNCHANGED <<messages, said, stream>>

\* A window on the conversation: results may lose the calls they answer.
Forget(n) == /\ Ready /\ n < Len(messages) /\ Len(messages) - n <= MaxWindow
             /\ messages' = SubSeq(messages, n + 1, Len(messages))
             /\ UNCHANGED <<wire, loop, pc, said, stream>>

(***************************************************************************)
(* The call.                                                               *)
(***************************************************************************)
Translating == /\ pc = "request" /\ Translate
               /\ UNCHANGED <<pc, said, stream>>

\* The provider has an answer; complete() was called, or stream().
Respond(a) == /\ pc = "request" /\ ~translating /\ Len(said) < MaxAnswers
              /\ Goto("complete") \/ (wire = "gemini" /\ Goto("stream"))
              /\ Stream!New(a)
              /\ UNCHANGED <<wire, messages, loop, said>>

\* Request and session are gone with the call.
Done == /\ Goto("caller")
        /\ translating' = FALSE /\ done' = 0 /\ at' = 0
        /\ parts' = <<>> /\ tool_calls' = <<>> /\ results' = <<>> /\ body' = <<>>
        /\ wire' = "none"
        /\ Stream!New(None)

\* Other providers give ids of their own, which never recur.
ProviderId(i) == [turn |-> Len(said) + 1, n |-> i, name |-> NoName]

Received(content) ==
    [i \in DOMAIN content |->
        [type |-> content[i].type,
         id |-> IF wire = "gemini" \/ content[i].type = "text" THEN content[i].id
                                                               ELSE ProviderId(i),
         name |-> content[i].name,
         call |-> <<Len(said) + 1, i>>]]

\* The caller appends the answer to its messages.
Receive(content) ==
    /\ said' = Append(said, Received(content))
    /\ messages' = Append(messages, [role |-> "assistant", content |-> Received(content)])
    /\ Done

Parsing == /\ pc = "complete"
           /\ Stream!TextPart \/ Stream!CallPart \/ Stream!SkippedPart
           /\ UNCHANGED <<wire, messages, loop, pc, said>>

Complete == /\ pc = "complete" /\ taken = Len(answer.parts)
            /\ Receive(Stream!complete.content)

Streaming == /\ pc = "stream" /\ Stream!Next
             /\ UNCHANGED <<wire, messages, loop, pc, said>>

FinalMessage == pc = "stream" /\ drained /\ Receive(Stream!get_final_message.content)

\* The call raises; the caller has its messages as they were.
Fail == /\ \/ pc = "request" /\ ~translating
           \/ pc = "stream" /\ ~drained
        /\ Done
        /\ UNCHANGED <<messages, said>>

Next == \/ Say \/ Reply
        \/ \E w \in {"openai", "anthropic", "gemini"} : Ask(w)
        \/ \E n \in 1..MaxMessages : Forget(n)
        \/ Translating \/ Streaming
        \/ \E a \in Answers : Respond(a)
        \/ Parsing \/ Complete \/ FinalMessage \/ Fail

Spec == Init /\ [][Next]_vars
-----------------------------------------------------------------------------
(***************************************************************************)
(* Properties.                                                             *)
(***************************************************************************)
NameOf(call) == said[call[1]][call[2]].name

\* Gemini pairs results with calls by name.  Every functionResponse is named
\* after the call it answers, whatever turn, wire and way the call came from,
\* though its id may recur in every answer -- unless its call is forgotten and
\* its id is another provider's, which then stands for the name.
NamedAfterCalls ==
    wire = "gemini" =>
        \A t \in DOMAIN body : \A i \in DOMAIN body[t].parts :
            LET part == body[t].parts[i]
            IN  part.type = "tool_result" =>
                    \/ part.name = NameOf(part.call)
                    \/ part.name = NoName /\ \A p \in Uses : Use(p).call # part.call

\* Gemini refuses contents whose turns do not alternate; _to_contents keeps them
\* apart although results, empty answers and user messages come as they like.
RolesAlternate ==
    wire = "gemini" => \A t \in 1..(Len(body) - 1) : body[t].role # body[t + 1].role

\* The other wires pair results with calls by id.  Although ids recur from turn
\* to turn and are made in two ways, the id of a result is that of its own call
\* and of no other among the calls it stands behind.
PairedById ==
    pc = "request" /\ wire # "gemini" /\ ~translating =>
        \A s, t \in DOMAIN body :
            /\ s < t /\ body[s].role = "assistant"
            /\ \A between \in (s + 1)..t : body[between].role # "assistant"
            => \A use \in ToSet(body[s].parts), result \in ToSet(body[t].parts) :
                  use.type = "tool_use" /\ result.type = "tool_result" =>
                      (use.id = result.id <=> use.call = result.call)

\* The Anthropic wire leaves the messages as they are.
Translated == pc = "request" /\ ~translating /\ wire # "anthropic"

\* Blocks by their places, in the messages and in the turns made of them.
Contents == [m \in DOMAIN messages |-> messages[m].content]
Written == [t \in DOMAIN body |-> body[t].parts]
Places(lists) == UNION {{t} \X DOMAIN lists[t] : t \in DOMAIN lists}
BlockAt(lists, p) == lists[p[1]][p[2]]
OfType(lists, type) == {p \in Places(lists) : BlockAt(lists, p).type = type}

\* In every request the results of the calls of a turn stand right behind it --
\* one of every call, and nothing in between or before them, text least of all --
\* as turns of their own or at the head of the next.
AnsweredAtOnce ==
    Translated =>
        \A t \in DOMAIN body :
            LET behind == {p \in Places(Written) : t < p[1]}
                called == {use.call : use \in {part \in ToSet(body[t].parts) :
                                                  part.type = "tool_use"}}
                answering == {p \in behind \cap OfType(Written, "tool_result") :
                                 BlockAt(Written, p).call \in called}
            IN  /\ \A call \in called : \E p \in answering : BlockAt(Written, p).call = call
                /\ \A p, q \in answering :
                       BlockAt(Written, p).call = BlockAt(Written, q).call => p = q
                /\ \A p \in answering, q \in behind : Precedes(q, p) => q \in answering

\* The place of p among the places of its kind.
Rank(p, places) == Cardinality({q \in places : Precedes(q, p)})

\* No text, call or result of the conversation is left out of a request, written
\* twice, or moved before another of its kind: there are as many of a kind in the
\* request, and the n-th of them is the n-th of the conversation.
NothingLost ==
    Translated =>
        \A type \in {"text", "tool_use", "tool_result"} :
            LET written == OfType(Written, type)
                meant == OfType(Contents, type)
            IN  /\ Cardinality(written) = Cardinality(meant)
                /\ \A p \in written, q \in meant : Rank(p, written) = Rank(q, meant) =>
                       BlockAt(Written, p).call = BlockAt(Contents, q).call

\* GeminiStream's, of every answer in a conversation.
StreamAgreesWithComplete == Stream!StreamAgreesWithComplete
CutShortIsATruncation == Stream!CutShortIsATruncation
=============================================================================
