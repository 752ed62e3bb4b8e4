---------------------------- MODULE StreamSession ----------------------------
(***************************************************************************)
(* One streaming session, from the moment __aenter__ has returned: the     *)
(* surface that _OpenAIStream, _AnthropicStream and _GeminiStream share.   *)
(* Consumers -- possibly several tasks -- call text_stream, events() and   *)
(* get_final_message() in any order, abandon iterators, get cancelled, and *)
(* leave the `async with` block, while the provider's lines come in.       *)
(*                                                                         *)
(* Abstracted: a piece of text is its position in the stream; of a tool    *)
(* call, a usage record or a keep-alive only that a line was read; of the  *)
(* <think> filter only what it may hold back, drop and release.  Blocks    *)
(* are taken to be started before their deltas (Anthropic wire).           *)
(***************************************************************************)
EXTENDS Naturals, Sequences

CONSTANTS Handles,      \* the calls made on the session
          Wires,        \* the wires the session may belong to
          MaxLines,     \* bound: lines the provider sends before the end
          NoAnswer

ASSUME SessionAssumption == /\ Wires \subseteq {"openai", "anthropic", "gemini"}
                            /\ MaxLines \in Nat
                            /\ NoAnswer \notin Seq(Nat)

VARIABLES wire,
          exited,       \* __aexit__ has run
          consumed,     \* httpx: the body has been given to a reader
          closed,       \* httpx: the response is closed
          body,         \* history: the provider's, as far as httpx can give it out
          pos,          \* lines read
          finished,     \* a finish_reason / stop_reason was among them
          think,        \* ThinkTagFilter._state
          held,         \* the text its _buf would release
          text,         \* the assembled answer text
          drained,
          surface,      \* which of the three surfaces each call uses
          pc,           \* where the call stands
          got,          \* the deltas it has delivered, concatenated
          answer,       \* the text of the response it returned
          error         \* what ended it otherwise

session == <<wire, exited, consumed, closed, body, pos, finished, think, held, text, drained>>
calls   == <<surface, pc, got, answer, error>>
vars    == <<session, calls>>

Surfaces == {"text_stream", "events", "get_final_message"}
\* yielded: suspended at the yield of a delta; tail: at that of the last one,
\* which flush() released; left: abandoned by its consumer.
Active   == {"reading", "yielded", "tail"}
Labels   == Active \cup {"new", "ended", "failed", "left"}
\* over: read to its end; torn: closed before all of it had come in.
Bodies   == {"coming", "over", "torn"}
Errors   == {"none", "StreamConsumed", "StreamClosed", "HTTPError",
             "TransportProtocolError", "CancelledError"}

TypeOK == /\ wire \in Wires
          /\ exited \in BOOLEAN /\ consumed \in BOOLEAN /\ closed \in BOOLEAN
          /\ body \in Bodies
          /\ pos \in Nat
          /\ finished \in BOOLEAN
          /\ think \in {"start", "think", "pass"}
          /\ held \in Seq(Nat) /\ text \in Seq(Nat)
          /\ drained \in BOOLEAN
          /\ surface \in [Handles -> Surfaces]
          /\ pc \in [Handles -> Labels]
          /\ got \in [Handles -> Seq(Nat)]
          /\ answer \in [Handles -> Seq(Nat) \cup {NoAnswer}]
          /\ error \in [Handles -> Errors]

Init == /\ wire \in Wires
        /\ exited = FALSE /\ consumed = FALSE /\ closed = FALSE
        /\ body = "coming"
        /\ pos = 0
        /\ finished = FALSE
        /\ think = IF wire = "openai" THEN "start" ELSE "pass"
        /\ held = <<>> /\ text = <<>>
        /\ drained = FALSE
        /\ surface = [h \in Handles |-> "text_stream"]
        /\ pc = [h \in Handles |-> "new"]
        /\ got = [h \in Handles |-> <<>>]
        /\ answer = [h \in Handles |-> NoAnswer]
        /\ error = [h \in Handles |-> "none"]

Goto(h, label) == pc' = [pc EXCEPT ![h] = label]

Fail(h, err) == /\ Goto(h, "failed")
                /\ error' = [error EXCEPT ![h] = err]
                /\ UNCHANGED <<got, answer>>

\* text_stream just stops; the other two return the assembled response.
Return(h, kind, s) ==
    /\ Goto(h, "ended")
    /\ answer' = IF kind = "text_stream" THEN answer ELSE [answer EXCEPT ![h] = s]
    /\ UNCHANGED error

(***************************************************************************)
(* Making a call.  httpx lets a body be read once, and not after closing.  *)
(***************************************************************************)
\* get_final_message does not read a stream that has been drained.
Assembles(s) == s = "get_final_message" /\ drained

\* Mutant: a body that is replayed to every reader.
CanReplay == ~closed

CanRead == ~consumed /\ ~closed

Start(h, s) ==
    /\ pc[h] = "new"
    /\ surface' = [surface EXCEPT ![h] = s]
    /\ \/ /\ Assembles(s)
          /\ Return(h, s, text)
          /\ UNCHANGED <<consumed, got>>
       \/ /\ ~Assembles(s) /\ CanRead
          /\ consumed' = TRUE
          /\ Goto(h, "reading")
          /\ UNCHANGED <<got, answer, error>>
       \/ /\ ~Assembles(s) /\ ~CanRead
          /\ Fail(h, IF consumed THEN "StreamConsumed" ELSE "StreamClosed")
          /\ UNCHANGED consumed
    /\ UNCHANGED <<wire, exited, closed, body, pos, finished, think, held, text, drained>>

(***************************************************************************)
(* _consume, one line at a time.                                           *)
(***************************************************************************)
Effect(state, keep, out) == [state |-> state, held |-> keep, out |-> out]

\* Mutant: the new delta overtakes the text that was held back.
FeedOvertaking(p) ==
    IF think = "start" THEN {Effect("start", Append(held, p), <<>>),
                             Effect("pass", <<>>, <<p>> \o held)}
                       ELSE {Effect(think, <<>>, <<p>>)}

\* Mutant: a misspelt state.
FeedMisspelt(p) == {Effect("passed", <<>>, <<p>>)}

\* What ThinkTagFilter.feed may do with the text at p: out is what it returns.
Feed(p) ==
    IF think = "pass" THEN {Effect("pass", <<>>, <<p>>)}
    ELSE {Effect("think", <<>>, <<>>), Effect("pass", <<>>, <<>>), Effect("pass", <<>>, <<p>>)}
         \cup (IF think = "start" THEN {Effect("start", Append(held, p), <<>>),
                                       Effect("pass", <<>>, Append(held, p))}
                                 ELSE {})

\* Mutant: get_final_message waits at the first delta like an iterator.
AlwaysYield(h, label) == label

\* get_final_message discards the deltas, so it never stops at a yield.
AtYield(h, label) == IF surface[h] = "get_final_message" THEN "reading" ELSE label

\* Mutant: what was held back is assembled but not delivered.
DeliverSilently(h, out) ==
    /\ text' = text \o out
    /\ got' = IF surface[h] = "get_final_message" \/ held # <<>>
                 THEN got ELSE [got EXCEPT ![h] = @ \o out]

Deliver(h, out) ==
    /\ text' = text \o out
    /\ got' = IF surface[h] = "get_final_message" THEN got
                                                  ELSE [got EXCEPT ![h] = @ \o out]

Line(h) == /\ pc[h] = "reading"
           /\ pos < MaxLines
           /\ pos' = pos + 1

\* A chunk of two of the wires may hold text and the finish reason at once.
ReadText(h) ==
    /\ Line(h)
    /\ \E effect \in Feed(pos + 1) :
          /\ think' = effect.state
          /\ held' = effect.held
          /\ Deliver(h, effect.out)
          /\ Goto(h, IF effect.out = <<>> THEN "reading" ELSE AtYield(h, "yielded"))
    /\ finished' \in {finished, wire # "anthropic" \/ finished}
    /\ UNCHANGED <<wire, exited, consumed, closed, body, drained, surface, answer, error>>

\* Keep-alives, malformed lines, usage, tool calls, or the finish reason.
ReadOther(h) ==
    /\ Line(h)
    /\ finished' \in {finished, TRUE}
    /\ UNCHANGED <<wire, exited, consumed, closed, body, think, held, text, drained, calls>>

\* JSON that is not an object: the OpenAI wire rejects it, the others skip it.
ReadScalar(h) ==
    /\ Line(h)
    /\ IF wire = "openai" THEN Fail(h, "TransportProtocolError")
                          ELSE UNCHANGED <<pc, got, answer, error>>
    /\ UNCHANGED <<wire, exited, consumed, closed, body, finished, think, held, text, drained,
                   surface>>

Flushed == IF think = "start" THEN held ELSE <<>>   \* what flush() returns
StopsAtTail(h) == Flushed # <<>> /\ AtYield(h, "tail") = "tail"

\* The body ends, which closes the response, or [DONE] stops the reading
\* without.  The text flush() releases is one more delta to stop at.
ReadEnd(h) ==
    /\ pc[h] = "reading" /\ body # "torn"
    /\ body' = "over"
    /\ closed' \in {closed, TRUE}
    /\ think' = IF think = "start" THEN "pass" ELSE think
    /\ held' = <<>>
    /\ Deliver(h, Flushed)
    /\ \/ /\ StopsAtTail(h)
          /\ Goto(h, "tail")
          /\ UNCHANGED <<drained, answer, error>>
       \/ /\ ~StopsAtTail(h)
          /\ drained' = TRUE
          /\ Return(h, surface[h], text')
    /\ UNCHANGED <<wire, exited, consumed, pos, finished, surface>>

\* Mutant: a read that fails ends the stream like any other.
ReadFailsQuietly(h) == /\ pc[h] = "reading"
                       /\ drained' = TRUE
                       /\ Return(h, surface[h], text)
                       /\ UNCHANGED <<wire, exited, consumed, closed, body, pos, finished, think,
                                      held, text, surface, got>>

\* A timeout or a drop while reading, or a read after Exit once the lines httpx
\* had already decoded are used up; its errors go to the consumer as such.
ReadFails(h) == /\ pc[h] = "reading"
                /\ Fail(h, "HTTPError")
                /\ UNCHANGED <<session, surface>>

(***************************************************************************)
(* The consumers.                                                          *)
(***************************************************************************)
Resume(h) ==
    /\ \/ /\ pc[h] = "yielded"
          /\ Goto(h, "reading")
          /\ UNCHANGED <<drained, answer, error>>
       \/ /\ pc[h] = "tail"
          /\ drained' = TRUE
          /\ Return(h, surface[h], text)
    /\ UNCHANGED <<wire, exited, consumed, closed, body, pos, finished, think, held, text, surface,
                   got>>

\* A consumer breaks out of its loop at a delta.
Leave(h) == /\ pc[h] \in {"yielded", "tail"}
            /\ Goto(h, "left")
            /\ UNCHANGED <<session, surface, got, answer, error>>

Cancel(h) == /\ pc[h] = "reading"
             /\ Fail(h, "CancelledError")
             /\ UNCHANGED <<session, surface>>

\* __aexit__, which leaves the fields and the calls of the session as they are.  An
\* iterator that is suspended goes on with what httpx has taken from the connection;
\* unless that was everything, it will not find an end.
Exit == /\ ~exited
        /\ exited' = TRUE /\ closed' = TRUE
        /\ body' \in IF body = "coming" THEN {"coming", "torn"} ELSE {body}
        /\ UNCHANGED <<wire, consumed, pos, finished, think, held, text, drained, calls>>

Read(h) == ReadText(h) \/ ReadOther(h) \/ ReadScalar(h) \/ ReadEnd(h) \/ ReadFails(h)

Next == \/ Exit
        \/ \E h \in Handles : \/ \E s \in Surfaces : Start(h, s)
                              \/ Read(h)
                              \/ Resume(h) \/ Leave(h) \/ Cancel(h)

\* A pending read ends, by a line, the end or the read timeout of httpx; that
\* lines do not come for ever is what MaxLines assumes.  A consumer may keep a
\* delta as long as it likes.
Fairness == \A h \in Handles : WF_vars(Read(h))

Spec == Init /\ [][Next]_vars
FairSpec == Spec /\ Fairness
-----------------------------------------------------------------------------
(***************************************************************************)
(* Properties.                                                             *)
(***************************************************************************)
\* However the consumers interleave their calls, at most one of them is ever
\* inside _consume, so the state it assembles has a single writer.
OneReader == \A g, h \in Handles : pc[g] \in Active /\ pc[h] \in Active => g = h

\* Text is neither repeated, lost from the buffer twice, nor reordered on its
\* way through the filter's buffer, its release and flush().
InOrder == LET s == text \o held
           IN  /\ \A i, j \in 1..Len(s) : i < j => s[i] < s[j]
               /\ \A i \in 1..Len(s) : s[i] \in 1..pos

\* The deltas an iterator has delivered are the assembled text at each of its
\* yields and when it ends, the tail that flush() releases included.
DeltasAreTheText ==
    \A h \in Handles :
        surface[h] # "get_final_message" /\ pc[h] \in Active \cup {"ended"} => got[h] = text

\* The promise of StreamContract, in the states of this module.  Whether a stream
\* is whole is the provider's to say, not drained's: a response of a session that
\* was left, failed or cancelled in the middle of the body breaks the promise.
fate == IF body = "over" THEN "whole"
        ELSE IF (consumed \/ closed) /\ \A h \in Handles : pc[h] \notin Active THEN "lost"
        ELSE "open"
Contract == INSTANCE StreamContract WITH transcript <- text
ContractSpec == Contract!Spec

\* get_final_message(), which stops at no yield, always comes to an end.
FinalSettles ==
    \A h \in Handles : pc[h] = "reading" /\ surface[h] = "get_final_message"
                            ~> pc[h] \in {"ended", "failed"}

\* base.py offers text_stream + get_final_message as the legacy shape, which
\* existing call sites keep using unchanged: while no other call is reading and
\* none has failed, get_final_message assembles the rest of the stream.
FinalAssemblesTheRest ==
    [][\A h \in Handles :
          pc[h] = "new" /\ pc'[h] = "failed" /\ surface'[h] = "get_final_message" /\ ~exited
              => \E g \in Handles : pc[g] \in Active \cup {"failed"}]_vars

\* events.py says StreamDone carries the fully assembled response: one that the
\* provider has declared finished.
DoneMeansFinished ==
    \A h \in Handles : answer[h] # NoAnswer => finished
=============================================================================
