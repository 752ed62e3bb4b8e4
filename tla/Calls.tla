-------------------------------- MODULE Calls --------------------------------
(***************************************************************************)
(* Calls in flight.  Several tasks share one transport, hence one httpx    *)
(* client and its pool of connections.  Each task makes complete() and     *)
(* stream() calls, one after the other; every call runs its request under  *)
(* with_retries, and any await of it may be cancelled.                     *)
(*                                                                         *)
(* Abstracted: the request and the answer, down to the class of body that  *)
(* decides the outcome of complete(); the length of the backoff sleeps;    *)
(* the deltas of an open stream, which StreamSession describes.            *)
(***************************************************************************)
EXTENDS Errors

CONSTANTS Tasks,        \* asyncio tasks that call the transport
          Conns,        \* the connections the pool may have open at once
          MaxRetries,   \* max_retries; the code accepts any integer
          Kinds,        \* provider kinds the transport may be built for
          Statuses,     \* HTTP statuses providers answer with
          Codes,        \* error.code of the bodies of their error responses
          Nobody        \* holder of a free connection

ASSUME CallsAssumption == /\ MaxRetries \in Int
                          /\ Statuses \subseteq Int
                          /\ Codes \subseteq Int \cup {NoCode}
                          /\ Nobody \notin Tasks

VARIABLES wire,       \* the backend build_transport chose
          mode,       \* complete or stream
          pc,         \* where each task stands
          attempt,    \* with_retries' loop counter
          status,     \* resp.status_code of the current attempt, 0 before it
          outcome,    \* the exception last caught or raised, or the result
          sent,       \* requests the provider has received for this call
          holder      \* of each connection

vars == <<wire, mode, pc, attempt, status, outcome, sent, holder>>

Settled  == {"idle", "returned", "raised", "cancelled", "closed"}
Trying   == {"acquire", "await", "errbody", "backoff"}
Session  == {"open", "over"}          \* inside `async with transport.stream(..)`
Holding  == {"await", "errbody", "open"}

Nothing == Exception("none")
Answer  == Exception("answer")
Empty   == Exception("empty")
Outcomes == Exceptions \cup {Nothing, Answer, Empty}

Bodies == {"answer", "empty", "no_answer", "malformed", "malformed_inside", "not_json"}

TypeOK == /\ wire \in {"openai", "anthropic", "gemini"}
          /\ mode \in [Tasks -> {"complete", "stream"}]
          /\ pc \in [Tasks -> Settled \cup Trying \cup Session]
          /\ attempt \in [Tasks -> Nat]
          /\ status \in [Tasks -> Int]
          /\ outcome \in [Tasks -> Outcomes]
          /\ sent \in [Tasks -> Nat]
          /\ holder \in [Conns -> Tasks \cup {Nobody}]

\* Mutant: the default names a kind that is none.
build_transportMisspelt(kind) == IF kind = "openai-compatible" THEN "openai"
                                 ELSE "anthropic-compatible"

build_transport(kind) == CASE kind = "openai-compatible" -> "openai"
                           [] kind = "gemini-compatible" -> "gemini"
                           [] OTHER -> "anthropic"

Init == /\ wire \in {build_transport(kind) : kind \in Kinds}
        /\ mode = [t \in Tasks |-> "complete"]
        /\ pc = [t \in Tasks |-> "idle"]
        /\ attempt = [t \in Tasks |-> 0]
        /\ status = [t \in Tasks |-> 0]
        /\ outcome = [t \in Tasks |-> Nothing]
        /\ sent = [t \in Tasks |-> 0]
        /\ holder = [c \in Conns |-> Nobody]

Goto(t, label) == pc' = [pc EXCEPT ![t] = label]
Report(t, result) == outcome' = [outcome EXCEPT ![t] = result]
Release(t) == holder' = [c \in Conns |-> IF holder[c] = t THEN Nobody ELSE holder[c]]

(***************************************************************************)
(* The decisions of the code.                                              *)
(***************************************************************************)
\* The exception a wire raises for a status >= 400.
Refusal(code, envelope) == IF wire = "gemini" THEN google_status_error(code, envelope)
                                              ELSE status_error(code)

\* What complete() makes of the JSON of a successful response.  no_answer: an
\* object without choices / content / candidates.  malformed: not an object,
\* or its first choice / block / candidate is not one.  malformed_inside: these
\* are, but the usage or what they hold -- a tool call, a part -- is not, which
\* Gemini's wire passes over.
Parse(body) ==
    CASE body = "answer" -> Answer
      [] body = "empty" -> Empty
      [] body = "no_answer" -> IF wire = "openai" THEN Exception("TransportProtocolError")
                                                  ELSE Empty
      [] body = "malformed" -> Exception(IF wire = "anthropic" THEN "AttributeError"
                                                              ELSE "TransportProtocolError")
      [] body = "malformed_inside" -> IF wire = "gemini" THEN Answer
                                                         ELSE Exception("AttributeError")

\* Mutants: one repetition too many; the class of the failure not asked for.
GivesUpLate(t, exc) == attempt[t] > MaxRetries \/ ~is_retryable(exc)
GivesUpOnCountOnly(t, exc) == attempt[t] >= MaxRetries

GivesUp(t, exc) == attempt[t] >= MaxRetries \/ ~is_retryable(exc)

\* The except branch of with_retries: re-raise, or sleep before the next try.
Catch(t, exc) == /\ Report(t, exc)
                 /\ Goto(t, IF GivesUp(t, exc) THEN "raised" ELSE "backoff")

\* What follows the retries of complete(), outside of with_retries.
Conclude(t, result) == /\ Report(t, result)
                       /\ Goto(t, IF result \in {Answer, Empty} THEN "returned" ELSE "raised")

(***************************************************************************)
(* The caller.                                                             *)
(***************************************************************************)
Call(t) == /\ pc[t] \in Settled
           /\ \E m \in {"complete", "stream"} : mode' = [mode EXCEPT ![t] = m]
           /\ Goto(t, "acquire")
           /\ attempt' = [attempt EXCEPT ![t] = 0]
           /\ status' = [status EXCEPT ![t] = 0]
           /\ sent' = [sent EXCEPT ![t] = 0]
           /\ Report(t, Nothing)
           /\ UNCHANGED <<wire, holder>>

\* CancelledError is no Exception, so with_retries lets it through from any
\* await; the connection in use is closed on the way out.
Cancel(t) == /\ pc[t] \in Trying \cup Session
             /\ Goto(t, "cancelled")
             /\ Release(t)
             /\ UNCHANGED <<wire, mode, attempt, status, outcome, sent>>

\* Mutant: leaving a session before its end does not close the response.
ExitKeeping(t) == /\ pc[t] \in Session
                  /\ Goto(t, "closed")
                  /\ UNCHANGED <<wire, mode, attempt, status, outcome, sent, holder>>

\* __aexit__ of a stream, read to its end or not.
Exit(t) == /\ pc[t] \in Session
           /\ Goto(t, "closed")
           /\ Release(t)
           /\ UNCHANGED <<wire, mode, attempt, status, outcome, sent>>

(***************************************************************************)
(* One attempt.                                                            *)
(***************************************************************************)
Send(t) == /\ pc[t] = "acquire"
           /\ \E c \in Conns : /\ holder[c] = Nobody
                               /\ holder' = [holder EXCEPT ![c] = t]
           /\ sent' = [sent EXCEPT ![t] = @ + 1]
           /\ Goto(t, "await")
           /\ UNCHANGED <<wire, mode, attempt, status, outcome>>

\* Mutant: no time limit on the wait for a connection of the pool.
CanFailOnceSent(t) == pc[t] = "await"

\* An httpx error while waiting for the pool, connecting, or waiting for the
\* response -- its headers for a stream, all of it for complete().
CanFail(t) == pc[t] \in {"acquire", "await"}
RequestFails(t) == /\ CanFail(t)
                   /\ \E cls \in HttpxClasses : Catch(t, map_request_error(cls))
                   /\ Release(t)
                   /\ UNCHANGED <<wire, mode, attempt, status, sent>>

\* The whole response to complete() is in.
Respond(t, code, envelope, body) ==
    /\ pc[t] = "await" /\ mode[t] = "complete"
    /\ status' = [status EXCEPT ![t] = code]
    /\ Release(t)
    /\ \/ code >= 400 /\ Catch(t, Refusal(code, envelope))
       \/ code < 400 /\ body = "not_json" /\ Catch(t, Exception("JSONDecodeError"))
       \/ code < 400 /\ body # "not_json" /\ Conclude(t, Parse(body))
    /\ UNCHANGED <<wire, mode, attempt, sent>>

\* The headers of the response to stream() are in; below 400 the session opens.
Headers(t, code) ==
    /\ pc[t] = "await" /\ mode[t] = "stream"
    /\ status' = [status EXCEPT ![t] = code]
    /\ Goto(t, IF code >= 400 THEN "errbody" ELSE "open")
    /\ UNCHANGED <<wire, mode, attempt, outcome, sent, holder>>

\* aread() of an error body, then the __aexit__ of the httpx stream.
ErrorBody(t, envelope) ==
    /\ pc[t] = "errbody"
    /\ Release(t)
    /\ Catch(t, Refusal(status[t], envelope))
    /\ UNCHANGED <<wire, mode, attempt, status, sent>>

\* aread() fails.  It stands outside the try that maps httpx errors.
ErrorBodyFails(t) ==
    /\ pc[t] = "errbody"
    /\ \E cls \in HttpxClasses : Catch(t, Exception(cls))
    /\ Release(t)
    /\ UNCHANGED <<wire, mode, attempt, status, sent>>

Wake(t) == /\ pc[t] = "backoff"
           /\ attempt' = [attempt EXCEPT ![t] = @ + 1]
           /\ status' = [status EXCEPT ![t] = 0]
           /\ Goto(t, "acquire")
           /\ UNCHANGED <<wire, mode, outcome, sent, holder>>

(***************************************************************************)
(* The body of an open stream.  At its end, or when reading it fails,      *)
(* httpx gives the connection up; the session remains to be exited.        *)
(***************************************************************************)
EndOfBody(t) == /\ pc[t] = "open"
                /\ Goto(t, "over")
                /\ Release(t)
                /\ UNCHANGED <<wire, mode, attempt, status, outcome, sent>>

\* Mutant: a stream that breaks off is requested again.
BodyFailsReplaying(t) ==
    /\ pc[t] = "open"
    /\ \E cls \in HttpxClasses : Catch(t, map_request_error(cls))
    /\ Release(t)
    /\ UNCHANGED <<wire, mode, attempt, status, sent>>

BodyFails(t) == /\ pc[t] = "open"
                /\ Goto(t, "over")
                /\ \E cls \in HttpxClasses : Report(t, Exception(cls))
                /\ Release(t)
                /\ UNCHANGED <<wire, mode, attempt, status, sent>>

(***************************************************************************)
Progress(t) == \/ Send(t)
               \/ RequestFails(t)
               \/ \E code \in Statuses, envelope \in Codes, body \in Bodies :
                       Respond(t, code, envelope, body)
               \/ \E code \in Statuses : Headers(t, code)
               \/ \E envelope \in Codes : ErrorBody(t, envelope)
               \/ ErrorBodyFails(t)
               \/ Wake(t)

Step(t) == \/ Call(t) \/ Cancel(t) \/ Exit(t)
           \/ Progress(t)
           \/ EndOfBody(t) \/ BodyFails(t)

Next == \E t \in Tasks : Step(t)

\* httpx bounds each of its waits by the client's timeout and a sleep ends, so
\* a call that is trying gets on.  Nothing bounds how long a consumer keeps a
\* session open, nor obliges a task to call, exit or cancel.
Fairness == \A t \in Tasks : WF_vars(Progress(t))

Spec == Init /\ [][Next]_vars
FairSpec == Spec /\ Fairness
-----------------------------------------------------------------------------
(***************************************************************************)
(* Properties.                                                             *)
(***************************************************************************)
Budget == 1 + (IF MaxRetries > 0 THEN MaxRetries ELSE 0)

\* No call costs the provider more than its first request and max_retries
\* repetitions, whatever mixture of refusals, drops and pool timeouts it meets
\* (_retry.py: the loop of with_retries).
RequestsBounded == \A t \in Tasks : sent[t] <= Budget

\* A connection is held exactly by the calls that are waiting for a response
\* or reading one, one each: none is kept across a backoff sleep, after a
\* refused stream, or by a call that settled in whatever way.
ConnectionsAccounted ==
    /\ \A c \in Conns : holder[c] # Nobody => pc[holder[c]] \in Holding
    /\ \A t \in Tasks : pc[t] \in Holding => \E c \in Conns : holder[c] = t
    /\ \A c, d \in Conns : holder[c] = holder[d] /\ holder[c] # Nobody => c = d

\* The classification errors.py documents, stated apart from is_retryable.
WorthRetrying(exc) == \/ exc.cls \in {"TransportTimeout", "TransportConnectionError"}
                      \/ exc.cls \in StatusClasses /\ exc.status = 429
                      \/ exc.cls \in StatusClasses /\ exc.status >= 500

\* A call sleeps before another try only for a timeout, a drop, a 429 or a 5xx,
\* and gives such a failure to its caller only once its retries are spent.
RetryVerdict ==
    \A t \in Tasks :
        /\ pc[t] = "backoff" => WorthRetrying(outcome[t])
        /\ pc[t] = "raised" /\ WorthRetrying(outcome[t]) => attempt[t] >= MaxRetries

\* A refusal is reported as the last attempt met it.  Whichever status counts, that
\* of the response or of Google's envelope, who catches TransportRateLimit gets the
\* 429s and who catches TransportServerError the 5xx, as is_retryable sees them.
RefusedAsReported ==
    \A t \in Tasks : pc[t] \in {"backoff", "raised"} /\ outcome[t].cls \in StatusClasses =>
        /\ outcome[t].cls = "TransportRateLimit" <=> outcome[t].status = 429
        /\ outcome[t].cls = "TransportServerError" <=> outcome[t].status >= 500
        /\ status[t] >= 400
        /\ wire # "gemini" => outcome[t].status = status[t]

\* errors.py says TransportError is the base of every error a backend raises.
OnlyTransportErrors == \A t \in Tasks : outcome[t].cls \notin ForeignClasses

\* errors.py says timeouts and connection drops are retryable, _retry.py that
\* the first-byte phase is guarded: an httpx failure ends a call that has not
\* opened its stream only once the retries are spent.
DropsAreRetried ==
    \A t \in Tasks : pc[t] = "raised" /\ outcome[t].cls \in HttpxClasses
                        => attempt[t] >= MaxRetries

\* A call stops trying -- it returns, raises or opens its session -- even when
\* others keep every connection of the pool to themselves for ever.
Settles == \A t \in Tasks : pc[t] \in Trying ~> pc[t] \notin Trying

\* The promise of BoundedRetry, in the states of this module.
phase == [t \in Tasks |-> IF pc[t] \in Settled THEN "settled"
                          ELSE IF pc[t] \in Trying THEN "trying"
                          ELSE "delivering"]
Abstract == INSTANCE BoundedRetry
BoundedRetrySpec == Abstract!Spec
=============================================================================
