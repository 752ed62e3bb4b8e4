----------------------------- MODULE CallsProofs -----------------------------
(***************************************************************************)
(* Theorems about Calls, for any number of tasks, connections and retries, *)
(* any kinds, statuses and envelope codes.                                 *)
(***************************************************************************)
EXTENDS Calls, TLAPS

(***************************************************************************)
(* What the decisions of the code return.                                  *)
(***************************************************************************)
\* status_error and the Google variant raise a status error of an integer
\* status (_http.py: status_error, gemini_wire.py: _google_status_error).
LEMMA RefusalType ==
    ASSUME NEW code \in Int, NEW envelope \in Int \cup {NoCode}
    PROVE  /\ Refusal(code, envelope) \in Exceptions
           /\ Refusal(code, envelope).cls \in StatusClasses
<1>1. ASSUME NEW c \in Int
      PROVE  status_error(c) \in Exceptions /\ status_error(c).cls \in StatusClasses
    BY DEF status_error, Exceptions, TransportClasses, StatusClasses
<1>2. (IF envelope = NoCode THEN code ELSE envelope) \in Int
    OBVIOUS
<1> QED BY <1>1, <1>2 DEF Refusal, google_status_error

\* map_request_error raises a timeout or a connection error (_http.py).
LEMMA MappedType ==
    ASSUME NEW cls
    PROVE  /\ map_request_error(cls) \in Exceptions
           /\ map_request_error(cls).cls \in {"TransportTimeout", "TransportConnectionError"}
BY DEF map_request_error, Exception, Exceptions, TransportClasses, StatusClasses

\* complete() turns the JSON of a successful response into a result, a
\* protocol error or an AttributeError.
LEMMA ParseType ==
    ASSUME NEW body \in Bodies, body # "not_json"
    PROVE  /\ Parse(body) \in Outcomes
           /\ Parse(body).cls \in {"answer", "empty", "TransportProtocolError", "AttributeError"}
BY DEF Parse, Bodies, Outcomes, Answer, Empty, Exception, Exceptions,
       TransportClasses, StatusClasses, ForeignClasses, HttpxClasses

\* Raw exceptions are exceptions, and Nothing is an outcome.
LEMMA ForeignType ==
    /\ Nothing \in Outcomes
    /\ \A cls \in ForeignClasses : Exception(cls) \in Exceptions
BY DEF Nothing, Outcomes, Exception, Exceptions, ForeignClasses, HttpxClasses

\* The classifier accepts what is documented, and protocol errors besides.
LEMMA Classified ==
    ASSUME NEW exc
    PROVE  is_retryable(exc) <=> WorthRetrying(exc) \/ exc.cls = "TransportProtocolError"
BY DEF is_retryable, WorthRetrying, StatusClasses

USE CallsAssumption, NoCodeAssumption
-----------------------------------------------------------------------------
(***************************************************************************)
(* Type correctness.                                                       *)
(***************************************************************************)
\* The shape of a caught exception's effect, for the lemmas on steps.
LEMMA CatchType ==
    ASSUME TypeOK, NEW t \in Tasks, NEW exc \in Exceptions, Catch(t, exc)
    PROVE  /\ outcome' \in [Tasks -> Outcomes]
           /\ pc' \in [Tasks -> Settled \cup Trying \cup Session]
BY DEF TypeOK, Catch, Report, Goto, Outcomes, Settled, Trying

LEMMA ReleaseType ==
    ASSUME TypeOK, NEW t \in Tasks, Release(t)
    PROVE  holder' \in [Conns -> Tasks \cup {Nobody}]
BY DEF TypeOK, Release

LEMMA TypeInit == Init => TypeOK
BY ForeignType DEF Init, TypeOK, build_transport, Settled

LEMMA TypeStep == TypeOK /\ [Next]_vars => TypeOK'
<1> SUFFICES ASSUME TypeOK, [Next]_vars PROVE TypeOK' OBVIOUS
<1>1. CASE UNCHANGED vars
    BY <1>1 DEF vars, TypeOK
<1>2. ASSUME NEW t \in Tasks, Step(t) PROVE TypeOK'
  <2>1. CASE Call(t)
    BY <2>1, ForeignType DEF Call, TypeOK, Goto, Report, Trying
  <2>2. CASE Cancel(t)
    BY <2>2, ReleaseType DEF Cancel, TypeOK, Goto, Settled
  <2>3. CASE Exit(t)
    BY <2>3, ReleaseType DEF Exit, TypeOK, Goto, Settled
  <2>4. CASE Send(t)
    BY <2>4 DEF Send, TypeOK, Goto, Trying
  <2>5. CASE RequestFails(t)
    BY <2>5, MappedType, CatchType, ReleaseType DEF RequestFails, TypeOK
  <2>6. ASSUME NEW code \in Statuses, NEW envelope \in Codes, NEW body \in Bodies,
               Respond(t, code, envelope, body)
        PROVE  TypeOK'
    <3>1. holder' \in [Conns -> Tasks \cup {Nobody}]
        BY <2>6, ReleaseType DEF Respond
    <3>2. /\ outcome' \in [Tasks -> Outcomes]
          /\ pc' \in [Tasks -> Settled \cup Trying \cup Session]
      <4>1. CASE code >= 400
        <5> code \in Int /\ envelope \in Int \cup {NoCode}
            OBVIOUS
        <5>1. Catch(t, Refusal(code, envelope))
            BY <2>6, <4>1 DEF Respond
        <5>2. Refusal(code, envelope) \in Exceptions
            BY RefusalType
        <5> QED BY <5>1, <5>2, CatchType
      <4>2. CASE code < 400 /\ body = "not_json"
        <5> code \in Int
            OBVIOUS
        <5>1. Catch(t, Exception("JSONDecodeError"))
            BY <2>6, <4>2 DEF Respond
        <5> QED BY <5>1, ForeignType, CatchType DEF ForeignClasses
      <4>3. CASE code < 400 /\ body # "not_json"
        <5> code \in Int
            OBVIOUS
        <5>1. Conclude(t, Parse(body))
            BY <2>6, <4>3 DEF Respond
        <5> QED BY <5>1, <4>3, ParseType DEF Conclude, Report, Goto, TypeOK, Settled
      <4> QED BY <4>1, <4>2, <4>3
    <3> QED BY <2>6, <3>1, <3>2 DEF Respond, TypeOK
  <2>7. ASSUME NEW code \in Statuses, Headers(t, code) PROVE TypeOK'
    BY <2>7 DEF Headers, TypeOK, Goto, Trying, Session
  <2>8. ASSUME NEW envelope \in Codes, ErrorBody(t, envelope) PROVE TypeOK'
    BY <2>8, RefusalType, CatchType, ReleaseType DEF ErrorBody, TypeOK
  <2>9. CASE ErrorBodyFails(t)
    BY <2>9, ForeignType, CatchType, ReleaseType DEF ErrorBodyFails, TypeOK, ForeignClasses
  <2>10. CASE Wake(t)
    BY <2>10 DEF Wake, TypeOK, Goto, Trying
  <2>11. CASE EndOfBody(t)
    BY <2>11, ReleaseType DEF EndOfBody, TypeOK, Goto, Session
  <2>12. CASE BodyFails(t)
    BY <2>12, ForeignType, ReleaseType
       DEF BodyFails, TypeOK, Goto, Report, Session, Outcomes, ForeignClasses
  <2> QED BY <1>2, <2>1, <2>2, <2>3, <2>4, <2>5, <2>6, <2>7, <2>8, <2>9, <2>10, <2>11, <2>12
          DEF Step, Progress
<1> QED BY <1>1, <1>2 DEF Next

\* Every reachable state has the shape the variables of with_retries, the
\* wires' calls and httpx's pool have.
THEOREM TypeCorrect == Spec => []TypeOK
BY TypeInit, TypeStep, PTL DEF Spec
-----------------------------------------------------------------------------
(***************************************************************************)
(* Requests are bounded.  RequestsBounded is not inductive: what bounds    *)
(* the requests is the loop counter, which runs at most one behind them.   *)
(***************************************************************************)
Accounting ==
    \A t \in Tasks :
        /\ attempt[t] < Budget
        /\ sent[t] <= attempt[t] + (IF pc[t] = "acquire" THEN 0 ELSE 1)
        /\ pc[t] = "backoff" => attempt[t] < MaxRetries
        /\ pc[t] \in {"await", "errbody"} \cup Session => sent[t] > 0

\* A try that failed leaves the call raised, or asleep with a retry in hand.
LEMMA CatchOutcome ==
    ASSUME TypeOK, NEW t \in Tasks, NEW exc, Catch(t, exc)
    PROVE  /\ \A u \in Tasks \ {t} : pc'[u] = pc[u] /\ outcome'[u] = outcome[u]
           /\ outcome'[t] = exc
           /\ \/ pc'[t] = "raised" /\ GivesUp(t, exc)
              \/ pc'[t] = "backoff" /\ attempt[t] < MaxRetries /\ is_retryable(exc)
BY DEF Catch, Report, Goto, GivesUp, TypeOK

\* The same for the whole of a response to complete(), which may also succeed.
LEMMA RespondOutcome ==
    ASSUME TypeOK, NEW t \in Tasks, NEW code \in Statuses, NEW envelope \in Codes,
           NEW body \in Bodies, Respond(t, code, envelope, body)
    PROVE  /\ \A u \in Tasks \ {t} : pc'[u] = pc[u] /\ outcome'[u] = outcome[u]
           /\ \/ pc'[t] = "backoff" /\ attempt[t] < MaxRetries /\ is_retryable(outcome'[t])
                 /\ outcome'[t].cls # "TransportProtocolError"
              \/ pc'[t] = "raised" /\ GivesUp(t, outcome'[t])
              \/ pc'[t] = "raised" /\ ~WorthRetrying(outcome'[t])
              \/ pc'[t] = "returned"
<1>1. CASE code >= 400
  <2>1. Catch(t, Refusal(code, envelope))
      BY <1>1 DEF Respond
  <2>2. Refusal(code, envelope).cls # "TransportProtocolError"
      BY RefusalType DEF StatusClasses
  <2> QED BY <2>1, <2>2, CatchOutcome
<1>2. CASE code < 400 /\ body = "not_json"
  <2>1. Catch(t, Exception("JSONDecodeError"))
      BY <1>2 DEF Respond
  <2>2. ~is_retryable(Exception("JSONDecodeError"))
      BY DEF is_retryable, Exception, StatusClasses
  <2> QED BY <2>1, <2>2, CatchOutcome
<1>3. CASE code < 400 /\ body # "not_json"
  <2>1. Conclude(t, Parse(body))
    <3> code \in Int
        OBVIOUS
    <3> QED BY <1>3 DEF Respond
  <2>2. ~WorthRetrying(Parse(body))
      BY <1>3, ParseType DEF WorthRetrying, StatusClasses
  <2> QED BY <2>1, <2>2 DEF Conclude, Report, Goto, TypeOK
<1> QED BY <1>1, <1>2, <1>3 DEF Respond

LEMMA AccountingStep == TypeOK /\ Accounting /\ [Next]_vars => Accounting'
<1> SUFFICES ASSUME TypeOK, Accounting, [Next]_vars,
                    NEW u \in Tasks
             PROVE  /\ attempt'[u] < Budget
                    /\ sent'[u] <= attempt'[u] + (IF pc'[u] = "acquire" THEN 0 ELSE 1)
                    /\ pc'[u] = "backoff" => attempt'[u] < MaxRetries
                    /\ pc'[u] \in {"await", "errbody"} \cup Session => sent'[u] > 0
    BY DEF Accounting
<1> DEFINE Fine == /\ attempt'[u] < Budget
                   /\ sent'[u] <= attempt'[u] + (IF pc'[u] = "acquire" THEN 0 ELSE 1)
                   /\ pc'[u] = "backoff" => attempt'[u] < MaxRetries
                   /\ pc'[u] \in {"await", "errbody"} \cup Session => sent'[u] > 0
<1> Budget \in Int /\ Budget > 0 /\ MaxRetries < Budget
    BY DEF Budget
<1> attempt[u] \in Nat /\ sent[u] \in Nat
    BY DEF TypeOK
<1> /\ attempt[u] < Budget
    /\ sent[u] <= attempt[u] + (IF pc[u] = "acquire" THEN 0 ELSE 1)
    /\ pc[u] = "backoff" => attempt[u] < MaxRetries
    /\ pc[u] \in {"await", "errbody"} \cup Session => sent[u] > 0
    BY DEF Accounting
<1>1. CASE UNCHANGED vars
    BY <1>1 DEF vars
<1>2. ASSUME NEW t \in Tasks, Step(t) PROVE Fine
  <2>1. CASE Call(t)
    BY <2>1 DEF Call, Goto, TypeOK, Session
  <2>2. CASE Cancel(t)
    BY <2>2 DEF Cancel, Goto, TypeOK, Session
  <2>3. CASE Exit(t)
    BY <2>3 DEF Exit, Goto, TypeOK, Session
  <2>4. CASE Send(t)
    BY <2>4 DEF Send, Goto, TypeOK, Session
  <2>5. CASE RequestFails(t)
    BY <2>5, CatchOutcome DEF RequestFails, Session
  <2>6. ASSUME NEW code \in Statuses, NEW envelope \in Codes, NEW body \in Bodies,
               Respond(t, code, envelope, body)
        PROVE  Fine
    <3>1. attempt' = attempt /\ sent' = sent /\ pc[t] = "await"
        BY <2>6 DEF Respond
    <3> QED BY <2>6, <3>1, RespondOutcome DEF Session
  <2>7. ASSUME NEW code \in Statuses, Headers(t, code) PROVE Fine
    BY <2>7 DEF Headers, Goto, TypeOK, Session
  <2>8. ASSUME NEW envelope \in Codes, ErrorBody(t, envelope) PROVE Fine
    BY <2>8, CatchOutcome DEF ErrorBody, Session
  <2>9. CASE ErrorBodyFails(t)
    BY <2>9, CatchOutcome DEF ErrorBodyFails, Session
  <2>10. CASE Wake(t)
    BY <2>10 DEF Wake, Goto, TypeOK, Session, Budget, Accounting
  <2>11. CASE EndOfBody(t)
    BY <2>11 DEF EndOfBody, Goto, TypeOK, Session
  <2>12. CASE BodyFails(t)
    BY <2>12 DEF BodyFails, Goto, TypeOK, Session
  <2> QED BY <1>2, <2>1, <2>2, <2>3, <2>4, <2>5, <2>6, <2>7, <2>8, <2>9, <2>10, <2>11, <2>12
          DEF Step, Progress
<1> QED BY <1>1, <1>2 DEF Next

LEMMA AccountingInv == Spec => []Accounting
<1>1. Init => Accounting
    BY DEF Init, Accounting, Budget, Session
<1> QED BY <1>1, TypeCorrect, AccountingStep, PTL DEF Spec

\* However many tasks call, for whatever max_retries: no call sends more than
\* max(max_retries, 0) + 1 requests.
THEOREM BoundedRequests == Spec => []RequestsBounded
<1>1. TypeOK /\ Accounting => RequestsBounded
  <2> SUFFICES ASSUME TypeOK, Accounting, NEW t \in Tasks PROVE sent[t] <= Budget
      BY DEF RequestsBounded
  <2>1. /\ attempt[t] < Budget
        /\ sent[t] <= attempt[t] + (IF pc[t] = "acquire" THEN 0 ELSE 1)
      BY DEF Accounting
  <2> QED BY <2>1 DEF TypeOK, Budget
<1> QED BY <1>1, TypeCorrect, AccountingInv, PTL
-----------------------------------------------------------------------------
(***************************************************************************)
(* Connections.  ConnectionsAccounted is inductive given TypeOK: a step of *)
(* a task either leaves its connections alone and stays on the same side   *)
(* of Holding, takes a free one and enters Holding, or leaves with none.   *)
(***************************************************************************)
LEMMA ReleaseKeepsAccount ==
    ASSUME TypeOK, ConnectionsAccounted, NEW t \in Tasks, Release(t),
           pc'[t] \notin Holding,
           \A u \in Tasks \ {t} : pc'[u] = pc[u]
    PROVE  ConnectionsAccounted'
<1>1. \A c \in Conns : holder'[c] = IF holder[c] = t THEN Nobody ELSE holder[c]
    BY DEF Release
<1>2. \A c \in Conns : holder'[c] # Nobody => holder'[c] = holder[c] /\ holder[c] \in Tasks \ {t}
    BY <1>1 DEF TypeOK
<1>3. \A c \in Conns : holder'[c] # Nobody => pc'[holder'[c]] \in Holding
    BY <1>2 DEF ConnectionsAccounted
<1>4. \A u \in Tasks : pc'[u] \in Holding => \E c \in Conns : holder'[c] = u
    BY <1>1 DEF ConnectionsAccounted
<1>5. \A c, d \in Conns : holder'[c] = holder'[d] /\ holder'[c] # Nobody => c = d
    BY <1>2 DEF ConnectionsAccounted
<1> QED BY <1>3, <1>4, <1>5 DEF ConnectionsAccounted

LEMMA ConnectionsStep == TypeOK /\ ConnectionsAccounted /\ [Next]_vars => ConnectionsAccounted'
<1> SUFFICES ASSUME TypeOK, ConnectionsAccounted, [Next]_vars PROVE ConnectionsAccounted' OBVIOUS
<1>1. CASE UNCHANGED vars
    BY <1>1 DEF vars, ConnectionsAccounted
<1>2. ASSUME NEW t \in Tasks, Step(t) PROVE ConnectionsAccounted'
  <2>1. CASE Call(t)
    BY <2>1 DEF Call, Goto, TypeOK, ConnectionsAccounted, Settled, Holding
  <2>2. CASE Cancel(t)
    BY <2>2, ReleaseKeepsAccount DEF Cancel, Goto, TypeOK, Holding
  <2>3. CASE Exit(t)
    BY <2>3, ReleaseKeepsAccount DEF Exit, Goto, TypeOK, Holding
  <2>4. CASE Send(t)
    <3>1. PICK c \in Conns : holder[c] = Nobody /\ holder' = [holder EXCEPT ![c] = t]
        BY <2>4 DEF Send
    <3>2. pc[t] = "acquire" /\ pc' = [pc EXCEPT ![t] = "await"]
        BY <2>4 DEF Send, Goto
    <3>3. \A d \in Conns : holder[d] # t
        BY <3>2 DEF ConnectionsAccounted, Holding
    <3> QED BY <3>1, <3>2, <3>3 DEF TypeOK, ConnectionsAccounted, Holding
  <2>5. CASE RequestFails(t)
    BY <2>5, MappedType, CatchOutcome, ReleaseKeepsAccount DEF RequestFails, Holding
  <2>6. ASSUME NEW code \in Statuses, NEW envelope \in Codes, NEW body \in Bodies,
               Respond(t, code, envelope, body)
        PROVE  ConnectionsAccounted'
    <3>1. Release(t)
        BY <2>6 DEF Respond
    <3>2. pc'[t] \in {"backoff", "raised", "returned"} /\ \A u \in Tasks \ {t} : pc'[u] = pc[u]
        BY <2>6, RespondOutcome
    <3> QED BY <3>1, <3>2, ReleaseKeepsAccount DEF Holding
  <2>7. ASSUME NEW code \in Statuses, Headers(t, code) PROVE ConnectionsAccounted'
    BY <2>7 DEF Headers, Goto, TypeOK, ConnectionsAccounted, Holding
  <2>8. ASSUME NEW envelope \in Codes, ErrorBody(t, envelope) PROVE ConnectionsAccounted'
    BY <2>8, CatchOutcome, ReleaseKeepsAccount DEF ErrorBody, Holding
  <2>9. CASE ErrorBodyFails(t)
    BY <2>9, CatchOutcome, ReleaseKeepsAccount DEF ErrorBodyFails, Holding
  <2>10. CASE Wake(t)
    BY <2>10 DEF Wake, Goto, TypeOK, ConnectionsAccounted, Holding
  <2>11. CASE EndOfBody(t)
    BY <2>11, ReleaseKeepsAccount DEF EndOfBody, Goto, TypeOK, Holding
  <2>12. CASE BodyFails(t)
    BY <2>12, ReleaseKeepsAccount DEF BodyFails, Goto, TypeOK, Holding
  <2> QED BY <1>2, <2>1, <2>2, <2>3, <2>4, <2>5, <2>6, <2>7, <2>8, <2>9, <2>10, <2>11, <2>12
          DEF Step, Progress
<1> QED BY <1>1, <1>2 DEF Next

\* In a pool of any size: a connection is held exactly by a call that awaits
\* or reads a response, one each, so no settled or sleeping call keeps one.
THEOREM ConnectionsNeverLeak == Spec => []ConnectionsAccounted
<1>1. Init => ConnectionsAccounted
    BY DEF Init, ConnectionsAccounted, Holding
<1> QED BY <1>1, TypeCorrect, ConnectionsStep, PTL DEF Spec
-----------------------------------------------------------------------------
(***************************************************************************)
(* The retry verdict, also inductive given TypeOK.                         *)
(***************************************************************************)
LEMMA VerdictStep == TypeOK /\ RetryVerdict /\ [Next]_vars => RetryVerdict'
<1> SUFFICES ASSUME TypeOK, RetryVerdict, [Next]_vars, NEW u \in Tasks
             PROVE  /\ pc'[u] = "backoff" => WorthRetrying(outcome'[u])
                    /\ pc'[u] = "raised" /\ WorthRetrying(outcome'[u])
                            => attempt'[u] >= MaxRetries
    BY DEF RetryVerdict, WorthRetrying
<1> DEFINE Fine == /\ pc'[u] = "backoff" => WorthRetrying(outcome'[u])
                   /\ pc'[u] = "raised" /\ WorthRetrying(outcome'[u])
                            => attempt'[u] >= MaxRetries
<1>a. /\ pc[u] = "backoff" => WorthRetrying(outcome[u])
      /\ pc[u] = "raised" /\ WorthRetrying(outcome[u]) => attempt[u] >= MaxRetries
    BY DEF RetryVerdict
<1>1. CASE UNCHANGED vars
    BY <1>1, <1>a DEF vars
<1>2. ASSUME NEW t \in Tasks, Step(t) PROVE Fine
  <2>1. CASE Call(t)
    BY <2>1, <1>a DEF Call, Goto, Report, TypeOK
  <2>2. CASE Cancel(t)
    BY <2>2, <1>a DEF Cancel, Goto, TypeOK
  <2>3. CASE Exit(t)
    BY <2>3, <1>a DEF Exit, Goto, TypeOK
  <2>4. CASE Send(t)
    BY <2>4, <1>a DEF Send, Goto, TypeOK
  <2>5. CASE RequestFails(t)
    <3>1. PICK cls \in HttpxClasses : Catch(t, map_request_error(cls))
        BY <2>5 DEF RequestFails
    <3>2. map_request_error(cls).cls # "TransportProtocolError"
        BY MappedType
    <3> QED BY <2>5, <3>1, <3>2, <1>a, CatchOutcome, Classified DEF RequestFails, GivesUp
  <2>6. ASSUME NEW code \in Statuses, NEW envelope \in Codes, NEW body \in Bodies,
               Respond(t, code, envelope, body)
        PROVE  Fine
    <3>1. attempt' = attempt
        BY <2>6 DEF Respond
    <3> QED BY <2>6, <3>1, <1>a, RespondOutcome, Classified DEF GivesUp
  <2>7. ASSUME NEW code \in Statuses, Headers(t, code) PROVE Fine
    BY <2>7, <1>a DEF Headers, Goto, TypeOK
  <2>8. ASSUME NEW envelope \in Codes, ErrorBody(t, envelope) PROVE Fine
    <3>1. Refusal(status[t], envelope).cls # "TransportProtocolError"
        BY RefusalType DEF StatusClasses, TypeOK
    <3> QED BY <2>8, <3>1, <1>a, CatchOutcome, Classified DEF ErrorBody, GivesUp
  <2>9. CASE ErrorBodyFails(t)
    <3>1. PICK cls \in HttpxClasses : Catch(t, Exception(cls))
        BY <2>9 DEF ErrorBodyFails
    <3>2. ~is_retryable(Exception(cls)) /\ ~WorthRetrying(Exception(cls))
        BY DEF is_retryable, WorthRetrying, Exception, HttpxClasses, StatusClasses
    <3> QED BY <2>9, <3>1, <3>2, <1>a, CatchOutcome DEF ErrorBodyFails
  <2>10. CASE Wake(t)
    BY <2>10, <1>a DEF Wake, Goto, TypeOK
  <2>11. CASE EndOfBody(t)
    BY <2>11, <1>a DEF EndOfBody, Goto, TypeOK
  <2>12. CASE BodyFails(t)
    BY <2>12, <1>a DEF BodyFails, Goto, Report, TypeOK
  <2> QED BY <1>2, <2>1, <2>2, <2>3, <2>4, <2>5, <2>6, <2>7, <2>8, <2>9, <2>10, <2>11, <2>12
          DEF Step, Progress
<1> QED BY <1>1, <1>2 DEF Next

\* with_retries sleeps only for what errors.py documents as retryable, and
\* surfaces such a failure only when the retries are spent.
THEOREM VerdictRespected == Spec => []RetryVerdict
<1>1. Init => RetryVerdict
    BY DEF Init, RetryVerdict
<1> QED BY <1>1, TypeCorrect, VerdictStep, PTL DEF Spec
-----------------------------------------------------------------------------
(***************************************************************************)
(* Refusals.  That the status of one is an error needs that the body of no *)
(* other response is read as an error's.                                   *)
(***************************************************************************)
\* The class of a refusal is that of the status it carries, on every wire.
LEMMA RefusalClass ==
    ASSUME NEW code \in Int, NEW envelope \in Int \cup {NoCode}
    PROVE  LET exc == Refusal(code, envelope)
           IN  /\ exc.cls = "TransportRateLimit" <=> exc.status = 429
               /\ exc.cls = "TransportServerError" <=> exc.status >= 500
               /\ wire # "gemini" => exc.status = code
<1>1. ASSUME NEW c \in Int
      PROVE  /\ status_error(c).cls = "TransportRateLimit" <=> status_error(c).status = 429
             /\ status_error(c).cls = "TransportServerError" <=> status_error(c).status >= 500
             /\ status_error(c).status = c
    BY DEF status_error
<1>2. (IF envelope = NoCode THEN code ELSE envelope) \in Int
    OBVIOUS
<1> QED BY <1>1, <1>2 DEF Refusal, google_status_error

ErrorBodiesOnly == \A t \in Tasks : pc[t] = "errbody" => status[t] >= 400

LEMMA RefusedStep ==
    TypeOK /\ ErrorBodiesOnly /\ RefusedAsReported /\ [Next]_vars
        => (ErrorBodiesOnly /\ RefusedAsReported)'
<1> SUFFICES ASSUME TypeOK, ErrorBodiesOnly, RefusedAsReported, [Next]_vars, NEW u \in Tasks
             PROVE  /\ pc'[u] = "errbody" => status'[u] >= 400
                    /\ pc'[u] \in {"backoff", "raised"} /\ outcome'[u].cls \in StatusClasses =>
                           /\ outcome'[u].cls = "TransportRateLimit" <=> outcome'[u].status = 429
                           /\ outcome'[u].cls = "TransportServerError" <=> outcome'[u].status >= 500
                           /\ status'[u] >= 400
                           /\ wire' # "gemini" => outcome'[u].status = status'[u]
    BY DEF ErrorBodiesOnly, RefusedAsReported
<1> DEFINE AsMet(exc, code) == exc.cls \in StatusClasses =>
                           /\ exc.cls = "TransportRateLimit" <=> exc.status = 429
                           /\ exc.cls = "TransportServerError" <=> exc.status >= 500
                           /\ code >= 400
                           /\ wire # "gemini" => exc.status = code
           Fine == /\ pc'[u] = "errbody" => status'[u] >= 400
                   /\ pc'[u] \in {"backoff", "raised"} => AsMet(outcome'[u], status'[u])
<1>a. /\ pc[u] = "errbody" => status[u] >= 400
      /\ pc[u] \in {"backoff", "raised"} => AsMet(outcome[u], status[u])
    BY DEF ErrorBodiesOnly, RefusedAsReported
<1>b. \A code \in Int, envelope \in Int \cup {NoCode} :
          code >= 400 => AsMet(Refusal(code, envelope), code)
    BY RefusalClass
<1>c. \A exc, code : exc.cls \notin StatusClasses => AsMet(exc, code)
    OBVIOUS
<1> HIDE DEF AsMet
<1>1. ASSUME UNCHANGED vars PROVE Fine
    BY <1>1, <1>a DEF vars
<1>2. ASSUME NEW t \in Tasks, Step(t) PROVE Fine
  <2>1. CASE Call(t)
    BY <2>1, <1>a DEF Call, Goto, Report, TypeOK
  <2>2. CASE Cancel(t)
    BY <2>2, <1>a DEF Cancel, Goto, TypeOK
  <2>3. CASE Exit(t)
    BY <2>3, <1>a DEF Exit, Goto, TypeOK
  <2>4. CASE Send(t)
    BY <2>4, <1>a DEF Send, Goto, TypeOK
  <2>5. CASE RequestFails(t)
    <3>1. PICK cls \in HttpxClasses : Catch(t, map_request_error(cls))
        BY <2>5 DEF RequestFails
    <3>2. map_request_error(cls).cls \notin StatusClasses
        BY MappedType DEF StatusClasses
    <3> QED BY <2>5, <3>1, <3>2, <1>a, <1>c, CatchOutcome DEF RequestFails
  <2>6. ASSUME NEW code \in Statuses, NEW envelope \in Codes, NEW body \in Bodies,
               Respond(t, code, envelope, body)
        PROVE  Fine
    <3>1. code \in Int /\ status' = [status EXCEPT ![t] = code] /\ status'[t] = code
        BY <2>6 DEF Respond, TypeOK
    <3>2. CASE code >= 400
      <4>1. Catch(t, Refusal(code, envelope))
          BY <2>6, <3>1, <3>2 DEF Respond
      <4> QED BY <3>1, <3>2, <4>1, <1>a, <1>b, CatchOutcome DEF TypeOK
    <3>3. CASE code < 400 /\ body = "not_json"
      <4>1. Catch(t, Exception("JSONDecodeError"))
          BY <2>6, <3>1, <3>3 DEF Respond
      <4>2. Exception("JSONDecodeError").cls \notin StatusClasses
          BY DEF Exception, StatusClasses
      <4> QED BY <3>1, <4>1, <4>2, <1>a, <1>c, CatchOutcome DEF TypeOK
    <3>4. CASE code < 400 /\ body # "not_json"
      <4>1. Conclude(t, Parse(body))
          BY <2>6, <3>1, <3>4 DEF Respond
      <4>2. Parse(body).cls \notin StatusClasses
          BY <3>4, ParseType DEF StatusClasses
      <4> QED BY <3>1, <4>1, <4>2, <1>a, <1>c DEF Conclude, Report, Goto, TypeOK
    <3> QED BY <3>1, <3>2, <3>3, <3>4
  <2>7. ASSUME NEW code \in Statuses, Headers(t, code) PROVE Fine
    BY <2>7, <1>a DEF Headers, Goto, TypeOK
  <2>8. ASSUME NEW envelope \in Codes, ErrorBody(t, envelope) PROVE Fine
    <3>1. Catch(t, Refusal(status[t], envelope)) /\ status' = status /\ pc[t] = "errbody"
        BY <2>8 DEF ErrorBody
    <3>2. status[t] \in Int /\ status[t] >= 400
        BY <3>1 DEF TypeOK, ErrorBodiesOnly
    <3> QED BY <3>1, <3>2, <1>a, <1>b, CatchOutcome
  <2>9. CASE ErrorBodyFails(t)
    <3>1. PICK cls \in HttpxClasses : Catch(t, Exception(cls))
        BY <2>9 DEF ErrorBodyFails
    <3>2. Exception(cls).cls \notin StatusClasses
        BY DEF Exception, HttpxClasses, StatusClasses
    <3> QED BY <2>9, <3>1, <3>2, <1>a, <1>c, CatchOutcome DEF ErrorBodyFails
  <2>10. CASE Wake(t)
    BY <2>10, <1>a DEF Wake, Goto, TypeOK
  <2>11. CASE EndOfBody(t)
    BY <2>11, <1>a DEF EndOfBody, Goto, TypeOK
  <2>12. CASE BodyFails(t)
    BY <2>12, <1>a DEF BodyFails, Goto, Report, TypeOK
  <2> QED BY <1>2, <2>1, <2>2, <2>3, <2>4, <2>5, <2>6, <2>7, <2>8, <2>9, <2>10, <2>11, <2>12
          DEF Step, Progress
<1>3. wire' = wire
  <2>1. ASSUME NEW t \in Tasks, Progress(t) PROVE wire' = wire
    <3>1. CASE RequestFails(t) \/ ErrorBodyFails(t) \/ Send(t) \/ Wake(t)
      BY <3>1 DEF RequestFails, ErrorBodyFails, Send, Wake
    <3>2. ASSUME NEW code \in Statuses, NEW envelope \in Codes, NEW body \in Bodies,
                 Respond(t, code, envelope, body)
          PROVE  wire' = wire
      BY <3>2 DEF Respond
    <3>3. ASSUME NEW code \in Statuses, Headers(t, code) PROVE wire' = wire
      BY <3>3 DEF Headers
    <3>4. ASSUME NEW envelope \in Codes, ErrorBody(t, envelope) PROVE wire' = wire
      BY <3>4 DEF ErrorBody
    <3> QED BY <2>1, <3>1, <3>2, <3>3, <3>4 DEF Progress
  <2>2. ASSUME NEW t \in Tasks, ~Progress(t), Step(t) PROVE wire' = wire
    BY <2>2 DEF Step, Call, Cancel, Exit, EndOfBody, BodyFails
  <2> QED BY <2>1, <2>2 DEF Next, vars
<1> QED BY <1>1, <1>2, <1>3 DEF Next, AsMet

\* with_retries, status_error and _google_status_error: a refusal surfaces as its
\* last response called for, with the class of the status that it carries.
THEOREM RefusalReported == Spec => []RefusedAsReported
<1>1. Init => ErrorBodiesOnly /\ RefusedAsReported
    BY DEF Init, ErrorBodiesOnly, RefusedAsReported
<1> QED BY <1>1, TypeCorrect, RefusedStep, PTL DEF Spec
-----------------------------------------------------------------------------
(***************************************************************************)
(* Calls implements BoundedRetry.                                          *)
(***************************************************************************)
LEMMA PhaseOf ==
    ASSUME NEW t \in Tasks
    PROVE  /\ pc[t] \in Settled => phase[t] = "settled"
           /\ pc[t] \in Trying => phase[t] = "trying"
           /\ pc[t] \in Session => phase[t] = "delivering"
BY DEF phase, Settled, Trying, Session

\* When only t moves, the abstract phase changes at t only.
LEMMA PhaseMoves ==
    ASSUME TypeOK, NEW t \in Tasks, \A u \in Tasks \ {t} : pc'[u] = pc[u]
    PROVE  /\ pc'[t] \in Settled => phase' = [phase EXCEPT ![t] = "settled"]
           /\ pc'[t] \in Trying => phase' = [phase EXCEPT ![t] = "trying"]
           /\ pc'[t] \in Session => phase' = [phase EXCEPT ![t] = "delivering"]
BY DEF phase, Settled, Trying, Session

LEMMA RefinementStep == TypeOK /\ Accounting /\ [Next]_vars => [Abstract!Next]_(Abstract!vars)
<1> SUFFICES ASSUME TypeOK, Accounting, [Next]_vars
             PROVE  [Abstract!Next]_(Abstract!vars)
    OBVIOUS
<1>1. CASE UNCHANGED vars
    BY <1>1 DEF vars, Abstract!vars, phase
<1>2. ASSUME NEW t \in Tasks, Step(t) PROVE [Abstract!Next]_(Abstract!vars)
  <2> DEFINE Quiet == UNCHANGED <<phase, sent>>
  <2> DEFINE Moves == Abstract!Call(t) \/ Abstract!Request(t)
                        \/ Abstract!Deliver(t) \/ Abstract!Settle(t)
  <2> SUFFICES Quiet \/ Moves
      BY DEF Abstract!Next, Abstract!vars
  <2>a. ASSUME pc[t] \in Trying, pc'[t] \in Trying,
               \A u \in Tasks \ {t} : pc'[u] = pc[u], sent' = sent
        PROVE  Quiet
    BY <2>a DEF phase, Settled, Trying
  <2>b. ASSUME pc[t] \in Trying \cup Session, pc'[t] \in Settled,
               \A u \in Tasks \ {t} : pc'[u] = pc[u], sent' = sent
        PROVE  Abstract!Settle(t)
    <3>1. phase[t] \in {"trying", "delivering"}
        BY <2>b, PhaseOf
    <3> QED BY <2>b, <3>1, PhaseMoves DEF Abstract!Settle
  <2>c. ASSUME pc[t] = "await" \/ pc[t] = "errbody" \/ pc[t] = "acquire",
               pc'[t] \in {"backoff", "raised", "returned"},
               \A u \in Tasks \ {t} : pc'[u] = pc[u], sent' = sent
        PROVE  Quiet \/ Moves
    BY <2>c, <2>a, <2>b DEF Trying, Settled
  <2>d. ASSUME pc[t] = "open", pc'[t] = "over",
               \A u \in Tasks \ {t} : pc'[u] = pc[u], sent' = sent
        PROVE  Quiet
    BY <2>d DEF phase, Settled, Trying
  <2>1. CASE Call(t)
    <3>1. phase[t] = "settled"
        BY <2>1, PhaseOf DEF Call
    <3>2. phase' = [phase EXCEPT ![t] = "trying"]
        BY <2>1, PhaseMoves DEF Call, Goto, TypeOK, Trying
    <3> QED BY <2>1, <3>1, <3>2 DEF Call, Abstract!Call
  <2>2. CASE Cancel(t)
    BY <2>2, <2>b DEF Cancel, Goto, TypeOK, Settled
  <2>3. CASE Exit(t)
    BY <2>3, <2>b DEF Exit, Goto, TypeOK, Settled
  <2>4. CASE Send(t)
    <3>1. pc[t] = "acquire" /\ pc' = [pc EXCEPT ![t] = "await"]
        BY <2>4 DEF Send, Goto
    <3>2. phase[t] = "trying" /\ phase' = phase
        BY <3>1, PhaseOf, PhaseMoves DEF TypeOK, Trying, phase
    <3>3. sent[t] < Budget
        BY <3>1 DEF Accounting, Budget, TypeOK
    <3> QED BY <2>4, <3>2, <3>3 DEF Send, Abstract!Request
  <2>5. CASE RequestFails(t)
    BY <2>5, <2>c, CatchOutcome DEF RequestFails, CanFail
  <2>6. ASSUME NEW code \in Statuses, NEW envelope \in Codes, NEW body \in Bodies,
               Respond(t, code, envelope, body)
        PROVE  Quiet \/ Moves
    <3>1. pc[t] = "await" /\ sent' = sent
        BY <2>6 DEF Respond
    <3> QED BY <2>6, <3>1, <2>c, RespondOutcome
  <2>7. ASSUME NEW code \in Statuses, Headers(t, code) PROVE Quiet \/ Moves
    <3>1. /\ pc[t] = "await" /\ pc' = [pc EXCEPT ![t] = IF code >= 400 THEN "errbody" ELSE "open"]
          /\ sent' = sent
        BY <2>7 DEF Headers, Goto
    <3>2. CASE code >= 400
        BY <3>1, <3>2, <2>a DEF Trying, TypeOK
    <3>3. CASE ~(code >= 400)
      <4>1. phase[t] = "trying" /\ sent[t] > 0
          BY <3>1, PhaseOf DEF Trying, Accounting
      <4>2. phase' = [phase EXCEPT ![t] = "delivering"]
          BY <3>1, <3>3, PhaseMoves DEF TypeOK, Session
      <4> QED BY <3>1, <4>1, <4>2 DEF Abstract!Deliver
    <3> QED BY <3>2, <3>3
  <2>8. ASSUME NEW envelope \in Codes, ErrorBody(t, envelope) PROVE Quiet \/ Moves
    BY <2>8, <2>c, CatchOutcome DEF ErrorBody
  <2>9. CASE ErrorBodyFails(t)
    BY <2>9, <2>c, CatchOutcome DEF ErrorBodyFails
  <2>10. CASE Wake(t)
    BY <2>10, <2>a DEF Wake, Goto, TypeOK, Trying
  <2>11. CASE EndOfBody(t)
    BY <2>11, <2>d DEF EndOfBody, Goto, TypeOK
  <2>12. CASE BodyFails(t)
    BY <2>12, <2>d DEF BodyFails, Goto, TypeOK
  <2> QED
    BY <1>2, <2>1, <2>2, <2>3, <2>4, <2>5, <2>6, <2>7, <2>8, <2>9, <2>10, <2>11, <2>12
       DEF Step, Progress
<1> QED BY <1>1, <1>2 DEF Next

\* Every behaviour of Calls is one of BoundedRetry: the requests of a call
\* stay within its budget and end when its stream opens or when it settles.
THEOREM RetriesAreBounded == Spec => BoundedRetrySpec
<1>1. Init => Abstract!Init
    BY DEF Init, Abstract!Init, phase, Settled
<1> QED BY <1>1, TypeCorrect, AccountingInv, RefinementStep, PTL
        DEF Spec, BoundedRetrySpec, Abstract!Spec
=============================================================================
