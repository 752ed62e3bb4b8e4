------------------------------- MODULE Errors -------------------------------
(***************************************************************************)
(* The exception taxonomy of llm_transport (errors.py), the two mappings   *)
(* that raise it (_http.py, and gemini_wire.py for Google envelopes), and  *)
(* the classifier that decides what is worth another request.              *)
(*                                                                         *)
(* An exception is a record: its class and, for the status errors, the     *)
(* status_code it carries (0 for every other class).  Exceptions that are  *)
(* not TransportErrors -- httpx's own, json.JSONDecodeError and            *)
(* AttributeError, which stands for TypeError too -- are in the vocabulary *)
(* because callers do meet them.                                           *)
(***************************************************************************)
EXTENDS Integers

CONSTANT NoCode     \* an error body that carries no integer error.code
ASSUME NoCodeAssumption == NoCode \notin Int

StatusClasses == {"TransportStatusError", "TransportRateLimit", "TransportServerError"}
TransportClasses == StatusClasses \cup
    {"TransportTimeout", "TransportConnectionError", "TransportProtocolError"}

\* httpx.HTTPError as the wires see it: a TimeoutException (PoolTimeout is one
\* of them) or any other transport-level failure.
HttpxClasses == {"TimeoutException", "NetworkError"}
ForeignClasses == HttpxClasses \cup {"JSONDecodeError", "AttributeError"}

Exceptions == [cls : TransportClasses \cup ForeignClasses, status : Int]
Exception(cls) == [cls |-> cls, status |-> 0]

(***************************************************************************)
(* Raising.                                                                *)
(***************************************************************************)
status_error(code) ==
    [cls |-> CASE code = 429 -> "TransportRateLimit"
               [] code >= 500 -> "TransportServerError"
               [] OTHER -> "TransportStatusError",
     status |-> code]

\* Mutant: the class is chosen before the envelope is read.
google_status_errorByResponse(code, envelope) ==
    [status_error(code) EXCEPT !.status = IF envelope = NoCode THEN code ELSE envelope]

\* Google repeats an error code inside the JSON envelope; an integer there
\* replaces the HTTP status altogether.
google_status_error(code, envelope) ==
    status_error(IF envelope = NoCode THEN code ELSE envelope)

map_request_error(cls) ==
    Exception(IF cls = "TimeoutException" THEN "TransportTimeout"
                                          ELSE "TransportConnectionError")

(***************************************************************************)
(* Classifying.                                                            *)
(***************************************************************************)
is_retryable(exc) ==
    \/ exc.cls \in {"TransportTimeout", "TransportConnectionError", "TransportProtocolError"}
    \/ exc.cls \in StatusClasses /\ (exc.status = 429 \/ exc.status >= 500)
=============================================================================
