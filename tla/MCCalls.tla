------------------------------- MODULE MCCalls -------------------------------
(***************************************************************************)
(* Instances of Calls for TLC.                                             *)
(***************************************************************************)
EXTENDS Calls

CONSTANTS t1, t2, c1

MCTasks == {t1, t2}
OneTask == {t1}
OneConn == {c1}

\* A success, a caller error and a server error; envelopes without a code or
\* with one that contradicts the status, the rate limit among them.
FewStatuses == {200, 400, 503}
MCCodes == {NoCode, 400, 429}

\* In what is checked of them all, the OpenAI wire is as the Anthropic one.
TwoKinds == {"gemini-compatible", "a kind nobody knows"}
AllKinds == {"openai-compatible", "anthropic-compatible", "gemini-compatible"}
=============================================================================
