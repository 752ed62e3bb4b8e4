--------------------------- MODULE StreamContract ---------------------------
(***************************************************************************)
(* What a StreamSession promises (base.py, events.py), whatever wire is    *)
(* underneath and however many calls its consumers make on it: the answer  *)
(* text only ever grows at its end; an assembled response is handed out    *)
(* only once the provider's stream has been read to its end, it is all of  *)
(* that text, and no later one differs; a session that can no longer reach *)
(* the end never answers.                                                  *)
(***************************************************************************)
EXTENDS Naturals, Sequences, SequencesExt

CONSTANTS Handles,      \* the calls made on the session
          NoAnswer      \* a call that has returned no response

VARIABLES transcript,   \* the answer text assembled so far
          fate,         \* open, then for good whole or lost
          answer        \* the text of the response each call returned
vars == <<transcript, fate, answer>>

Fates == {"open", "whole", "lost"}

Init == /\ transcript = <<>>
        /\ fate = "open"
        /\ answer = [h \in Handles |-> NoAnswer]

Grow == /\ fate = "open"
        /\ IsPrefix(transcript, transcript')
        /\ UNCHANGED <<fate, answer>>

Lose == /\ fate = "open"
        /\ fate' = "lost"
        /\ UNCHANGED <<transcript, answer>>

\* The end of the stream may release a last piece of text, and answers the
\* call that has read up to it if that call wants a response.
Complete(h) == /\ fate = "open"
               /\ fate' = "whole"
               /\ IsPrefix(transcript, transcript')
               /\ answer' \in {answer, [answer EXCEPT ![h] = transcript']}

Answer(h) == /\ fate = "whole"
             /\ answer[h] = NoAnswer
             /\ answer' = [answer EXCEPT ![h] = transcript]
             /\ UNCHANGED <<transcript, fate>>

Next == Grow \/ Lose \/ \E h \in Handles : Complete(h) \/ Answer(h)

Spec == Init /\ [][Next]_vars
=============================================================================
