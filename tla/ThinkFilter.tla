----------------------------- MODULE ThinkFilter -----------------------------
(***************************************************************************)
(* thinkfilter.py: ThinkTagFilter fed the text of a response in pieces cut *)
(* anywhere, next to strip_think, which complete() applies to the same     *)
(* text in one go.  Text is a sequence of characters; the two tags are any *)
(* two words, so that a short alphabet can stand for the real one.         *)
(***************************************************************************)
EXTENDS Naturals, Sequences, SequencesExt

CONSTANTS Alphabet,
          Whitespace, Newline,      \* what lstrip() and lstrip("\n") remove
          Open, Close,              \* _THINK_OPEN and _THINK_CLOSE
          MaxLength,                \* bound on the text of a response
          MaxDelta                  \* bound on one piece of it

ASSUME FilterAssumption == /\ Whitespace \subseteq Alphabet
                           /\ Newline \in Whitespace
                           /\ Open \in Seq(Alphabet) /\ Open # <<>>
                           /\ Close \in Seq(Alphabet) /\ Close # <<>>
                           /\ MaxLength \in Nat /\ MaxDelta \in Nat

\* No closing tag starts in an opening one or in the white space before it.
ASSUME TagsAssumption ==
    /\ Close[1] \notin Whitespace
    /\ \A k \in 1..Len(Open) : \E j \in 1..Len(Close) :
           k + j - 1 <= Len(Open) /\ Close[j] # Open[k + j - 1]

VARIABLES state,        \* _state
          buf,          \* _buf
          flushed,      \* flush() has been called
          fed,          \* the text given to feed() so far
          out           \* the text feed() and flush() have returned so far
vars == <<state, buf, flushed, fed, out>>

TypeOK == /\ state \in {"start", "think", "pass"}
          /\ buf \in Seq(Alphabet)
          /\ flushed \in BOOLEAN
          /\ fed \in Seq(Alphabet)
          /\ out \in Seq(Alphabet)

From(s, i) == SubSeq(s, i, Len(s))

\* s.lstrip(chars)
LStrip(s, chars) == LET first == SelectInSeq(s, LAMBDA c : c \notin chars)
                    IN  IF first = 0 THEN <<>> ELSE From(s, first)

\* Where the first occurrence of word in s at or after i starts, 0 if nowhere.
Find(s, word, i) ==
    LET at == {j \in i..(Len(s) - Len(word) + 1) : IsPrefix(word, From(s, j))}
    IN  IF at = {} THEN 0 ELSE CHOOSE j \in at : \A k \in at : j <= k

(***************************************************************************)
(* strip_think: every block goes, an unterminated one to the end of text;  *)
(* newlines then in front go too, unless there was no tag at all.          *)
(***************************************************************************)
\* What re.sub leaves of s from each position on.
Kept(s) ==
    LET rest[i \in 1..(Len(s) + Len(Open) + Len(Close))] ==
            IF i > Len(s) THEN <<>>
            ELSE IF ~IsPrefix(Open, From(s, i)) THEN <<s[i]>> \o rest[i + 1]
            ELSE LET end == Find(s, Close, i + Len(Open))
                 IN  IF end = 0 THEN <<>> ELSE rest[end + Len(Close)]
    IN  rest

strip_think(s) == IF Find(s, Open, 1) = 0 THEN s ELSE LStrip(Kept(s)[1], {Newline})

(***************************************************************************)
(* The filter.                                                             *)
(***************************************************************************)
Init == /\ state = "start"
        /\ buf = <<>>
        /\ flushed = FALSE
        /\ fed = <<>>
        /\ out = <<>>

Emit(s) == out' = out \o s

\* An opening tag may yet come; nothing but white space counts as undecided.
Undecided(s) == LET probe == LStrip(s, Whitespace)
                IN  IsStrictPrefix(probe, Open)
Opens(s) == IsPrefix(Open, LStrip(s, Whitespace))

\* Mutant: the closing tag taken for one character shorter than it is.
RemainderTooLong(s, end) == LStrip(From(s, end + Len(Close) - 1), {Newline})

\* What is left of the buffer behind the closing tag at end.
Remainder(s, end) == LStrip(From(s, end + Len(Close)), {Newline})

Pass(delta) == /\ state = "pass"
               /\ Emit(delta)
               /\ UNCHANGED <<state, buf>>

\* Mutant: what may be half a tag comes out at once.
HoldLeaking(delta) == /\ state = "start"
                      /\ Undecided(buf \o delta)
                      /\ buf' = buf \o delta
                      /\ Emit(delta)
                      /\ UNCHANGED state

Hold(delta) == /\ state = "start"
               /\ Undecided(buf \o delta)
               /\ buf' = buf \o delta
               /\ UNCHANGED <<state, out>>

\* Mutant: the new piece overtakes the buffer.
ResolveSwapped(delta) == /\ state = "start"
                         /\ ~Undecided(buf \o delta)
                         /\ ~Opens(buf \o delta)
                         /\ state' = "pass"
                         /\ Emit(delta \o buf)
                         /\ buf' = <<>>

\* The response does not open with a tag: all of the buffer is text.
Resolve(delta) == /\ state = "start"
                  /\ ~Undecided(buf \o delta)
                  /\ ~Opens(buf \o delta)
                  /\ state' = "pass"
                  /\ Emit(buf \o delta)
                  /\ buf' = <<>>

\* Inside the block, or just entering it: text comes out behind its end only.
Think(delta) == LET s == buf \o delta
                    end == Find(s, Close, 1)
                IN  /\ state = "think" \/ (state = "start" /\ Opens(s))
                    /\ \/ /\ end = 0
                          /\ state' = "think"
                          /\ buf' = s
                          /\ UNCHANGED out
                       \/ /\ end # 0
                          /\ state' = "pass"
                          /\ buf' = <<>>
                          /\ Emit(Remainder(s, end))

feed(delta) == /\ ~flushed
               /\ Len(fed) + Len(delta) <= MaxLength
               /\ Pass(delta) \/ Hold(delta) \/ Resolve(delta) \/ Think(delta)
               /\ fed' = fed \o delta
               /\ UNCHANGED flushed

\* Mutant: flush() forgets the buffer.
flushNothing == /\ ~flushed
                /\ flushed' = TRUE
                /\ buf' = <<>>
                /\ UNCHANGED <<state, fed, out>>

\* Mutant: flush() leaves a state that is none.
flushMisspelt == /\ ~flushed
                 /\ flushed' = TRUE
                 /\ state' = "passed"
                 /\ UNCHANGED <<buf, fed, out>>

\* The end of the stream: a buffer that never resolved is text after all.
flush == /\ ~flushed
         /\ flushed' = TRUE
         /\ \/ /\ state = "start"
               /\ Emit(buf)
               /\ buf' = <<>>
               /\ state' = "pass"
            \/ /\ state # "start"
               /\ UNCHANGED <<state, buf, out>>
         /\ UNCHANGED fed

Deltas == {s \in SeqOf(Alphabet, MaxDelta) : s # <<>>}

Next == flush \/ \E delta \in Deltas : feed(delta)

Spec == Init /\ [][Next]_vars
-----------------------------------------------------------------------------
(***************************************************************************)
(* Properties.                                                             *)
(***************************************************************************)
\* As long as it is open whether the response starts with a tag, or its block
\* is open, nothing has come out, and the buffer has all of the text.
QuietUntilResolved == state # "pass" => out = <<>> /\ buf = fed

\* Wherever the pieces are cut, what comes out is the end of what went in:
\* nothing is repeated, reordered or dropped from the middle.
OutputIsSuffix == \E i \in 1..(Len(fed) + 1) : out = From(fed, i)

\* Text that does not open with a tag comes out whole once the stream ends,
\* be it blank or half a tag; of a block, no reasoning and no piece of a tag
\* comes out, and of what follows it nothing but newlines is lost.
LeadingBlock(s) == Opens(s)
AfterBlock(s) == LET end == Find(s, Close, 1)
                 IN  IF end = 0 THEN <<>> ELSE From(s, end + Len(Close))
HidesOnlyTheBlock ==
    flushed => IF LeadingBlock(fed)
               THEN LStrip(out, {Newline}) = LStrip(AfterBlock(fed), {Newline})
               ELSE out = fed

\* With a single, leading block the filter and strip_think leave the same
\* answer but for white space in front.
OneLeadingBlock(s) == LeadingBlock(s) /\ Find(AfterBlock(s), Open, 1) = 0
SameAnswer == flushed /\ OneLeadingBlock(fed)
                 => LStrip(out, Whitespace) = LStrip(strip_think(fed), Whitespace)

\* thinkfilter.py calls the filter the streaming counterpart of strip_think:
\* of a response that is one block and what follows, the same text comes out.
StreamingCounterpart ==
    flushed /\ IsPrefix(Open, fed) /\ OneLeadingBlock(fed) => out = strip_think(fed)
=============================================================================
