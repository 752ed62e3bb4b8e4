------------------------- MODULE StreamSessionProofs -------------------------
(***************************************************************************)
(* Theorems about StreamSession, for any set of calls on a session and a   *)
(* stream of any length.                                                   *)
(***************************************************************************)
EXTENDS StreamSession, TLAPS

USE SessionAssumption

\* What ThinkTagFilter.feed may do keeps the types of the filter and returns a
\* sequence of positions.
LEMMA FeedType ==
    ASSUME TypeOK, NEW p \in Nat, NEW effect \in Feed(p)
    PROVE  /\ effect.state \in {"start", "think", "pass"}
           /\ effect.held \in Seq(Nat)
           /\ effect.out \in Seq(Nat)
<1>1. <<p>> \in Seq(Nat) /\ Append(held, p) \in Seq(Nat) /\ <<>> \in Seq(Nat)
    BY DEF TypeOK
<1>2. \E state \in {"start", "think", "pass"}, keep \in {<<>>, Append(held, p)},
           out \in {<<>>, <<p>>, Append(held, p)} : effect = Effect(state, keep, out)
    BY DEF Feed
<1>4. PICK state \in {"start", "think", "pass"}, keep \in {<<>>, Append(held, p)},
           out \in {<<>>, <<p>>, Append(held, p)} : effect = Effect(state, keep, out)
    BY <1>2
<1>5. keep \in Seq(Nat) /\ out \in Seq(Nat)
    BY <1>1
<1>6. effect.state = state /\ effect.held = keep /\ effect.out = out
    BY <1>4 DEF Effect
<1> QED BY <1>5, <1>6

\* Delivering assembles and hands over the same piece of text.
LEMMA DeliverType ==
    ASSUME TypeOK, NEW h \in Handles, NEW out \in Seq(Nat), Deliver(h, out)
    PROVE  text' \in Seq(Nat) /\ got' \in [Handles -> Seq(Nat)]
<1>1. text \o out \in Seq(Nat) /\ got[h] \o out \in Seq(Nat)
    BY DEF TypeOK
<1> QED BY <1>1 DEF Deliver, TypeOK

LEMMA TypeInit == Init => TypeOK
<1> SUFFICES ASSUME Init PROVE TypeOK OBVIOUS
<1>1. <<>> \in Seq(Nat) /\ [h \in Handles |-> <<>>] \in [Handles -> Seq(Nat)]
    OBVIOUS
<1>2. think \in {"start", "think", "pass"} /\ pos \in Nat
    BY DEF Init
<1> QED BY <1>1, <1>2 DEF Init, TypeOK, Surfaces, Labels, Errors, Bodies

\* A line read moves pos on and may be the one that finishes the answer.
LEMMA LineType ==
    ASSUME TypeOK, NEW h \in Handles, Line(h)
    PROVE  pos' \in Nat /\ pos + 1 \in Nat /\ pos' = pos + 1
BY DEF TypeOK, Line

LEMMA TypeStep == TypeOK /\ [Next]_vars => TypeOK'
<1> SUFFICES ASSUME TypeOK, [Next]_vars PROVE TypeOK' OBVIOUS
<1>1. CASE UNCHANGED vars
    BY <1>1 DEF vars, session, calls, TypeOK
<1>2. CASE Exit
    BY <1>2 DEF Exit, calls, TypeOK, Bodies
<1>3. ASSUME NEW h \in Handles, NEW s \in Surfaces, Start(h, s) PROVE TypeOK'
    BY <1>3 DEF Start, Return, Fail, Goto, TypeOK, Labels, Active, Errors
<1>4. ASSUME NEW h \in Handles, ReadText(h) PROVE TypeOK'
  <2>1. pos' \in Nat /\ pos + 1 \in Nat
      BY <1>4, LineType DEF ReadText
  <2>2. PICK effect \in Feed(pos + 1) :
             /\ think' = effect.state
             /\ held' = effect.held
             /\ Deliver(h, effect.out)
             /\ Goto(h, IF effect.out = <<>> THEN "reading" ELSE AtYield(h, "yielded"))
      BY <1>4 DEF ReadText
  <2>3. /\ effect.state \in {"start", "think", "pass"}
        /\ effect.held \in Seq(Nat)
        /\ effect.out \in Seq(Nat)
      BY <2>1, FeedType
  <2>4. text' \in Seq(Nat) /\ got' \in [Handles -> Seq(Nat)]
      BY <2>2, <2>3, DeliverType
  <2>5. pc' \in [Handles -> Labels]
      BY <2>2 DEF Goto, AtYield, TypeOK, Labels, Active
  <2>6. finished' \in BOOLEAN
      BY <1>4, Zenon DEF ReadText, TypeOK
  <2> QED BY <1>4, <2>1, <2>2, <2>3, <2>4, <2>5, <2>6 DEF ReadText, TypeOK
<1>5. ASSUME NEW h \in Handles, ReadOther(h) PROVE TypeOK'
  <2>1. finished' \in BOOLEAN
      BY <1>5, Zenon DEF ReadOther, TypeOK
  <2>2. pos' \in Nat
      BY <1>5, LineType DEF ReadOther
  <2> QED BY <1>5, <2>1, <2>2, Zenon DEF ReadOther, calls, TypeOK
<1>6. ASSUME NEW h \in Handles, ReadScalar(h) PROVE TypeOK'
  <2>1. pos' \in Nat
      BY <1>6, LineType DEF ReadScalar
  <2>2. /\ pc' \in [Handles -> Labels]
        /\ got' \in [Handles -> Seq(Nat)]
        /\ answer' \in [Handles -> Seq(Nat) \cup {NoAnswer}]
        /\ error' \in [Handles -> Errors]
      BY <1>6 DEF ReadScalar, Fail, Goto, TypeOK, Labels, Errors
  <2> QED BY <1>6, <2>1, <2>2, Zenon DEF ReadScalar, TypeOK
<1>7. ASSUME NEW h \in Handles, ReadEnd(h) PROVE TypeOK'
  <2>1. Flushed \in Seq(Nat)
      BY DEF Flushed, TypeOK
  <2>2. text' \in Seq(Nat) /\ got' \in [Handles -> Seq(Nat)]
      BY <1>7, <2>1, DeliverType DEF ReadEnd
  <2>3. /\ pc' \in [Handles -> Labels]
        /\ answer' \in [Handles -> Seq(Nat) \cup {NoAnswer}]
        /\ error' \in [Handles -> Errors]
      BY <1>7, <2>2 DEF ReadEnd, Return, Goto, TypeOK, Labels, Active
  <2>4. closed' \in BOOLEAN /\ drained' \in BOOLEAN /\ body' \in Bodies
      BY <1>7, Zenon DEF ReadEnd, TypeOK, Bodies
  <2>5. think' \in {"start", "think", "pass"} /\ held' \in Seq(Nat)
      BY <1>7 DEF ReadEnd, TypeOK
  <2> QED BY <1>7, <2>2, <2>3, <2>4, <2>5 DEF ReadEnd, TypeOK
<1>8. ASSUME NEW h \in Handles, ReadFails(h) PROVE TypeOK'
    BY <1>8 DEF ReadFails, Fail, Goto, session, TypeOK, Labels, Errors
<1>9. ASSUME NEW h \in Handles, Resume(h) PROVE TypeOK'
    BY <1>9 DEF Resume, Return, Goto, TypeOK, Labels, Active
<1>10. ASSUME NEW h \in Handles, Leave(h) PROVE TypeOK'
    BY <1>10 DEF Leave, Goto, session, TypeOK, Labels
<1>11. ASSUME NEW h \in Handles, Cancel(h) PROVE TypeOK'
    BY <1>11 DEF Cancel, Fail, Goto, session, TypeOK, Labels, Errors
<1> QED BY <1>1, <1>2, <1>3, <1>4, <1>5, <1>6, <1>7, <1>8, <1>9, <1>10, <1>11 DEF Next, Read

\* Every reachable state has the shape the streams' fields, httpx's flags and
\* the calls' positions have.
THEOREM TypeCorrect == Spec => []TypeOK
BY TypeInit, TypeStep, PTL DEF Spec
-----------------------------------------------------------------------------
(***************************************************************************)
(* One reader.  The flag httpx keeps on the response is what excludes a    *)
(* second one: whoever is inside _consume has set it, and it is never      *)
(* cleared.  The rest relates the calls to the body, to drained and to the *)
(* text: a reader is at the tail when the body is over, before that it is  *)
(* not, and nothing counts as drained that is not over.                    *)
(***************************************************************************)
ReaderInv ==
    /\ OneReader
    /\ \A h \in Handles : pc[h] \in Active => consumed /\ ~drained
    /\ \A h \in Handles : pc[h] = "ended" => drained
    /\ \A h \in Handles : pc[h] = "new" => got[h] = <<>>
    /\ \A h \in Handles : pc[h] \in Active \cup {"new"} => answer[h] = NoAnswer
    /\ \A h \in Handles : /\ pc[h] \in {"reading", "yielded"} => body # "over"
                          /\ pc[h] = "tail" => body = "over"
    /\ ~consumed => text = <<>>
    /\ drained => body = "over"
    /\ body = "over" => consumed

\* Every step of a call moves that call alone.
LEMMA OthersStay ==
    ASSUME TypeOK, NEW h \in Handles, NEW label, Goto(h, label)
    PROVE  pc'[h] = label /\ \A g \in Handles \ {h} : pc'[g] = pc[g]
BY DEF Goto, TypeOK

LEMMA DeliverGot ==
    ASSUME TypeOK, NEW h \in Handles, NEW out \in Seq(Nat), Deliver(h, out)
    PROVE  /\ text' = text \o out
           /\ \A g \in Handles \ {h} : got'[g] = got[g]
           /\ surface[h] # "get_final_message" => got'[h] = got[h] \o out
BY DEF Deliver, TypeOK

LEMMA ReaderStep == TypeOK /\ ReaderInv /\ [Next]_vars => ReaderInv'
<1> SUFFICES ASSUME TypeOK, ReaderInv, [Next]_vars PROVE ReaderInv' OBVIOUS
<1> USE DEF ReaderInv, OneReader, Active
<1>1. CASE UNCHANGED vars
    BY <1>1 DEF vars, session, calls
<1>2. CASE Exit
    BY <1>2 DEF Exit, calls
<1>3. ASSUME NEW h \in Handles, NEW s \in Surfaces, Start(h, s) PROVE ReaderInv'
  <2>1. pc[h] = "new" /\ UNCHANGED <<body, drained, text>>
      BY <1>3 DEF Start
  <2>2. CASE Assembles(s)
    <3>1. /\ pc' = [pc EXCEPT ![h] = "ended"] /\ drained /\ UNCHANGED <<consumed, got>>
          /\ answer' = [answer EXCEPT ![h] = text]
        BY <1>3, <2>2 DEF Start, Return, Goto, Assembles
    <3> QED BY <2>1, <3>1 DEF TypeOK
  <2>3. CASE ~Assembles(s) /\ CanRead
    <3>1. /\ pc' = [pc EXCEPT ![h] = "reading"] /\ consumed' = TRUE /\ ~consumed
          /\ UNCHANGED <<got, answer>>
        BY <1>3, <2>3 DEF Start, Goto, CanRead
    <3> QED BY <2>1, <3>1 DEF TypeOK
  <2>4. CASE ~Assembles(s) /\ ~CanRead
    <3>1. pc' = [pc EXCEPT ![h] = "failed"] /\ UNCHANGED <<consumed, got, answer>>
        BY <1>3, <2>4 DEF Start, Fail, Goto
    <3> QED BY <2>1, <3>1 DEF TypeOK
  <2> QED BY <2>2, <2>3, <2>4
<1>4. ASSUME NEW h \in Handles, ReadText(h) PROVE ReaderInv'
  <2>1. /\ pc[h] = "reading" /\ consumed /\ ~drained
        /\ UNCHANGED <<consumed, body, drained, answer>>
      BY <1>4 DEF ReadText, Line
  <2>2. PICK label \in {"reading", "yielded"} : Goto(h, label)
      BY <1>4 DEF ReadText, AtYield
  <2>3. \A g \in Handles \ {h} : got'[g] = got[g]
      BY <1>4 DEF ReadText, Deliver, TypeOK
  <2> QED BY <2>1, <2>2, <2>3, OthersStay
<1>5. ASSUME NEW h \in Handles, ReadOther(h) PROVE ReaderInv'
    BY <1>5 DEF ReadOther, calls
<1>6. ASSUME NEW h \in Handles, ReadScalar(h) PROVE ReaderInv'
  <2>1. pc[h] = "reading" /\ UNCHANGED <<consumed, body, drained, text, got, answer>>
      BY <1>6 DEF ReadScalar, Line, Fail
  <2>2. pc' = pc \/ Goto(h, "failed")
      BY <1>6 DEF ReadScalar, Fail
  <2> QED BY <2>1, <2>2, OthersStay
<1>7. ASSUME NEW h \in Handles, ReadEnd(h) PROVE ReaderInv'
  <2>1. /\ pc[h] = "reading" /\ consumed /\ ~drained /\ UNCHANGED consumed /\ body' = "over"
        /\ \/ Goto(h, "tail") /\ UNCHANGED <<drained, answer>>
           \/ /\ Goto(h, "ended") /\ drained' = TRUE
              /\ answer' \in {answer, [answer EXCEPT ![h] = text']}
      BY <1>7 DEF ReadEnd, Return
  <2>2. \A g \in Handles \ {h} : got'[g] = got[g]
      BY <1>7 DEF ReadEnd, Deliver, TypeOK
  <2>3. \A g \in Handles \ {h} : answer'[g] = answer[g]
      BY <2>1 DEF TypeOK
  <2> QED BY <2>1, <2>2, <2>3, OthersStay
<1>8. ASSUME NEW h \in Handles, ReadFails(h) PROVE ReaderInv'
    BY <1>8, OthersStay DEF ReadFails, Fail, session
<1>9. ASSUME NEW h \in Handles, Resume(h) PROVE ReaderInv'
  <2>1. UNCHANGED <<consumed, body, text, got>>
      BY <1>9 DEF Resume
  <2>2. CASE pc[h] = "yielded"
    BY <1>9, <2>1, <2>2, OthersStay DEF Resume
  <2>3. CASE pc[h] = "tail"
    <3>1. /\ Goto(h, "ended") /\ drained' = TRUE
          /\ answer' \in {answer, [answer EXCEPT ![h] = text]}
        BY <1>9, <2>3 DEF Resume, Return
    <3>2. \A g \in Handles \ {h} : answer'[g] = answer[g]
        BY <3>1 DEF TypeOK
    <3> QED BY <2>1, <2>3, <3>1, <3>2, OthersStay
  <2> QED BY <1>9, <2>2, <2>3 DEF Resume
<1>10. ASSUME NEW h \in Handles, Leave(h) PROVE ReaderInv'
    BY <1>10, OthersStay DEF Leave, session
<1>11. ASSUME NEW h \in Handles, Cancel(h) PROVE ReaderInv'
    BY <1>11, OthersStay DEF Cancel, Fail, session
<1> QED BY <1>1, <1>2, <1>3, <1>4, <1>5, <1>6, <1>7, <1>8, <1>9, <1>10, <1>11 DEF Next, Read

LEMMA ReaderInvariant == Spec => []ReaderInv
<1>1. Init => ReaderInv
    BY DEF Init, ReaderInv, OneReader, Active
<1> QED BY <1>1, TypeCorrect, ReaderStep, PTL DEF Spec

\* Of any number of calls on a session, made by any tasks, at most one reads
\* the response and assembles the answer.
THEOREM SingleReader == Spec => []OneReader
<1>1. ReaderInv => OneReader
    BY DEF ReaderInv
<1> QED BY <1>1, ReaderInvariant, PTL
-----------------------------------------------------------------------------
(***************************************************************************)
(* The deltas of an iterator are the text: the one reader appends the same *)
(* piece to both, and nobody appends to the text once it has ended.        *)
(***************************************************************************)
LEMMA DeltasStep == TypeOK /\ ReaderInv /\ DeltasAreTheText /\ [Next]_vars => DeltasAreTheText'
<1> SUFFICES ASSUME TypeOK, ReaderInv, DeltasAreTheText, [Next]_vars,
                    NEW g \in Handles,
                    surface'[g] # "get_final_message",
                    pc'[g] \in Active \cup {"ended"}
             PROVE  got'[g] = text'
    BY DEF DeltasAreTheText
<1> USE DEF ReaderInv, OneReader, Active
<1>0. surface[g] # "get_final_message" /\ pc[g] \in Active \cup {"ended"} => got[g] = text
    BY DEF DeltasAreTheText
\* A step that assembles nothing, of a call h that was inside _consume.
<1>a. ASSUME NEW h \in Handles, NEW label, pc[h] \in Active, Goto(h, label),
             UNCHANGED <<surface, got, text>>
      PROVE  got'[g] = text'
    BY <1>a, <1>0, OthersStay
\* One that assembles out.
<1>b. ASSUME NEW h \in Handles, NEW label, NEW out \in Seq(Nat), pc[h] = "reading",
             Goto(h, label), Deliver(h, out), UNCHANGED surface
      PROVE  got'[g] = text'
  <2>1. CASE g = h
    <3>1. surface[h] # "get_final_message" /\ got[h] = text
        BY <1>b, <2>1, <1>0
    <3>2. text' = text \o out /\ got'[h] = got[h] \o out
        BY <1>b, <3>1, DeliverGot
    <3> QED BY <2>1, <3>1, <3>2
  <2>2. CASE g # h
    BY <1>b, <2>2, OthersStay
  <2> QED BY <2>1, <2>2
<1>1. CASE UNCHANGED vars
    BY <1>1, <1>0 DEF vars, session, calls
<1>2. CASE Exit
    BY <1>2, <1>0 DEF Exit, calls
<1>3. ASSUME NEW h \in Handles, NEW s \in Surfaces, Start(h, s) PROVE got'[g] = text'
  <2>1. pc[h] = "new" /\ text' = text /\ got' = got /\ surface' = [surface EXCEPT ![h] = s]
      BY <1>3 DEF Start, Fail
  <2>2. CASE g # h
    <3>1. surface'[g] = surface[g] /\ pc'[g] = pc[g]
        BY <1>3, <2>1, <2>2 DEF Start, Return, Fail, Goto, TypeOK
    <3> QED BY <2>1, <3>1, <1>0
  <2>3. CASE g = h /\ Assembles(s)
    BY <2>1, <2>3 DEF Assembles, TypeOK
  <2>4. CASE g = h /\ ~Assembles(s) /\ CanRead
    BY <2>1, <2>4 DEF CanRead
  <2>5. CASE g = h /\ ~Assembles(s) /\ ~CanRead
    <3>1. pc'[h] = "failed"
        BY <1>3, <2>5 DEF Start, Fail, Goto, TypeOK
    <3> QED BY <2>5, <3>1
  <2> QED BY <2>2, <2>3, <2>4, <2>5
<1>4. ASSUME NEW h \in Handles, ReadText(h) PROVE got'[g] = text'
  <2>1. pc[h] = "reading" /\ pos + 1 \in Nat /\ surface' = surface
      BY <1>4 DEF ReadText, Line, TypeOK
  <2>2. PICK effect \in Feed(pos + 1) :
             /\ Deliver(h, effect.out)
             /\ Goto(h, IF effect.out = <<>> THEN "reading" ELSE AtYield(h, "yielded"))
      BY <1>4 DEF ReadText
  <2>3. effect.out \in Seq(Nat)
      BY <2>1, FeedType
  <2> QED BY <2>1, <2>2, <2>3, <1>b
<1>5. ASSUME NEW h \in Handles, ReadOther(h) PROVE got'[g] = text'
    BY <1>5, <1>0 DEF ReadOther, calls
<1>6. ASSUME NEW h \in Handles, ReadScalar(h) PROVE got'[g] = text'
  <2>1. pc[h] = "reading" /\ UNCHANGED <<surface, got, text>>
      BY <1>6 DEF ReadScalar, Line, Fail
  <2>2. pc' = pc \/ Goto(h, "failed")
      BY <1>6 DEF ReadScalar, Fail
  <2> QED BY <2>1, <2>2, <1>0, <1>a
<1>7. ASSUME NEW h \in Handles, ReadEnd(h) PROVE got'[g] = text'
  <2>1. Flushed \in Seq(Nat)
      BY DEF Flushed, TypeOK
  <2>2. pc[h] = "reading" /\ Deliver(h, Flushed) /\ UNCHANGED surface
      BY <1>7 DEF ReadEnd
  <2>3. Goto(h, "tail") \/ Goto(h, "ended")
      BY <1>7 DEF ReadEnd, Return
  <2> QED BY <2>1, <2>2, <2>3, <1>b
<1>8. ASSUME NEW h \in Handles, ReadFails(h) PROVE got'[g] = text'
    BY <1>8, <1>a DEF ReadFails, Fail, session
<1>9. ASSUME NEW h \in Handles, Resume(h) PROVE got'[g] = text'
    BY <1>9, <1>a DEF Resume, Return
<1>10. ASSUME NEW h \in Handles, Leave(h) PROVE got'[g] = text'
    BY <1>10, <1>a DEF Leave, session
<1>11. ASSUME NEW h \in Handles, Cancel(h) PROVE got'[g] = text'
    BY <1>11, <1>a DEF Cancel, Fail, session
<1> QED BY <1>1, <1>2, <1>3, <1>4, <1>5, <1>6, <1>7, <1>8, <1>9, <1>10, <1>11 DEF Next, Read

\* What text_stream and events() deliver, put together, is the text of the
\* assembled response -- held-back text and the flushed tail included.
THEOREM DeltasAssemble == Spec => []DeltasAreTheText
<1>1. Init => DeltasAreTheText
    BY DEF Init, DeltasAreTheText, Active
<1> QED BY <1>1, TypeCorrect, ReaderInvariant, DeltasStep, PTL DEF Spec
-----------------------------------------------------------------------------
(***************************************************************************)
(* StreamSession implements StreamContract.                                *)
(***************************************************************************)
LEMMA PrefixOfConcat ==
    ASSUME NEW s \in Seq(Nat), NEW t \in Seq(Nat) PROVE Contract!IsPrefix(s, s \o t)
<1>1. Len(s \o t) = Len(s) + Len(t) /\ Len(s) \in Nat /\ Len(t) \in Nat /\ s \o t \in Seq(Nat)
    OBVIOUS
<1>2. SubSeq(s, 1, Len(s)) = SubSeq(s \o t, 1, Len(s))
  <2>1. Len(SubSeq(s, 1, Len(s))) = Len(s) /\ Len(SubSeq(s \o t, 1, Len(s))) = Len(s)
      BY <1>1
  <2>2. \A i \in 1..Len(s) : SubSeq(s, 1, Len(s))[i] = SubSeq(s \o t, 1, Len(s))[i]
      BY <1>1
  <2> QED BY <1>1, <2>1, <2>2
<1> QED BY <1>1, <1>2 DEF Contract!IsPrefix

\* While somebody is inside _consume the end of the stream can be reached, or is
\* behind the one who is at the tail.
LEMMA FateOfReader ==
    ASSUME ReaderInv, NEW h \in Handles
    PROVE  /\ pc[h] \in {"reading", "yielded"} => fate = "open"
           /\ pc[h] = "tail" => fate = "whole"
BY DEF ReaderInv, fate, Active

\* When the only reader stops before the end, it cannot any more.
LEMMA FateWithoutReader ==
    ASSUME TypeOK, ReaderInv, NEW h \in Handles, pc[h] \in {"reading", "yielded"},
           NEW label \in {"failed", "left"}, Goto(h, label),
           UNCHANGED <<consumed, body>>
    PROVE  fate' = "lost"
<1>1. consumed' /\ body' # "over"
    BY DEF ReaderInv, Active
<1>2. \A g \in Handles : pc'[g] \notin Active
    BY OthersStay DEF ReaderInv, OneReader, Active
<1> QED BY <1>1, <1>2 DEF fate

LEMMA FateKept ==
    ASSUME TypeOK, NEW h \in Handles, NEW label, Goto(h, label),
           pc[h] \in Active <=> label \in Active,
           (consumed \/ closed) = (consumed \/ closed)',
           UNCHANGED body
    PROVE  fate' = fate
<1>1. (\A g \in Handles : pc'[g] \notin Active) <=> (\A g \in Handles : pc[g] \notin Active)
    BY OthersStay
<1> QED BY <1>1 DEF fate

LEMMA ContractStep ==
    TypeOK /\ ReaderInv /\ ReaderInv' /\ [Next]_vars => [Contract!Next]_(Contract!vars)
<1> SUFFICES ASSUME TypeOK, ReaderInv, ReaderInv', [Next]_vars
             PROVE  Contract!Next \/ UNCHANGED <<text, fate, answer>>
    BY DEF Contract!vars
<1> DEFINE Stutter == UNCHANGED <<text, fate, answer>>
<1> text \in Seq(Nat) /\ <<>> \in Seq(Nat)
    BY DEF TypeOK
\* The reader reads on.
<1>a. ASSUME NEW h \in Handles, pc[h] \in {"reading", "yielded"},
             NEW label \in {"reading", "yielded"}, Goto(h, label),
             NEW out \in Seq(Nat), text' = text \o out,
             UNCHANGED <<consumed, body, answer>>
      PROVE  Contract!Next \/ Stutter
  <2>1. fate = "open" /\ fate' = fate
    <3>1. fate = "open"
        BY <1>a, FateOfReader
    <3>2. pc'[h] \in Active /\ body' # "over"
        BY <1>a, OthersStay DEF ReaderInv, Active
    <3> QED BY <3>1, <3>2 DEF fate
  <2>2. Contract!IsPrefix(text, text')
      BY <1>a, PrefixOfConcat
  <2> QED BY <1>a, <2>1, <2>2 DEF Contract!Next, Contract!Grow
\* The reader reaches the end.
<1>b. ASSUME NEW h \in Handles, pc[h] = "reading", body' = "over",
             NEW out \in Seq(Nat), text' = text \o out,
             answer' \in {answer, [answer EXCEPT ![h] = text']}
      PROVE  Contract!Next
  <2>1. fate = "open"
      BY <1>b, FateOfReader
  <2>2. fate' = "whole"
      BY <1>b DEF fate
  <2>3. Contract!IsPrefix(text, text')
      BY <1>b, PrefixOfConcat
  <2>4. Contract!Complete(h)
      BY <1>b, <2>1, <2>2, <2>3 DEF Contract!Complete
  <2> QED BY <2>4 DEF Contract!Next
\* The reader stops before it.
<1>c. ASSUME NEW h \in Handles, pc[h] \in {"reading", "yielded"},
             NEW label \in {"failed", "left"}, Goto(h, label),
             UNCHANGED <<consumed, body, text, answer>>
      PROVE  Contract!Next
  <2>1. fate = "open" /\ fate' = "lost"
      BY <1>c, FateOfReader, FateWithoutReader
  <2> QED BY <1>c, <2>1 DEF Contract!Next, Contract!Lose
<1>1. CASE UNCHANGED vars
    BY <1>1 DEF vars, session, calls, fate
<1>2. CASE Exit
  <2>1. UNCHANGED <<consumed, text, pc, answer>> /\ closed' = TRUE
      BY <1>2 DEF Exit, calls
  <2>3. body' = "over" <=> body = "over"
      BY <1>2 DEF Exit
  <2>2. fate' = fate \/ (fate = "open" /\ fate' = "lost")
      BY <2>1, <2>3 DEF fate, ReaderInv
  <2> QED BY <2>1, <2>2 DEF Contract!Next, Contract!Lose
<1>3. ASSUME NEW h \in Handles, NEW s \in Surfaces, Start(h, s)
      PROVE  Contract!Next \/ Stutter
  <2>1. pc[h] = "new" /\ UNCHANGED <<closed, body, text>>
      BY <1>3 DEF Start
  <2>2. CASE Assembles(s)
    <3>1. /\ drained /\ answer' = [answer EXCEPT ![h] = text]
        BY <1>3, <2>2 DEF Start, Return, Assembles
    <3>2. fate = "whole" /\ fate' = "whole"
        BY <2>1, <3>1 DEF fate, ReaderInv
    <3>3. answer[h] = NoAnswer
        BY <2>1 DEF ReaderInv
    <3>4. Contract!Answer(h)
        BY <2>1, <3>1, <3>2, <3>3 DEF Contract!Answer
    <3> QED BY <3>4 DEF Contract!Next
  <2>3. CASE ~Assembles(s) /\ CanRead
    <3>1. /\ ~consumed /\ ~closed /\ consumed' = TRUE /\ Goto(h, "reading")
          /\ answer' = answer
        BY <1>3, <2>3 DEF Start, CanRead
    <3>2. body # "over" /\ pc'[h] = "reading"
        BY <3>1, OthersStay DEF ReaderInv
    <3>3. fate = "open" /\ fate' = "open"
        BY <2>1, <3>1, <3>2 DEF fate, Active
    <3> QED BY <2>1, <3>1, <3>3
  <2>4. CASE ~Assembles(s) /\ ~CanRead
    <3>1. Goto(h, "failed") /\ UNCHANGED <<consumed, answer>>
        BY <1>3, <2>4 DEF Start, Fail
    <3>2. fate' = fate
        BY <2>1, <3>1, FateKept DEF Active
    <3> QED BY <2>1, <3>1, <3>2
  <2> QED BY <2>2, <2>3, <2>4
<1>4. ASSUME NEW h \in Handles, ReadText(h) PROVE Contract!Next \/ Stutter
  <2>1. pc[h] = "reading" /\ pos + 1 \in Nat /\ UNCHANGED <<consumed, body, answer>>
      BY <1>4 DEF ReadText, Line, TypeOK
  <2>2. PICK effect \in Feed(pos + 1) :
             /\ Deliver(h, effect.out)
             /\ Goto(h, IF effect.out = <<>> THEN "reading" ELSE AtYield(h, "yielded"))
      BY <1>4 DEF ReadText
  <2>3. effect.out \in Seq(Nat) /\ text' = text \o effect.out
      BY <2>1, <2>2, FeedType DEF Deliver
  <2>4. PICK label \in {"reading", "yielded"} : Goto(h, label)
      BY <2>2 DEF AtYield
  <2> QED BY <2>1, <2>3, <2>4, <1>a
<1>5. ASSUME NEW h \in Handles, ReadOther(h) PROVE Stutter
    BY <1>5 DEF ReadOther, calls, fate
<1>6. ASSUME NEW h \in Handles, ReadScalar(h) PROVE Contract!Next \/ Stutter
  <2>1. pc[h] = "reading" /\ UNCHANGED <<consumed, closed, body, text, answer>>
      BY <1>6 DEF ReadScalar, Line, Fail
  <2>2. CASE pc' = pc
    BY <2>1, <2>2 DEF fate
  <2>3. CASE Goto(h, "failed")
    BY <2>1, <2>3, <1>c
  <2> QED BY <1>6, <2>2, <2>3 DEF ReadScalar, Fail
<1>7. ASSUME NEW h \in Handles, ReadEnd(h) PROVE Contract!Next \/ Stutter
  <2>1. Flushed \in Seq(Nat)
      BY DEF Flushed, TypeOK
  <2>2. pc[h] = "reading" /\ body' = "over" /\ text' = text \o Flushed
      BY <1>7 DEF ReadEnd, Deliver
  <2>3. answer' \in {answer, [answer EXCEPT ![h] = text']}
      BY <1>7 DEF ReadEnd, Return
  <2> QED BY <2>1, <2>2, <2>3, <1>b
<1>8. ASSUME NEW h \in Handles, ReadFails(h) PROVE Contract!Next
    BY <1>8, <1>c DEF ReadFails, Fail, session
<1>9. ASSUME NEW h \in Handles, Resume(h) PROVE Contract!Next \/ Stutter
  <2>1. UNCHANGED <<consumed, closed, body, text>> /\ text \o <<>> = text
      BY <1>9 DEF Resume
  <2>2. CASE pc[h] = "yielded"
    BY <1>9, <2>1, <2>2, <1>a DEF Resume
  <2>3. CASE pc[h] = "tail"
    <3>1. answer' \in {answer, [answer EXCEPT ![h] = text]}
        BY <1>9, <2>3 DEF Resume, Return
    <3>2. fate = "whole" /\ fate' = "whole"
        BY <2>1, <2>3 DEF fate, ReaderInv
    <3>3. answer[h] = NoAnswer
        BY <2>3 DEF ReaderInv, Active
    <3> QED BY <2>1, <3>1, <3>2, <3>3 DEF Contract!Next, Contract!Answer
  <2> QED BY <1>9, <2>2, <2>3 DEF Resume
<1>10. ASSUME NEW h \in Handles, Leave(h) PROVE Contract!Next \/ Stutter
  <2>1. CASE pc[h] = "yielded"
    BY <1>10, <2>1, <1>c DEF Leave, session
  <2>2. CASE pc[h] = "tail"
    BY <1>10, <2>2 DEF Leave, session, fate, ReaderInv
  <2> QED BY <1>10, <2>1, <2>2 DEF Leave
<1>11. ASSUME NEW h \in Handles, Cancel(h) PROVE Contract!Next
    BY <1>11, <1>c DEF Cancel, Fail, session
<1> QED BY <1>1, <1>2, <1>3, <1>4, <1>5, <1>6, <1>7, <1>8, <1>9, <1>10, <1>11 DEF Next, Read

\* Every behaviour of a session keeps the contract: no response before the end
\* of the stream has been read, every response the whole text, none after a
\* reader failed, was cancelled or was abandoned in the middle, or found nothing
\* more to read since the session had been left.
THEOREM SessionKeepsContract == Spec => ContractSpec
<1>1. Init => Contract!Init
    BY DEF Init, Contract!Init, fate, Active
<1> QED BY <1>1, TypeCorrect, ReaderInvariant, ContractStep, PTL
        DEF Spec, ContractSpec, Contract!Spec
-----------------------------------------------------------------------------
(***************************************************************************)
(* Order: what was assembled and what is held back are, read on, an        *)
(* ascending sequence of positions that have come in.                      *)
(***************************************************************************)
Ordered(s, n) == /\ \A i, j \in 1..Len(s) : i < j => s[i] < s[j]
                 /\ \A i \in 1..Len(s) : s[i] \in 1..n

\* The next piece comes behind all that came before.
LEMMA OrderedAppend ==
    ASSUME NEW s \in Seq(Nat), NEW n \in Nat, Ordered(s, n)
    PROVE  Ordered(Append(s, n + 1), n + 1)
<1> DEFINE t == Append(s, n + 1)
<1>1. /\ Len(t) = Len(s) + 1 /\ Len(s) \in Nat
      /\ \A i \in 1..Len(s) : t[i] = s[i]
      /\ t[Len(s) + 1] = n + 1
    OBVIOUS
<1>2. \A i \in 1..Len(t) : i \in 1..Len(s) \/ i = Len(s) + 1
    BY <1>1
<1>3. \A i \in 1..Len(s) : s[i] \in 1..n
    BY DEF Ordered
<1>4. \A i \in 1..Len(t) : t[i] \in 1..(n + 1)
    BY <1>1, <1>2, <1>3
<1>5. ASSUME NEW i \in 1..Len(t), NEW j \in 1..Len(t), i < j PROVE t[i] < t[j]
  <2>1. i \in 1..Len(s)
      BY <1>1, <1>5
  <2>2. CASE j \in 1..Len(s)
      BY <1>1, <1>5, <2>1, <2>2 DEF Ordered
  <2>3. CASE j = Len(s) + 1
      BY <1>1, <1>3, <2>1, <2>3
  <2> QED BY <1>2, <2>2, <2>3
<1> QED BY <1>4, <1>5 DEF Ordered

\* What is dropped from the end leaves the order of the rest alone.
LEMMA OrderedHead ==
    ASSUME NEW s \in Seq(Nat), NEW t \in Seq(Nat), NEW n \in Nat, Ordered(s \o t, n)
    PROVE  Ordered(s, n)
<1>1. /\ Len(s \o t) = Len(s) + Len(t) /\ Len(s) \in Nat /\ Len(t) \in Nat
      /\ \A i \in 1..Len(s) : (s \o t)[i] = s[i]
    OBVIOUS
<1>2. 1..Len(s) \subseteq 1..Len(s \o t)
    BY <1>1
<1> QED BY <1>1, <1>2 DEF Ordered

\* A line without text only moves the position on.
LEMMA OrderedLater ==
    ASSUME NEW s \in Seq(Nat), NEW n \in Nat, Ordered(s, n)
    PROVE  Ordered(s, n + 1)
BY DEF Ordered

\* Whatever the filter does with a text -- keep it, let it out behind what was
\* held back, drop the one or the other -- the order stands.
LEMMA FeedOrdered ==
    ASSUME TypeOK, Ordered(text \o held, pos), NEW effect \in Feed(pos + 1)
    PROVE  Ordered((text \o effect.out) \o effect.held, pos + 1)
<1> DEFINE p == pos + 1
<1>1. /\ text \in Seq(Nat) /\ held \in Seq(Nat) /\ pos \in Nat /\ p \in Nat
      /\ text \o held \in Seq(Nat)
    BY DEF TypeOK
<1>2. Ordered(text, pos)
    BY <1>1, OrderedHead
<1>3. Ordered(Append(text \o held, p), p) /\ Ordered(Append(text, p), p) /\ Ordered(text, p)
    BY <1>1, <1>2, OrderedAppend, OrderedLater
<1>4. /\ (text \o <<>>) \o Append(held, p) = Append(text \o held, p)
      /\ (text \o Append(held, p)) \o <<>> = Append(text \o held, p)
      /\ (text \o <<p>>) \o <<>> = Append(text, p)
      /\ (text \o <<>>) \o <<>> = text
    BY <1>1
<1>5. \/ effect.out = <<>> /\ effect.held = Append(held, p)
      \/ effect.out = Append(held, p) /\ effect.held = <<>>
      \/ effect.out = <<p>> /\ effect.held = <<>>
      \/ effect.out = <<>> /\ effect.held = <<>>
  <2>1. \E state \in {"start", "think", "pass"} :
            \/ effect = Effect(state, Append(held, p), <<>>)
            \/ effect = Effect(state, <<>>, Append(held, p))
            \/ effect = Effect(state, <<>>, <<p>>)
            \/ effect = Effect(state, <<>>, <<>>)
      BY DEF Feed
  <2> QED BY <2>1 DEF Effect
<1> QED BY <1>3, <1>4, <1>5

LEMMA OrderStep == TypeOK /\ InOrder /\ [Next]_vars => InOrder'
<1> SUFFICES ASSUME TypeOK, Ordered(text \o held, pos), [Next]_vars
             PROVE  Ordered(text' \o held', pos')
    BY DEF InOrder, Ordered
<1>1. text \in Seq(Nat) /\ held \in Seq(Nat) /\ text \o held \in Seq(Nat) /\ pos \in Nat
    BY DEF TypeOK
<1>2. CASE UNCHANGED <<text, held, pos>>
    BY <1>2
<1>3. ASSUME UNCHANGED <<text, held>>, pos' = pos + 1 PROVE Ordered(text' \o held', pos')
    BY <1>1, <1>3, OrderedLater
<1>4. ASSUME NEW h \in Handles, ReadText(h) PROVE Ordered(text' \o held', pos')
    BY <1>4, FeedOrdered DEF ReadText, Line, Deliver
<1>5. ASSUME NEW h \in Handles, ReadEnd(h) PROVE Ordered(text' \o held', pos')
  <2>1. text' = text \o Flushed /\ held' = <<>> /\ pos' = pos
      BY <1>5 DEF ReadEnd, Deliver
  <2>2. text' \o held' = text \o held \/ text' \o held' = text
      BY <1>1, <2>1 DEF Flushed
  <2>3. Ordered(text, pos)
      BY <1>1, OrderedHead
  <2> QED BY <2>1, <2>2, <2>3
<1>6. ASSUME NEW h \in Handles, ReadOther(h) \/ ReadScalar(h) PROVE Ordered(text' \o held', pos')
    BY <1>3, <1>6 DEF ReadOther, ReadScalar, Line
<1>7. ASSUME NEW h \in Handles,
             ReadFails(h) \/ (\E s \in Surfaces : Start(h, s)) \/ Resume(h) \/ Leave(h) \/ Cancel(h)
      PROVE  UNCHANGED <<text, held, pos>>
    BY <1>7 DEF ReadFails, Start, Resume, Leave, Cancel, session
<1>8. Exit \/ UNCHANGED vars => UNCHANGED <<text, held, pos>>
    BY DEF Exit, vars, session
<1> QED BY <1>2, <1>4, <1>5, <1>6, <1>7, <1>8 DEF Next, Read

\* Text goes through the filter's buffer, its release and flush() in the order
\* it came in, never twice, for any number of lines.
THEOREM OrderKept == Spec => []InOrder
<1>1. Init => InOrder
    BY DEF Init, InOrder
<1> QED BY <1>1, OrderStep, TypeCorrect, PTL DEF Spec
=============================================================================
