------------------------- MODULE OpenAIStreamProofs -------------------------
(***************************************************************************)
(* Theorems about OpenAIStream, for any answers a provider may stream.     *)
(***************************************************************************)
EXTENDS OpenAIStream, TLAPS

USE AnswersAssumption

\* What an answer is made of.
LEMMA AnswerTyped ==
    ASSUME IsAnswer(answer)
    PROVE  /\ Indices = 1..Len(answer.calls) /\ Len(answer.calls) \in Nat
           /\ \A i \in Indices : /\ i \in Nat /\ 1 \in Indices
                                 /\ answer.calls[i].size \in Nat
                                 /\ answer.calls[i].form \in {"text", "object"}
                                 /\ answer.calls[i].numbered \in BOOLEAN
           /\ answer.text \in Nat
           /\ answer.finish_reason \in Reasons
           /\ answer.interim \subseteq Reports
           /\ answer.total \in Reports \cup {None}
           /\ answer.total = None => answer.interim = {}
<1>1. answer.calls \in Seq(Calls)
    BY DEF IsAnswer
<1>2. Indices = 1..Len(answer.calls) /\ \A i \in Indices : answer.calls[i] \in Calls
    BY <1>1 DEF Indices
<1> QED BY <1>1, <1>2 DEF Calls, IsAnswer

\* A sequence of pieces: its length, and what one more makes of it.
LEMMA PiecesGrow ==
    ASSUME NEW i \in Nat, NEW n \in Nat
    PROVE  /\ Pieces(i, n) \in Seq(Nat \X Nat)
           /\ Len(Pieces(i, n)) = n
           /\ \A k \in 1..n : Pieces(i, n)[k] = <<i, k>>
           /\ Append(Pieces(i, n), <<i, n + 1>>) = Pieces(i, n + 1)
           /\ Pieces(i, 0) = <<>>
<1> DEFINE s == Pieces(i, n)
           t == Append(s, <<i, n + 1>>)
<1>1. s \in Seq(Nat \X Nat) /\ Len(s) = n /\ \A k \in 1..n : s[k] = <<i, k>>
    BY DEF Pieces
<1>2. /\ t \in Seq(Nat \X Nat) /\ Len(t) = n + 1
      /\ \A k \in 1..n : t[k] = s[k]
      /\ t[n + 1] = <<i, n + 1>>
    BY <1>1, <<i, n + 1>> \in Nat \X Nat
<1>3. \A k \in 1..(n + 1) : k \in 1..n \/ k = n + 1
    OBVIOUS
<1>4. \A k \in 1..(n + 1) : t[k] = <<i, k>>
    BY <1>1, <1>2, <1>3
<1>5. t = [k \in 1..(n + 1) |-> t[k]]
    BY <1>2
<1>6. t = Pieces(i, n + 1)
    BY <1>4, <1>5, Zenon DEF Pieces
<1>7. Pieces(i, 0) = <<>>
    BY DEF Pieces
<1> QED BY <1>1, <1>6, <1>7

LEMMA UsageTyped ==
    ASSUME NEW raw \in Reports \cup {None}
    PROVE  usage_from(raw) \in Counts
<1>1. CASE raw = None
    BY <1>1 DEF usage_from, Counts
<1>2. CASE raw \in Reports /\ raw # None
  <2>1. raw.prompt_tokens \in Nat \cup {None} /\ raw.completion_tokens \in Nat \cup {None}
      BY <1>2 DEF Reports
  <2>2. Number(raw.prompt_tokens) \in Nat /\ Number(raw.completion_tokens) \in Nat
      BY <2>1 DEF Number
  <2> QED BY <1>2, <2>2 DEF usage_from, Counts
<1> QED BY <1>1, <1>2

LEMMA InterimTyped ==
    ASSUME TypeOK, Interim
    PROVE  /\ usage' \in Counts
           /\ answer.total = None => usage' = usage
<1>1. /\ answer.interim \subseteq Reports
      /\ answer.total = None => answer.interim = {}
    BY AnswerTyped DEF TypeOK
<1>2. usage' = usage \/ \E raw \in answer.interim : usage' = usage_from(raw)
    BY DEF Interim, takes_usage
<1> QED BY <1>1, <1>2, UsageTyped DEF TypeOK

\* Whatever the arguments come as, a slot stays a slot.
LEMMA TakesTyped ==
    ASSUME TypeOK, NEW slot \in Slots, NEW i \in Indices, NEW k \in Nat
    PROVE  Takes(slot, i, k) \in Slots
<1>1. Arguments(i) \in Seq(Nat \X Nat)
    BY AnswerTyped, PiecesGrow DEF TypeOK, Arguments
<1>2. /\ slot.used \in BOOLEAN /\ slot.id \in Nat /\ slot.name \in Nat /\ slot.object \in BOOLEAN
      /\ slot.arguments \in Seq(Nat \X Nat)
    BY DEF Slots
<1>3. Append(slot.arguments, <<i, k>>) \in Seq(Nat \X Nat)
    BY <1>2, AnswerTyped, <<i, k>> \in Nat \X Nat DEF TypeOK
<1>4. CASE answer.calls[i].form = "object"
  <2>1. [slot EXCEPT !.object = TRUE, !.arguments = Arguments(i)] \in Slots
      BY <1>1 DEF Slots
  <2> QED BY <1>4, <2>1 DEF Takes
<1>5. CASE answer.calls[i].form # "object"
  <2>1. [slot EXCEPT !.arguments = Append(@, <<i, k>>)] \in Slots
      BY <1>3 DEF Slots
  <2> QED BY <1>5, <2>1 DEF Takes
<1> QED BY <1>4, <1>5

LEMMA KeyTyped ==
    ASSUME TypeOK, NEW i \in Indices
    PROVE  Key(i) \in Indices
BY AnswerTyped DEF TypeOK, Key

LEMMA TypeInit == Init => TypeOK
<1> SUFFICES ASSUME Init PROVE TypeOK OBVIOUS
<1>1. IsAnswer(answer)
    BY DEF Init
<1>2. NoSlot \in Slots
    BY DEF NoSlot, Slots
<1>3. /\ sent \in [Indices -> Nat \cup {Absent}] /\ tool_calls \in [Indices -> Slots]
      /\ usage \in Counts
    BY <1>2, UsageTyped DEF Init
<1>4. text \in Seq(Nat \X Nat) /\ said \in Nat
    BY DEF Init
<1>5. finish \in Reasons \cup {None}
    BY DEF Init
<1>6. /\ drained \in BOOLEAN
      /\ stage \in {"content", "finished", "sent", "cut", "rejected"}
    BY DEF Init
<1> QED BY <1>1, <1>3, <1>4, <1>5, <1>6 DEF TypeOK

LEMMA TypeStep == TypeOK /\ [Next]_vars => TypeOK'
<1> SUFFICES ASSUME TypeOK, [Next]_vars PROVE TypeOK' OBVIOUS
<1>a. IsAnswer(answer)
    BY DEF TypeOK
<1>b. answer' = answer => IsAnswer(answer)' /\ Indices' = Indices
    BY <1>a DEF Indices, IsAnswer
<1>1. CASE UNCHANGED vars
    BY <1>1, <1>b DEF vars, TypeOK
<1>2. CASE Content
  <2>1. text' \in Seq(Nat \X Nat) /\ said' \in Nat
      BY <1>2, <<0, said + 1>> \in Nat \X Nat DEF Content, TypeOK
  <2> QED BY <1>2, <1>b, <2>1, InterimTyped DEF Content, TypeOK
<1>3. CASE Finish
  <2>1. finish' \in Reasons
      BY <1>3, <1>a, AnswerTyped DEF Finish
  <2> QED BY <1>3, <1>b, <2>1, InterimTyped DEF Finish, TypeOK
<1>4. CASE UsageChunk
  <2>1. usage' \in Counts
      BY <1>4, <1>a, AnswerTyped, UsageTyped DEF UsageChunk, takes_usage, TypeOK
  <2> QED BY <1>4, <1>b, <2>1 DEF UsageChunk, TypeOK
<1>5. CASE Reject
    BY <1>5, <1>b, InterimTyped DEF Reject, TypeOK
<1>6. CASE End
    BY <1>6, <1>b DEF End, TypeOK
<1>7. ASSUME NEW i \in Indices, ToolCall(i) PROVE TypeOK'
  <2>1. Key(i) \in Indices /\ i \in Nat
      BY <1>a, KeyTyped, AnswerTyped
  <2> DEFINE slot == [tool_calls[Key(i)] EXCEPT !.used = TRUE, !.id = i, !.name = i]
  <2>2. slot \in Slots
      BY <2>1 DEF TypeOK, Slots
  <2>3. tool_calls' = [tool_calls EXCEPT ![Key(i)] = slot]
      BY <1>7, <2>1 DEF ToolCall, TypeOK
  <2>4. tool_calls' \in [Indices -> Slots]
      BY <2>2, <2>3 DEF TypeOK
  <2>5. sent' \in [Indices -> Nat \cup {Absent}]
      BY <1>7 DEF ToolCall, TypeOK
  <2> QED BY <1>7, <1>b, <2>4, <2>5, InterimTyped DEF ToolCall, TypeOK
<1>8. ASSUME NEW i \in Indices, ToolArguments(i) PROVE TypeOK'
  <2>1. Key(i) \in Indices /\ answer.calls[i].size \in Nat /\ sent[i] \in Nat
      BY <1>8, <1>a, KeyTyped, AnswerTyped DEF ToolArguments, TypeOK
  <2>2. Takes(tool_calls[Key(i)], i, sent[i] + 1) \in Slots
      BY <2>1, TakesTyped DEF TypeOK
  <2>3. tool_calls' \in [Indices -> Slots]
      BY <1>8, <2>1, <2>2 DEF ToolArguments, TypeOK
  <2>4. sent' \in [Indices -> Nat \cup {Absent}]
      BY <1>8, <2>1 DEF ToolArguments, TypeOK
  <2> QED BY <1>8, <1>b, <2>3, <2>4, InterimTyped DEF ToolArguments, TypeOK
<1> QED BY <1>1, <1>2, <1>3, <1>4, <1>5, <1>6, <1>7, <1>8 DEF Next

\* The fields of the stream keep their shape, whatever is streamed -- calls that
\* are merged in one slot included.
THEOREM TypeCorrect == Spec => []TypeOK
BY TypeInit, TypeStep, PTL DEF Spec
-----------------------------------------------------------------------------
(***************************************************************************)
(* Of calls that have a slot of their own, each slot is determined by what *)
(* was sent of its call, whatever came in between.                         *)
(***************************************************************************)
Slot(i) == IF sent[i] = Absent THEN tool_calls[i] = NoSlot
           ELSE /\ sent[i] <= answer.calls[i].size
                /\ tool_calls[i].used = TRUE
                /\ tool_calls[i].id = i /\ tool_calls[i].name = i
                /\ answer.calls[i].form = "text" => tool_calls[i].object = FALSE
                /\ tool_calls[i].arguments = Pieces(i, sent[i])

TextInv == said <= answer.text /\ text = Pieces(0, said)

SlotInv == Distinct => \A i \in Indices : Slot(i)

LEMMA OwnSlot ==
    ASSUME TypeOK, Distinct, NEW i \in Indices
    PROVE  Key(i) = i
BY AnswerTyped DEF TypeOK, Distinct, Key

LEMMA TextInit == Init => TextInv /\ SlotInv
<1> SUFFICES ASSUME Init PROVE TextInv /\ SlotInv OBVIOUS
<1>1. answer.text \in Nat
    BY AnswerTyped DEF Init
<1>2. Pieces(0, 0) = <<>>
    BY PiecesGrow
<1> QED BY <1>1, <1>2 DEF Init, TextInv, SlotInv, Slot

LEMMA TextStep == TypeOK /\ TextInv /\ [Next]_vars => TextInv'
<1> SUFFICES ASSUME TypeOK, TextInv, [Next]_vars PROVE TextInv' OBVIOUS
<1>1. CASE Content
  <2>1. said \in Nat /\ answer.text \in Nat
      BY AnswerTyped DEF TypeOK
  <2>2. text' = Pieces(0, said + 1)
      BY <1>1, <2>1, PiecesGrow DEF Content, TextInv
  <2> QED BY <1>1, <2>1, <2>2 DEF Content, TextInv
<1>2. ASSUME NEW i \in Indices, ToolCall(i) \/ ToolArguments(i) PROVE UNCHANGED <<answer, said, text>>
    BY <1>2 DEF ToolCall, ToolArguments
<1>3. CASE Finish \/ UsageChunk \/ Reject \/ End
    BY <1>3 DEF Finish, UsageChunk, Reject, End, TextInv
<1> QED BY <1>1, <1>2, <1>3 DEF Next, vars, TextInv

LEMMA SlotStep == TypeOK /\ SlotInv /\ [Next]_vars => SlotInv'
<1> SUFFICES ASSUME TypeOK, SlotInv, [Next]_vars, Distinct'
             PROVE  \A i \in Indices' : Slot(i)'
    BY DEF SlotInv
<1>1. answer' = answer
    BY DEF Next, vars, Content, Finish, UsageChunk, Reject, End, ToolCall, ToolArguments
<1>2. Indices' = Indices /\ Distinct
    BY <1>1 DEF Indices, Distinct
<1> SUFFICES ASSUME NEW j \in Indices PROVE Slot(j)'
    BY <1>2
<1>3. Slot(j)
    BY <1>2 DEF SlotInv
<1>4. ASSUME sent'[j] = sent[j], tool_calls'[j] = tool_calls[j] PROVE Slot(j)'
    BY <1>1, <1>3, <1>4 DEF Slot
<1>5. /\ j \in Nat /\ answer.calls[j].size \in Nat /\ answer.calls[j].form \in {"text", "object"}
      /\ sent \in [Indices -> Nat \cup {Absent}] /\ tool_calls \in [Indices -> Slots]
      /\ sent[j] \in Nat \cup {Absent} /\ tool_calls[j] \in Slots
    BY AnswerTyped DEF TypeOK
<1>6. ASSUME NEW i \in Indices, ToolCall(i) PROVE Slot(j)'
  <2>1. Key(i) = i
      BY <1>2, OwnSlot
  <2>2. CASE j # i
      BY <1>4, <1>5, <1>6, <2>1, <2>2 DEF ToolCall
  <2>3. CASE j = i
    <3>1. sent'[j] = 0 /\ tool_calls[j] = NoSlot
        BY <1>3, <1>5, <1>6, <2>3 DEF ToolCall, Slot
    <3>2. /\ tool_calls'[j].used = TRUE
          /\ tool_calls'[j].id = j /\ tool_calls'[j].name = j
          /\ tool_calls'[j].object = tool_calls[j].object
          /\ tool_calls'[j].arguments = tool_calls[j].arguments
        BY <1>5, <1>6, <2>1, <2>3 DEF ToolCall, Slots
    <3>3. tool_calls[j].object = FALSE /\ tool_calls[j].arguments = Pieces(j, 0)
        BY <1>5, <3>1, PiecesGrow DEF NoSlot
    <3> QED BY <1>1, <1>5, <3>1, <3>2, <3>3 DEF Slot
  <2> QED BY <2>2, <2>3
<1>7. ASSUME NEW i \in Indices, ToolArguments(i) PROVE Slot(j)'
  <2>1. Key(i) = i
      BY <1>2, OwnSlot
  <2>2. CASE j # i
      BY <1>4, <1>5, <1>7, <2>1, <2>2 DEF ToolArguments
  <2>3. CASE j = i
    <3> DEFINE n == sent[j]
               slot == tool_calls[j]
    <3>1. n \in Nat /\ n < answer.calls[j].size
        BY <1>5, <1>7, <2>3 DEF ToolArguments
    <3>2. /\ slot.used = TRUE /\ slot.id = j /\ slot.name = j
          /\ answer.calls[j].form = "text" => slot.object = FALSE
          /\ slot.arguments = Pieces(j, n)
        BY <1>3, <3>1 DEF Slot
    <3>3. tool_calls'[j] = Takes(slot, j, n + 1)
        BY <1>5, <1>7, <2>1, <2>3 DEF ToolArguments
    <3>4. CASE answer.calls[j].form = "object"
      <4>1. sent'[j] = answer.calls[j].size
          BY <1>5, <1>7, <2>3, <3>4 DEF ToolArguments
      <4>2. tool_calls'[j] = [slot EXCEPT !.object = TRUE, !.arguments = Arguments(j)]
          BY <3>3, <3>4 DEF Takes
      <4>3. /\ tool_calls'[j].used = slot.used
            /\ tool_calls'[j].id = slot.id /\ tool_calls'[j].name = slot.name
            /\ tool_calls'[j].arguments = Pieces(j, answer.calls[j].size)
          BY <1>5, <4>2 DEF Slots, Arguments
      <4> QED BY <1>1, <1>5, <3>2, <3>4, <4>1, <4>3 DEF Slot
    <3>5. CASE answer.calls[j].form = "text"
      <4>1. sent'[j] = n + 1
          BY <1>5, <1>7, <2>3, <3>5 DEF ToolArguments
      <4>2. Append(Pieces(j, n), <<j, n + 1>>) = Pieces(j, n + 1)
          BY <1>5, <3>1, PiecesGrow
      <4>3. tool_calls'[j] = [slot EXCEPT !.arguments = Append(@, <<j, n + 1>>)]
          BY <3>2, <3>3, <3>5 DEF Takes
      <4>4. /\ tool_calls'[j].used = slot.used
            /\ tool_calls'[j].id = slot.id /\ tool_calls'[j].name = slot.name
            /\ tool_calls'[j].object = slot.object
            /\ tool_calls'[j].arguments = Append(slot.arguments, <<j, n + 1>>)
          BY <1>5, <4>3 DEF Slots
      <4> QED BY <1>1, <1>5, <3>1, <3>2, <3>5, <4>1, <4>2, <4>4 DEF Slot
    <3> QED BY <1>5, <3>4, <3>5
  <2> QED BY <2>2, <2>3
<1>8. CASE Content \/ Finish \/ UsageChunk \/ Reject \/ End \/ UNCHANGED vars
    BY <1>4, <1>8 DEF Content, Finish, UsageChunk, Reject, End, vars
<1> QED BY <1>6, <1>7, <1>8 DEF Next

LEMMA SlotInvariant == Spec => [](TypeOK /\ TextInv /\ SlotInv)
BY TypeInit, TypeStep, TextInit, TextStep, SlotStep, PTL DEF Spec

\* A piece of the arguments of call i is of no other call.
LEMMA InputOf ==
    ASSUME TypeOK, NEW i \in Indices, NEW n \in Nat
    PROVE  tool_args(Pieces(i, n)) \in {<<>>, Arguments(i)}
<1>1. /\ i \in Nat /\ \A j \in Indices : j \in Nat /\ answer.calls[j].size \in Nat
    BY AnswerTyped DEF TypeOK
<1>2. CASE \E j \in Indices : Pieces(i, n) = Arguments(j)
  <2>1. PICK j \in Indices : Pieces(i, n) = Pieces(j, answer.calls[j].size)
      BY <1>2 DEF Arguments
  <2>2. tool_args(Pieces(i, n)) = Pieces(i, n)
      BY <1>2 DEF tool_args
  <2>3. n = answer.calls[j].size
    <3>1. Len(Pieces(i, n)) = n
        BY <1>1, PiecesGrow
    <3>2. Len(Pieces(j, answer.calls[j].size)) = answer.calls[j].size
        BY <1>1, PiecesGrow
    <3> QED BY <2>1, <3>1, <3>2
  <2>4. CASE n = 0
      BY <1>1, <2>2, <2>4, PiecesGrow
  <2>5. CASE n > 0
    <3>1. Pieces(i, n)[1] = <<i, 1>> /\ Pieces(j, n)[1] = <<j, 1>>
        BY <1>1, <2>5, 1 \in 1..n, PiecesGrow
    <3>2. i = j
        BY <2>1, <2>3, <3>1
    <3> QED BY <2>1, <2>2, <3>2 DEF Arguments
  <2> QED BY <2>4, <2>5
<1>3. CASE ~\E j \in Indices : Pieces(i, n) = Arguments(j)
    BY <1>3 DEF tool_args
<1> QED BY <1>2, <1>3

\* A sequence that agrees with a longer one as far as it goes is a prefix of it.
LEMMA PrefixOf ==
    ASSUME NEW s \in Seq(Nat \X Nat), NEW t \in Seq(Nat \X Nat), Len(s) <= Len(t),
           \A k \in 1..Len(s) : s[k] = t[k]
    PROVE  IsPrefix(s, t)
<1> DEFINE n == Len(s)
<1>1. n \in Nat /\ n <= Len(t)
    OBVIOUS
<1>2. /\ Len(SubSeq(s, 1, n)) = n /\ Len(SubSeq(t, 1, n)) = n
      /\ SubSeq(s, 1, n) \in Seq(Nat \X Nat) /\ SubSeq(t, 1, n) \in Seq(Nat \X Nat)
    BY <1>1
<1>3. ASSUME NEW k \in 1..n PROVE SubSeq(s, 1, n)[k] = SubSeq(t, 1, n)[k]
  <2> HIDE DEF n
  <2>1. SubSeq(s, 1, n)[k] = s[k]
      BY <1>1
  <2>2. SubSeq(t, 1, n)[k] = t[k]
      BY <1>1
  <2> QED BY <2>1, <2>2 DEF n
<1>4. SubSeq(s, 1, n) = SubSeq(t, 1, n)
    BY <1>2, <1>3
<1> QED BY <1>1, <1>4 DEF IsPrefix

\* The text so far is the beginning of all of it.
LEMMA TextPrefix ==
    ASSUME TypeOK, TextInv
    PROVE  IsPrefix(text, Pieces(0, answer.text))
<1> DEFINE s == text
           t == Pieces(0, answer.text)
<1>1. said \in Nat /\ answer.text \in Nat /\ said <= answer.text /\ s = Pieces(0, said)
    BY AnswerTyped DEF TypeOK, TextInv
<1>2. /\ s \in Seq(Nat \X Nat) /\ t \in Seq(Nat \X Nat)
      /\ Len(s) = said /\ Len(t) = answer.text
    BY <1>1, PiecesGrow
<1>3. \A k \in 1..said : k \in 1..answer.text
    BY <1>1
<1>4. \A k \in 1..said : s[k] = <<0, k>> /\ t[k] = <<0, k>>
    BY <1>1, <1>3 DEF Pieces
<1>5. IsPrefix(s, t)
  <2> HIDE DEF s, t
  <2> QED BY <1>1, <1>2, <1>4, PrefixOf
<1> QED BY <1>5

\* The calls of the stream's response.
LEMMA FinalCalls ==
    ASSUME TypeOK, SlotInv, Distinct
    PROVE  LET final == get_final_message.calls
           IN  /\ DOMAIN final = {i \in Indices : sent[i] # Absent}
               /\ \A i \in DOMAIN final :
                     final[i] = [id |-> i, name |-> i, input |-> tool_args(Pieces(i, sent[i]))]
<1> DEFINE used == {j \in Indices : tool_calls[j].used}
           call(i) == [id |-> tool_calls[i].id, name |-> tool_calls[i].name,
                       input |-> tool_args(tool_calls[i].arguments)]
<1>1. get_final_message.calls = [i \in used |-> call(i)]
    BY DEF get_final_message
<1>2. ASSUME NEW i \in Indices
      PROVE  /\ i \in used <=> sent[i] # Absent
             /\ i \in used => call(i) = [id |-> i, name |-> i,
                                         input |-> tool_args(Pieces(i, sent[i]))]
  <2>1. Slot(i)
      BY DEF SlotInv
  <2>2. CASE sent[i] = Absent
      BY <2>1, <2>2 DEF Slot, NoSlot
  <2>3. CASE sent[i] # Absent
      BY <2>1, <2>3 DEF Slot
  <2> QED BY <2>2, <2>3
<1>3. /\ DOMAIN get_final_message.calls = used
      /\ \A i \in used : get_final_message.calls[i] = call(i)
    BY <1>1
<1>4. used = {i \in Indices : sent[i] # Absent}
    BY <1>2
<1>5. \A i \in used : call(i) = [id |-> i, name |-> i, input |-> tool_args(Pieces(i, sent[i]))]
    BY <1>2
<1> HIDE DEF used, call
<1> QED BY <1>3, <1>4, <1>5

\* Wherever a stream breaks off, however long the text, however many the calls
\* and however their arguments are interleaved, what is assembled is a truncation.
THEOREM CutShort == Spec => []CutShortIsATruncation
<1>1. TypeOK /\ TextInv /\ SlotInv => CutShortIsATruncation
  <2> SUFFICES ASSUME TypeOK, TextInv, SlotInv, Distinct
               PROVE  /\ IsPrefix(get_final_message.text, Pieces(0, answer.text))
                      /\ \A i \in DOMAIN get_final_message.calls :
                            LET call == get_final_message.calls[i]
                            IN  /\ call.id = i /\ call.name = i
                                /\ call.input \in {<<>>, Arguments(i)}
      BY DEF CutShortIsATruncation
  <2>1. get_final_message.text = text
      BY DEF get_final_message
  <2>2. ASSUME NEW i \in DOMAIN get_final_message.calls
        PROVE  LET call == get_final_message.calls[i]
               IN  /\ call.id = i /\ call.name = i
                   /\ call.input \in {<<>>, Arguments(i)}
    <3>1. /\ i \in Indices /\ sent[i] # Absent
          /\ get_final_message.calls[i] = [id |-> i, name |-> i,
                                           input |-> tool_args(Pieces(i, sent[i]))]
        BY FinalCalls
    <3>2. sent[i] \in Nat
        BY <3>1 DEF TypeOK
    <3>3. tool_args(Pieces(i, sent[i])) \in {<<>>, Arguments(i)}
        BY <3>1, <3>2, InputOf
    <3> QED BY <3>1, <3>3
  <2> QED BY <2>1, <2>2, TextPrefix
<1> QED BY <1>1, SlotInvariant, PTL
-----------------------------------------------------------------------------
(***************************************************************************)
(* Agreement with complete(): what the later stages say of the answer.     *)
(***************************************************************************)
SentInv ==
    /\ stage \in {"finished", "sent"} => /\ finish = answer.finish_reason
                                         /\ said = answer.text
                                         /\ \A i \in Indices : sent[i] = answer.calls[i].size
    /\ answer.total = None => usage = usage_from(None)
    /\ stage = "sent" => usage = usage_from(answer.total)

LEMMA SentStep == TypeOK /\ SentInv /\ [Next]_vars => SentInv'
<1> SUFFICES ASSUME TypeOK, SentInv, [Next]_vars PROVE SentInv' OBVIOUS
<1>1. CASE UNCHANGED vars
    BY <1>1 DEF vars, SentInv, Indices, usage_from, Number
<1>2. answer' = answer /\ Indices' = Indices
    BY DEF Next, vars, Content, Finish, UsageChunk, Reject, End, ToolCall, ToolArguments, Indices
<1>3. ASSUME Interim, stage' \notin {"finished", "sent"} PROVE SentInv'
    BY <1>2, <1>3, InterimTyped DEF SentInv, usage_from, Number
<1>4. CASE Content \/ Reject
    BY <1>3, <1>4 DEF Content, Reject
<1>5. ASSUME NEW i \in Indices, ToolCall(i) \/ ToolArguments(i) PROVE SentInv'
    BY <1>3, <1>5 DEF ToolCall, ToolArguments
<1>6. CASE Finish
  <2>1. answer.total = None => usage' = usage_from(None)
      BY <1>6, InterimTyped DEF Finish, SentInv
  <2> QED BY <1>2, <1>6, <2>1 DEF Finish, SentInv, usage_from, Number
<1>7. CASE UsageChunk
  <2>1. usage' = usage_from(answer.total)
      BY <1>7 DEF UsageChunk, takes_usage, SentInv
  <2> QED BY <1>2, <1>7, <2>1 DEF UsageChunk, SentInv, usage_from, Number
<1>8. CASE End
  <2>1. stage' \in {stage, "cut"} /\ UNCHANGED <<said, sent, finish, usage>>
      BY <1>8 DEF End
  <2> QED BY <1>2, <2>1 DEF SentInv, usage_from, Number
<1> QED BY <1>1, <1>4, <1>5, <1>6, <1>7, <1>8 DEF Next

LEMMA SentInvariant == Spec => []SentInv
<1>1. Init => SentInv
    BY DEF Init, SentInv
<1> QED BY <1>1, SentStep, TypeCorrect, PTL DEF Spec

\* Of any answer, streamed to its end in any order of its pieces, the stream's
\* response is complete()'s.
THEOREM StreamAgrees == Spec => []StreamAgreesWithComplete
<1>1. TypeOK /\ TextInv /\ SlotInv /\ SentInv => StreamAgreesWithComplete
  <2> SUFFICES ASSUME TypeOK, TextInv, SlotInv, SentInv, stage = "sent", Distinct
               PROVE  get_final_message = complete
      BY DEF StreamAgreesWithComplete
  <2> DEFINE final == get_final_message.calls
             whole == [i \in Indices |-> [id |-> i, name |-> i, input |-> tool_args(Arguments(i))]]
  <2>1. \A i \in Indices : sent[i] = answer.calls[i].size /\ sent[i] # Absent
      BY AnswerTyped DEF SentInv, TypeOK
  <2>2. /\ DOMAIN final = Indices
        /\ \A i \in Indices : final[i] = whole[i]
      BY <2>1, FinalCalls DEF Arguments
  <2>3. final = [i \in DOMAIN final |-> final[i]]
    <3>1. final = [i \in {j \in Indices : tool_calls[j].used} |->
                      [id |-> tool_calls[i].id, name |-> tool_calls[i].name,
                       input |-> tool_args(tool_calls[i].arguments)]]
        BY DEF get_final_message
    <3> HIDE DEF final
    <3> QED BY <3>1
  <2>4. final = whole
    <3> HIDE DEF final
    <3> QED BY <2>2, <2>3
  <2>5. /\ text = Pieces(0, answer.text)
        /\ stop_reason(finish) = stop_reason(answer.finish_reason)
        /\ usage = usage_from(answer.total)
      BY DEF TextInv, SentInv
  <2>6. get_final_message = [text |-> text, calls |-> final, stop_reason |-> stop_reason(finish),
                             usage |-> usage]
      BY DEF get_final_message
  <2>7. complete = [text |-> Pieces(0, answer.text), calls |-> whole,
                    stop_reason |-> stop_reason(answer.finish_reason),
                    usage |-> usage_from(answer.total)]
      BY DEF complete
  <2> HIDE DEF final, whole
  <2> QED BY <2>4, <2>5, <2>6, <2>7
<1> QED BY <1>1, SlotInvariant, SentInvariant, PTL
=============================================================================
