------------------------ MODULE AnthropicStreamProofs ------------------------
(***************************************************************************)
(* Theorems about AnthropicStream, for any answers a provider may stream.  *)
(***************************************************************************)
EXTENDS AnthropicStream, TLAPS

USE AnswersAssumption

\* The blocks of an answer.
LEMMA BlocksTyped ==
    ASSUME IsAnswer(answer)
    PROVE  /\ Indices \subseteq Nat
           /\ \A i \in Indices : answer.blocks[i] \in Blocks
           /\ \A i \in Indices : /\ answer.blocks[i].type \in BlockTypes
                                 /\ answer.blocks[i].size \in Nat
                                 /\ answer.blocks[i].announced \in BOOLEAN
<1>1. answer.blocks \in Seq(Blocks)
    BY DEF IsAnswer
<1>2. Indices = 1..Len(answer.blocks) /\ \A i \in Indices : answer.blocks[i] \in Blocks
    BY <1>1 DEF Indices
<1> QED BY <1>1, <1>2 DEF Blocks

LEMMA SlotTyped == NoSlot \in Slots
BY DEF NoSlot, Slots

\* A new slot, and a piece more in a slot.
LEMMA SlotGrows ==
    ASSUME NEW slot \in Slots, NEW piece \in Nat \X Nat, NEW type \in BlockTypes
    PROVE  /\ [NoSlot EXCEPT !.type = type] \in Slots
           /\ [slot EXCEPT !.text = Append(@, piece)] \in Slots
           /\ [slot EXCEPT !.json = Append(@, piece)] \in Slots
<1>1. Append(slot.text, piece) \in Seq(Nat \X Nat) /\ Append(slot.json, piece) \in Seq(Nat \X Nat)
    BY DEF Slots
<1>2. [NoSlot EXCEPT !.type = type] = [type |-> type, text |-> <<>>, json |-> <<>>]
    BY DEF NoSlot
<1>3. <<>> \in Seq(Nat \X Nat)
    OBVIOUS
<1> QED BY <1>1, <1>2, <1>3 DEF Slots

\* The piece sent next is numbered.
LEMMA PieceTyped ==
    ASSUME TypeOK, NEW i \in Indices
    PROVE  Number(sent[i]) \in Nat /\ Piece(i) \in Nat \X Nat
<1>1. sent[i] \in Nat \cup {Absent} /\ i \in Nat
    BY BlocksTyped DEF TypeOK
<1>2. Number(sent[i]) \in Nat
    BY <1>1 DEF Number
<1> QED BY <1>1, <1>2 DEF Piece

\* What merging a report makes of the usage.
Merged(counts, raw) ==
    IF raw = None THEN counts
    ELSE [input    |-> IF raw.input = Absent THEN counts.input ELSE Number(raw.input),
          output   |-> IF raw.output = Absent THEN counts.output ELSE Number(raw.output),
          read     |-> IF raw.read \in {None, Absent} THEN counts.read ELSE raw.read,
          creation |-> IF raw.creation \in {None, Absent} THEN counts.creation
                                                          ELSE raw.creation]

LEMMA MergedTyped ==
    ASSUME NEW counts \in Counts, NEW raw \in Reports \cup {None}
    PROVE  Merged(counts, raw) \in Counts
<1>1. CASE raw = None
    BY <1>1 DEF Merged
<1>2. CASE raw # None
  <2>1. /\ raw.input \in Nat \cup {None, Absent} /\ raw.output \in Nat \cup {None, Absent}
        /\ raw.read \in Nat \cup {None, Absent} /\ raw.creation \in Nat \cup {None, Absent}
      BY <1>2 DEF Reports
  <2>2. Number(raw.input) \in Nat /\ Number(raw.output) \in Nat
      BY <2>1 DEF Number
  <2>3. /\ counts.input \in Nat /\ counts.output \in Nat
        /\ counts.read \in Nat \cup {None} /\ counts.creation \in Nat \cup {None}
      BY DEF Counts
  <2> QED BY <1>2, <2>1, <2>2, <2>3 DEF Merged, Counts
<1> QED BY <1>1, <1>2

LEMMA UsageStep ==
    ASSUME TypeOK, NEW raw \in Reports \cup {None}, merge_usage(raw)
    PROVE  usage' = Merged(usage, raw) /\ usage' \in Counts
<1>1. usage' = Merged(usage, raw)
    BY DEF merge_usage, Merged
<1> QED BY <1>1, MergedTyped DEF TypeOK

NoUsage == [input |-> 0, output |-> 0, read |-> None, creation |-> None]

LEMMA TypeInit == Init => TypeOK
<1> SUFFICES ASSUME Init PROVE TypeOK OBVIOUS
<1>1. IsAnswer(answer)
    BY DEF Init
<1>2. sent \in [Indices -> Nat \cup {Absent}] /\ blocks \in [Indices -> Slots]
    BY SlotTyped DEF Init
<1>3. usage \in Counts /\ yielded \in Seq(Nat \X Nat)
    BY DEF Init, Counts
<1> QED BY <1>1, <1>2, <1>3 DEF Init, TypeOK

LEMMA TypeStep == TypeOK /\ [Next]_vars => TypeOK'
<1> SUFFICES ASSUME TypeOK, [Next]_vars PROVE TypeOK' OBVIOUS
<1>a. IsAnswer(answer) /\ Indices \subseteq Nat
    BY BlocksTyped DEF TypeOK
<1>b. answer' = answer => IsAnswer(answer)' /\ Indices' = Indices
    BY <1>a DEF Indices, IsAnswer
<1>c. /\ answer.first \in Reports \cup {None} /\ answer.last \in Reports \cup {None}
      /\ answer.stop_reason \in {"end_turn", "stop_sequence", "tool_use", "max_tokens"}
    BY <1>a DEF IsAnswer
<1>1. CASE UNCHANGED vars
    BY <1>1, <1>b DEF vars, TypeOK
<1>2. CASE MessageStart
  <2>1. usage' \in Counts
      BY <1>2, <1>c, UsageStep DEF MessageStart
  <2> QED BY <1>2, <1>b, <2>1 DEF MessageStart, TypeOK
<1>3. CASE MessageDelta
  <2>1. usage' \in Counts
      BY <1>3, <1>c, UsageStep DEF MessageDelta
  <2> QED BY <1>3, <1>b, <1>c, <2>1 DEF MessageDelta, TypeOK
<1>4. CASE End
    BY <1>4, <1>b DEF End, TypeOK
<1>5. ASSUME NEW i \in Indices, ContentBlockStart(i) PROVE TypeOK'
  <2>1. [NoSlot EXCEPT !.type = answer.blocks[i].type] \in Slots
      BY <1>a, SlotTyped, SlotGrows, BlocksTyped, <<1, 1>> \in Nat \X Nat
  <2>2. blocks' \in [Indices -> Slots]
      BY <1>5, <2>1 DEF ContentBlockStart, TypeOK
  <2>3. sent' \in [Indices -> Nat \cup {Absent}]
      BY <1>5 DEF ContentBlockStart, TypeOK
  <2> QED BY <1>5, <1>b, <2>2, <2>3 DEF ContentBlockStart, TypeOK
<1>6. ASSUME NEW i \in Indices, Sends(i) PROVE sent' \in [Indices -> Nat \cup {Absent}]
    BY <1>6, PieceTyped DEF Sends, TypeOK
<1>7. ASSUME NEW i \in Indices, TextDelta(i) PROVE TypeOK'
  <2>1. blocks[i] \in Slots /\ Piece(i) \in Nat \X Nat
      BY PieceTyped DEF TypeOK
  <2>2. [blocks[i] EXCEPT !.text = Append(@, Piece(i))] \in Slots
      BY <2>1, SlotGrows, "text" \in BlockTypes DEF BlockTypes
  <2>3. blocks' \in [Indices -> Slots]
      BY <1>7, <2>2 DEF TextDelta, TypeOK
  <2>4. yielded' \in Seq(Nat \X Nat)
      BY <1>7, <2>1 DEF TextDelta, TypeOK
  <2> QED BY <1>7, <1>b, <1>6, <2>3, <2>4 DEF TextDelta, TypeOK
<1>8. ASSUME NEW i \in Indices, InputJsonDelta(i) PROVE TypeOK'
  <2>1. blocks[i] \in Slots /\ Piece(i) \in Nat \X Nat
      BY PieceTyped DEF TypeOK
  <2>2. [blocks[i] EXCEPT !.json = Append(@, Piece(i))] \in Slots
      BY <2>1, SlotGrows, "text" \in BlockTypes DEF BlockTypes
  <2>3. blocks' \in [Indices -> Slots]
      BY <1>8, <2>2 DEF InputJsonDelta, TypeOK
  <2> QED BY <1>8, <1>b, <1>6, <2>3 DEF InputJsonDelta, TypeOK
<1>9. ASSUME NEW i \in Indices, ThinkingDelta(i) PROVE TypeOK'
    BY <1>9, <1>b, <1>6 DEF ThinkingDelta, TypeOK
<1> QED BY <1>1, <1>2, <1>3, <1>4, <1>5, <1>7, <1>8, <1>9 DEF Next

\* The fields of the stream keep their shape, whatever is streamed.
THEOREM TypeCorrect == Spec => []TypeOK
BY TypeInit, TypeStep, PTL DEF Spec
-----------------------------------------------------------------------------
(***************************************************************************)
(* Each slot is determined by what was sent of its block, whatever was     *)
(* sent of the others in between: the first pieces of the block, all of    *)
(* them and nothing else -- and nothing at all of a block that is thinking *)
(* or was never announced.                                                 *)
(***************************************************************************)
Beginning(i, n) == [k \in 1..n |-> <<i, k>>]

Kept(i) == /\ answer.blocks[i].announced
           /\ sent[i] # Absent
           /\ answer.blocks[i].type # "thinking"

Slot(i) == LET type == answer.blocks[i].type
               pieces == Beginning(i, Number(sent[i]))
           IN  IF Kept(i)
               THEN [type |-> type,
                     text |-> IF type = "text" THEN pieces ELSE <<>>,
                     json |-> IF type = "tool_use" THEN pieces ELSE <<>>]
               ELSE NoSlot

SlotInv == \A i \in Indices : /\ Number(sent[i]) <= answer.blocks[i].size
                              /\ blocks[i] = Slot(i)

\* A beginning grows by the next piece.
LEMMA BeginningGrows ==
    ASSUME NEW i, NEW n \in Nat
    PROVE  /\ Append(Beginning(i, n), <<i, n + 1>>) = Beginning(i, n + 1)
           /\ Len(Beginning(i, n)) = n
           /\ Beginning(i, 0) = <<>>
           /\ Beginning(i, n) = <<>> => n = 0
<1> DEFINE s == Beginning(i, n)
           t == Append(s, <<i, n + 1>>)
<1>1. /\ \A k \in 1..n : <<i, k>> \in {i} \X Nat
      /\ <<i, n + 1>> \in {i} \X Nat
    OBVIOUS
<1>2. s \in Seq({i} \X Nat) /\ Len(s) = n /\ \A k \in 1..n : s[k] = <<i, k>>
    BY <1>1 DEF Beginning
<1>3. /\ t \in Seq({i} \X Nat) /\ Len(t) = n + 1
      /\ \A k \in 1..n : t[k] = s[k]
      /\ t[n + 1] = <<i, n + 1>>
    BY <1>1, <1>2
<1>4. \A k \in 1..(n + 1) : k \in 1..n \/ k = n + 1
    OBVIOUS
<1>5. \A k \in 1..(n + 1) : t[k] = <<i, k>>
    BY <1>2, <1>3, <1>4
<1>6. t = [k \in 1..(n + 1) |-> t[k]]
    BY <1>3
<1>7. t = Beginning(i, n + 1)
    BY <1>5, <1>6, Zenon DEF Beginning
<1>8. Beginning(i, 0) = <<>>
    BY DEF Beginning
<1>9. s = <<>> => n = 0
    BY <1>2
<1> QED BY <1>2, <1>7, <1>8, <1>9

\* A piece sent of a block moves that block's count alone.
LEMMA SendsOne ==
    ASSUME TypeOK, NEW i \in Indices, Sends(i)
    PROVE  /\ sent' = [sent EXCEPT ![i] = Number(sent[i]) + 1]
           /\ sent'[i] \in Nat /\ sent'[i] # Absent
           /\ Number(sent'[i]) = Number(sent[i]) + 1
           /\ Number(sent'[i]) <= answer.blocks[i].size
           /\ Number(sent[i]) \in Nat
           /\ answer.blocks[i].announced => sent[i] # Absent
<1>1. Number(sent[i]) \in Nat /\ answer.blocks[i].size \in Nat
    BY PieceTyped, BlocksTyped DEF TypeOK
<1>2. sent'[i] = Number(sent[i]) + 1
    BY DEF Sends, TypeOK
<1>3. Number(sent'[i]) = sent'[i]
    BY <1>1, <1>2 DEF Number
<1> QED BY <1>1, <1>2, <1>3 DEF Sends

LEMMA SlotInit == Init => SlotInv
<1> SUFFICES ASSUME Init, NEW i \in Indices
             PROVE  Number(sent[i]) <= answer.blocks[i].size /\ blocks[i] = Slot(i)
    BY DEF SlotInv
<1>1. IsAnswer(answer) /\ sent[i] = Absent /\ blocks[i] = NoSlot
    BY DEF Init
<1>2. answer.blocks[i].size \in Nat /\ Number(sent[i]) = 0
    BY <1>1, BlocksTyped DEF Number
<1> QED BY <1>1, <1>2 DEF Slot, Kept

\* What is needed of a step: the blocks it leaves alone, and the one it moves.
LEMMA SlotFrame ==
    ASSUME SlotInv, answer' = answer, NEW i \in Indices,
           \A j \in Indices \ {i} : sent'[j] = sent[j] /\ blocks'[j] = blocks[j],
           Number(sent'[i]) <= answer.blocks[i].size,
           blocks'[i] = Slot(i)'
    PROVE  SlotInv'
<1>1. Indices' = Indices
    BY DEF Indices
<1>2. ASSUME NEW j \in Indices \ {i}
      PROVE  Number(sent'[j]) <= answer.blocks[j].size /\ blocks'[j] = Slot(j)'
  <2>1. Slot(j)' = Slot(j)
      BY DEF Slot, Kept, Number
  <2> QED BY <2>1 DEF SlotInv, Number
<1> QED BY <1>1, <1>2 DEF SlotInv, Number

LEMMA SlotStep == TypeOK /\ SlotInv /\ [Next]_vars => SlotInv'
<1> SUFFICES ASSUME TypeOK, SlotInv, [Next]_vars PROVE SlotInv' OBVIOUS
<1>a. IsAnswer(answer) /\ sent \in [Indices -> Nat \cup {Absent}] /\ blocks \in [Indices -> Slots]
    BY DEF TypeOK
<1>1. CASE UNCHANGED <<answer, sent, blocks>>
    BY <1>1 DEF SlotInv, Slot, Kept, Indices, Number
<1>2. ASSUME NEW i \in Indices, ContentBlockStart(i) PROVE SlotInv'
  <2>1. /\ answer.blocks[i].type \in BlockTypes /\ answer.blocks[i].size \in Nat
        /\ answer.blocks[i].announced
      BY <1>2, <1>a, BlocksTyped DEF ContentBlockStart
  <2>2. /\ answer' = answer /\ sent'[i] = 0 /\ sent[i] = Absent
        /\ \A j \in Indices \ {i} : sent'[j] = sent[j] /\ blocks'[j] = blocks[j]
      BY <1>2, <1>a DEF ContentBlockStart
  <2>3. Number(sent'[i]) = 0 /\ sent'[i] # Absent
      BY <2>2 DEF Number
  <2>4. blocks[i] = NoSlot
      BY <2>2 DEF SlotInv, Slot, Kept
  <2>5. Beginning(i, 0) = <<>>
      BY BeginningGrows
  <2>6. blocks'[i] = Slot(i)'
    <3>1. CASE answer.blocks[i].type = "thinking"
        BY <1>2, <2>2, <2>4, <3>1 DEF ContentBlockStart, Slot, Kept
    <3>2. CASE answer.blocks[i].type # "thinking"
      <4>1. blocks'[i] = [type |-> answer.blocks[i].type, text |-> <<>>, json |-> <<>>]
          BY <1>2, <1>a, <3>2 DEF ContentBlockStart, NoSlot
      <4>2. Number(sent[i])' = 0 /\ Kept(i)'
          BY <2>1, <2>2, <2>3, <3>2 DEF Number, Kept
      <4> QED BY <2>2, <2>5, <4>1, <4>2 DEF Slot
    <3> QED BY <3>1, <3>2
  <2> QED BY <2>1, <2>2, <2>3, <2>6, SlotFrame
<1>3. ASSUME NEW i \in Indices, Sends(i), answer' = answer,
             blocks' = IF blocks[i] = NoSlot THEN blocks ELSE [blocks EXCEPT ![i] = Slot(i)'],
             answer.blocks[i].type # "thinking"
      PROVE  SlotInv'
  <2>1. /\ Number(sent'[i]) <= answer.blocks[i].size /\ sent'[i] # Absent
        /\ answer.blocks[i].announced => sent[i] # Absent
        /\ \A j \in Indices \ {i} : sent'[j] = sent[j] /\ blocks'[j] = blocks[j]
      BY <1>3, <1>a, SendsOne
  <2>2. blocks[i] = Slot(i)
      BY DEF SlotInv
  <2>3. blocks'[i] = Slot(i)'
    <3>1. CASE Kept(i)
      <4>1. blocks[i] # NoSlot
        <5>1. answer.blocks[i].type \in BlockTypes
            BY <1>a, BlocksTyped
        <5>2. blocks[i].type = answer.blocks[i].type
            BY <2>2, <3>1 DEF Slot
        <5> QED BY <5>1, <5>2 DEF NoSlot, BlockTypes
      <4> QED BY <1>3, <1>a, <4>1
    <3>2. CASE ~Kept(i)
      <4>1. blocks[i] = NoSlot /\ ~answer.blocks[i].announced
          BY <1>3, <2>1, <2>2, <3>2 DEF Slot, Kept
      <4> QED BY <1>3, <4>1 DEF Slot, Kept
    <3> QED BY <3>1, <3>2
  <2> QED BY <1>3, <2>1, <2>3, SlotFrame
<1>4. ASSUME NEW i \in Indices, Sends(i), answer' = answer, blocks[i] # NoSlot
      PROVE  /\ answer.blocks[i].type = "text" =>
                    [blocks[i] EXCEPT !.text = Append(@, Piece(i))] = Slot(i)'
             /\ answer.blocks[i].type = "tool_use" =>
                    [blocks[i] EXCEPT !.json = Append(@, Piece(i))] = Slot(i)'
  <2> DEFINE n == Number(sent[i])
  <2>1. n \in Nat /\ Number(sent[i])' = n + 1 /\ sent'[i] # Absent
      BY <1>4, SendsOne DEF Number
  <2>2. Append(Beginning(i, n), Piece(i)) = Beginning(i, Number(sent[i])')
      BY <2>1, BeginningGrows DEF Piece
  <2>3. blocks[i] = Slot(i) /\ Kept(i)
      BY <1>4 DEF SlotInv, Slot
  <2>4. Kept(i)'
      BY <1>4, <2>1, <2>3 DEF Kept
  <2>5. ASSUME answer.blocks[i].type = "text"
        PROVE  [blocks[i] EXCEPT !.text = Append(@, Piece(i))] = Slot(i)'
    <3>1. blocks[i] = [type |-> "text", text |-> Beginning(i, n), json |-> <<>>]
        BY <2>3, <2>5 DEF Slot
    <3>2. Slot(i)' = [type |-> "text", text |-> Beginning(i, Number(sent[i])'), json |-> <<>>]
        BY <1>4, <2>4, <2>5 DEF Slot
    <3> HIDE DEF n
    <3> QED BY <2>2, <3>1, <3>2
  <2>6. ASSUME answer.blocks[i].type = "tool_use"
        PROVE  [blocks[i] EXCEPT !.json = Append(@, Piece(i))] = Slot(i)'
    <3>1. blocks[i] = [type |-> "tool_use", text |-> <<>>, json |-> Beginning(i, n)]
        BY <2>3, <2>6 DEF Slot
    <3>2. Slot(i)' = [type |-> "tool_use", text |-> <<>>, json |-> Beginning(i, Number(sent[i])')]
        BY <1>4, <2>4, <2>6 DEF Slot
    <3> HIDE DEF n
    <3> QED BY <2>2, <3>1, <3>2
  <2> QED BY <2>5, <2>6
<1>5. ASSUME NEW i \in Indices, TextDelta(i) PROVE SlotInv'
  <2>1. Sends(i) /\ answer' = answer /\ answer.blocks[i].type = "text"
      BY <1>5 DEF TextDelta
  <2>2. blocks' = IF blocks[i] = NoSlot THEN blocks ELSE [blocks EXCEPT ![i] = Slot(i)']
    <3>1. blocks' = IF blocks[i] = NoSlot THEN blocks
                    ELSE [blocks EXCEPT ![i] = [blocks[i] EXCEPT !.text = Append(@, Piece(i))]]
        BY <1>5, <1>a DEF TextDelta
    <3> QED BY <1>4, <2>1, <3>1
  <2> QED BY <1>3, <2>1, <2>2
<1>6. ASSUME NEW i \in Indices, InputJsonDelta(i) PROVE SlotInv'
  <2>1. Sends(i) /\ answer' = answer /\ answer.blocks[i].type = "tool_use"
      BY <1>6 DEF InputJsonDelta
  <2>2. blocks' = IF blocks[i] = NoSlot THEN blocks ELSE [blocks EXCEPT ![i] = Slot(i)']
    <3>1. blocks' = IF blocks[i] = NoSlot THEN blocks
                    ELSE [blocks EXCEPT ![i] = [blocks[i] EXCEPT !.json = Append(@, Piece(i))]]
        BY <1>6, <1>a DEF InputJsonDelta
    <3> QED BY <1>4, <2>1, <3>1
  <2> QED BY <1>3, <2>1, <2>2
<1>7. ASSUME NEW i \in Indices, ThinkingDelta(i) PROVE SlotInv'
  <2>1. Sends(i) /\ answer' = answer /\ blocks' = blocks /\ answer.blocks[i].type = "thinking"
      BY <1>7 DEF ThinkingDelta
  <2>2. /\ Number(sent'[i]) <= answer.blocks[i].size
        /\ \A j \in Indices \ {i} : sent'[j] = sent[j]
      BY <1>a, <2>1, SendsOne
  <2>3. Slot(i) = NoSlot /\ Slot(i)' = NoSlot
      BY <2>1 DEF Slot, Kept
  <2> QED BY <2>1, <2>2, <2>3, SlotFrame DEF SlotInv
<1>8. CASE MessageStart \/ MessageDelta \/ End
    BY <1>1, <1>8 DEF MessageStart, MessageDelta, End
<1> QED BY <1>1, <1>2, <1>5, <1>6, <1>7, <1>8 DEF Next, vars

LEMMA SlotInvariant == Spec => [](TypeOK /\ SlotInv)
BY TypeInit, TypeStep, SlotInit, SlotStep, PTL DEF Spec

\* A sequence that agrees with a longer one as far as it goes is a prefix of it.
LEMMA PrefixOf ==
    ASSUME NEW s \in Seq(Nat \X Nat), NEW t \in Seq(Nat \X Nat), Len(s) <= Len(t),
           \A k \in 1..Len(s) : s[k] = t[k]
    PROVE  IsPrefix(s, t)
<1> DEFINE n == Len(s)
<1>1. n \in Nat /\ n <= Len(t)
    OBVIOUS
<1>2. /\ Len(SubSeq(s, 1, n)) = n /\ Len(SubSeq(t, 1, n)) = n
      /\ SubSeq(s, 1, n) \in Seq(Nat \X Nat) /\ SubSeq(t, 1, n) \in Seq(Nat \X Nat)
    BY <1>1
<1>3. ASSUME NEW k \in 1..n PROVE SubSeq(s, 1, n)[k] = SubSeq(t, 1, n)[k]
  <2> HIDE DEF n
  <2>1. SubSeq(s, 1, n)[k] = s[k]
      BY <1>1
  <2>2. SubSeq(t, 1, n)[k] = t[k]
      BY <1>1
  <2> QED BY <2>1, <2>2 DEF n
<1>4. SubSeq(s, 1, n) = SubSeq(t, 1, n)
    BY <1>2, <1>3
<1> QED BY <1>1, <1>4 DEF IsPrefix

\* The beginning of a block is a prefix of it.
LEMMA BeginningPrefix ==
    ASSUME TypeOK, NEW i \in Indices, NEW n \in Nat, n <= answer.blocks[i].size
    PROVE  IsPrefix(Beginning(i, n), Pieces(i))
<1> DEFINE m == answer.blocks[i].size
           s == Beginning(i, n)
           t == Pieces(i)
<1>1. m \in Nat /\ i \in Nat
    BY BlocksTyped DEF TypeOK
<1>2. /\ s \in Seq(Nat \X Nat) /\ t \in Seq(Nat \X Nat) /\ Len(s) = n /\ Len(t) = m
      /\ \A k \in 1..n : s[k] = <<i, k>> /\ t[k] = <<i, k>>
    BY <1>1 DEF Beginning, Pieces
<1>3. n <= m
    OBVIOUS
<1>4. IsPrefix(s, t)
  <2> HIDE DEF m, s, t
  <2> QED BY <1>1, <1>2, <1>3, PrefixOf
<1> QED BY <1>4

\* Wherever a stream of any number of blocks breaks off, and however they were
\* interleaved, what is assembled is a truncation of the answer.
THEOREM CutShort == Spec => []CutShortIsATruncation
<1>1. TypeOK /\ SlotInv => CutShortIsATruncation
  <2> SUFFICES ASSUME TypeOK, SlotInv PROVE CutShortIsATruncation OBVIOUS
  <2> DEFINE kept == {i \in Indices : \/ blocks[i].type = "tool_use"
                                      \/ blocks[i].type = "text" /\ blocks[i].text # <<>>}
             piece(i) == IF blocks[i].type = "text" THEN blocks[i].text
                                                    ELSE Parsed(i, blocks[i].json)
  <2>1. get_final_message.content = [i \in kept |-> piece(i)]
      BY DEF get_final_message
  <2>2. ASSUME NEW i \in kept
        PROVE  CASE answer.blocks[i].type = "text" -> IsPrefix(piece(i), Pieces(i))
                 [] answer.blocks[i].type = "tool_use" -> piece(i) \in {<<>>, Pieces(i)}
                 [] OTHER -> FALSE
    <3>1. /\ i \in Indices /\ blocks[i] = Slot(i) /\ Number(sent[i]) <= answer.blocks[i].size
          /\ Number(sent[i]) \in Nat
        BY PieceTyped DEF SlotInv
    <3>2. Kept(i) /\ blocks[i].type = answer.blocks[i].type
        BY <3>1 DEF Slot, NoSlot
    <3>3. CASE answer.blocks[i].type = "text"
      <4>1. piece(i) = Beginning(i, Number(sent[i]))
          BY <3>1, <3>2, <3>3 DEF Slot
      <4> QED BY <3>1, <3>3, <4>1, BeginningPrefix
    <3>4. CASE answer.blocks[i].type = "tool_use"
        BY <3>2, <3>4 DEF Parsed
    <3> QED BY <3>2, <3>3, <3>4
  <2>3. DOMAIN get_final_message.content = kept
      BY <2>1
  <2>4. \A i \in kept : get_final_message.content[i] = piece(i)
      BY <2>1
  <2> HIDE DEF kept, piece
  <2> QED BY <2>2, <2>3, <2>4 DEF CutShortIsATruncation
<1> QED BY <1>1, SlotInvariant, PTL
-----------------------------------------------------------------------------
(***************************************************************************)
(* Agreement with complete().  Of the usage this takes that the provider's *)
(* two instalments add up to what it reports of the whole answer.          *)
(***************************************************************************)
AddsUp(a) == Merged(Merged(NoUsage, a.first), a.last) = usage_from(a.total)

SentInv ==
    /\ answer \in Answers
    /\ stage = "message_start" => usage = NoUsage
    /\ stage = "content" => usage = Merged(NoUsage, answer.first)
    /\ stage = "sent" => /\ usage = Merged(Merged(NoUsage, answer.first), answer.last)
                         /\ stop = answer.stop_reason
                         /\ \A i \in Indices : /\ answer.blocks[i].announced => sent[i] # Absent
                                               /\ Number(sent[i]) = answer.blocks[i].size

LEMMA SentStep == TypeOK /\ SentInv /\ [Next]_vars => SentInv'
<1> SUFFICES ASSUME TypeOK, SentInv, [Next]_vars PROVE SentInv' OBVIOUS
<1>a. /\ answer.first \in Reports \cup {None} /\ answer.last \in Reports \cup {None}
    BY DEF TypeOK, IsAnswer
<1>1. CASE UNCHANGED vars
    BY <1>1 DEF vars, SentInv, Indices, Number, Merged
<1>2. CASE MessageStart
  <2>1. usage' = Merged(NoUsage, answer.first)
      BY <1>2, <1>a, UsageStep DEF MessageStart, SentInv
  <2> QED BY <1>2, <2>1 DEF MessageStart, SentInv, Merged, Number
<1>3. CASE MessageDelta
  <2>1. usage' = Merged(Merged(NoUsage, answer.first), answer.last)
      BY <1>3, <1>a, UsageStep DEF MessageDelta, SentInv
  <2>2. \A i \in Indices : /\ answer.blocks[i].announced => sent[i] # Absent
                           /\ Number(sent[i]) = answer.blocks[i].size
      BY <1>3 DEF MessageDelta
  <2>3. Indices' = Indices /\ answer' = answer /\ sent' = sent
      BY <1>3 DEF MessageDelta, Indices
  <2> QED BY <1>3, <2>1, <2>2, <2>3 DEF MessageDelta, SentInv, Merged, Number
<1>4. CASE End
  <2>1. stage' \in {stage, "cut"} /\ UNCHANGED <<answer, sent, stop, usage>>
      BY <1>4 DEF End
  <2> QED BY <1>4, <2>1 DEF End, SentInv, Indices, Merged, Number
<1>5. ASSUME NEW i \in Indices,
             ContentBlockStart(i) \/ TextDelta(i) \/ InputJsonDelta(i) \/ ThinkingDelta(i)
      PROVE  SentInv'
  <2>1. stage = "content" /\ UNCHANGED <<answer, stage, stop, usage>>
      BY <1>5 DEF ContentBlockStart, TextDelta, InputJsonDelta, ThinkingDelta, Sends
  <2> QED BY <2>1 DEF SentInv, Merged, Number
<1> QED BY <1>1, <1>2, <1>3, <1>4, <1>5 DEF Next

LEMMA SentInvariant == Spec => []SentInv
<1>1. Init => SentInv
    BY DEF Init, SentInv, NoUsage
<1> QED BY <1>1, SentStep, TypeCorrect, PTL DEF Spec

\* Of any answer, streamed to its end in any order of its pieces, the stream's
\* response is complete()'s, but for the text blocks without text.
THEOREM StreamAgrees ==
    ASSUME \A a \in Answers : AddsUp(a)
    PROVE  Spec => []StreamAgreesWithComplete
<1>1. TypeOK /\ SlotInv /\ SentInv => StreamAgreesWithComplete
  <2> SUFFICES ASSUME TypeOK, SlotInv, SentInv, drained, stage = "sent", Announced
               PROVE  LET final == get_final_message
                          empty == {i \in Indices : /\ answer.blocks[i].type = "text"
                                                    /\ Pieces(i) = <<>>}
                      IN  /\ DOMAIN final.content = DOMAIN complete.content \ empty
                          /\ \A i \in DOMAIN final.content : final.content[i] = complete.content[i]
                          /\ final.stop_reason = complete.stop_reason
                          /\ final.usage = complete.usage
      BY DEF StreamAgreesWithComplete
  <2> DEFINE kept == {i \in Indices : \/ blocks[i].type = "tool_use"
                                      \/ blocks[i].type = "text" /\ blocks[i].text # <<>>}
             piece(i) == IF blocks[i].type = "text" THEN blocks[i].text
                                                    ELSE Parsed(i, blocks[i].json)
             whole == {i \in Indices : answer.blocks[i].type \in {"text", "tool_use"}}
             empty == {i \in Indices : answer.blocks[i].type = "text" /\ Pieces(i) = <<>>}
  <2>1. ASSUME NEW i \in Indices
        PROVE  /\ i \in kept <=> i \in whole \ empty
               /\ i \in kept => piece(i) = Pieces(i)
    <3>1. /\ answer.blocks[i].type \in BlockTypes
          /\ blocks[i] = Slot(i)
          /\ Beginning(i, Number(sent[i])) = Pieces(i)
          /\ answer.blocks[i].announced /\ sent[i] # Absent
        BY BlocksTyped DEF TypeOK, SlotInv, SentInv, Announced, Beginning, Pieces
    <3>2. CASE answer.blocks[i].type = "thinking"
        BY <3>1, <3>2 DEF Slot, Kept, NoSlot
    <3>3. CASE answer.blocks[i].type = "text"
      <4>1. blocks[i].type = "text" /\ blocks[i].text = Pieces(i)
          BY <3>1, <3>3 DEF Slot, Kept
      <4> QED BY <3>3, <4>1
    <3>4. CASE answer.blocks[i].type = "tool_use"
      <4>1. blocks[i].type = "tool_use" /\ blocks[i].json = Pieces(i)
          BY <3>1, <3>4 DEF Slot, Kept
      <4> QED BY <3>4, <4>1 DEF Parsed
    <3> QED BY <3>1, <3>2, <3>3, <3>4 DEF BlockTypes
  <2>2. /\ get_final_message.content = [i \in kept |-> piece(i)]
        /\ get_final_message.stop_reason = stop_reason(stop)
        /\ get_final_message.usage = usage
      BY DEF get_final_message
  <2>3. /\ complete.content = [i \in whole |-> Pieces(i)]
        /\ complete.stop_reason = stop_reason(answer.stop_reason)
        /\ complete.usage = usage_from(answer.total)
      BY DEF complete
  <2>4. usage = usage_from(answer.total) /\ stop = answer.stop_reason
      BY DEF SentInv, AddsUp
  <2>5. kept = whole \ empty
      BY <2>1
  <2>6. /\ DOMAIN get_final_message.content = kept
        /\ \A i \in kept : get_final_message.content[i] = piece(i)
      BY <2>2
  <2>7. DOMAIN complete.content = whole /\ \A i \in whole : complete.content[i] = Pieces(i)
      BY <2>3
  <2>8. \A i \in kept : piece(i) = Pieces(i) /\ i \in whole
      BY <2>1, <2>5
  <2> HIDE DEF kept, piece, whole
  <2> QED BY <2>2, <2>3, <2>4, <2>5, <2>6, <2>7, <2>8
<1> QED BY <1>1, SlotInvariant, SentInvariant, PTL

-----------------------------------------------------------------------------
(***************************************************************************)
(* What a consumer was given, and what is kept.  DeltasAreKept is          *)
(* inductive given TypeOK and SlotInv: a slot that begins is empty, and    *)
(* nothing was given of its block before; a delta of another block takes   *)
(* no place among those of this one.                                       *)
(***************************************************************************)
Given(i, out) == {p \in DOMAIN out : out[p][1] = i}

\* at places the text among the deltas given: each in order, none left out.
PlacedBy(at, i, text, out) ==
    /\ at \in [DOMAIN text -> Given(i, out)]
    /\ \A k, l \in DOMAIN text : k < l => at[k] < at[l]
    /\ \A p \in Given(i, out) : \E k \in DOMAIN text : at[k] = p
    /\ \A k \in DOMAIN text : out[at[k]] = text[k]

Placed(i, text, out) == \E at : PlacedBy(at, i, text, out)

Concerns(i) == answer.blocks[i].type = "text" /\ answer.blocks[i].announced
AllPlaced == \A i \in Indices : Concerns(i) => Placed(i, blocks[i].text, yielded)

LEMMA KeptIsPlaced == AllPlaced <=> DeltasAreKept
<1>1. ASSUME NEW i \in Indices
      PROVE  Placed(i, blocks[i].text, yielded) <=>
                 \E at \in [DOMAIN blocks[i].text -> {p \in DOMAIN yielded : yielded[p][1] = i}] :
                     /\ \A k, l \in DOMAIN blocks[i].text : k < l => at[k] < at[l]
                     /\ \A p \in {q \in DOMAIN yielded : yielded[q][1] = i} :
                            \E k \in DOMAIN blocks[i].text : at[k] = p
                     /\ \A k \in DOMAIN blocks[i].text : yielded[at[k]] = blocks[i].text[k]
    BY Zenon DEF Placed, PlacedBy, Given
<1> QED BY <1>1, Zenon DEF DeltasAreKept, AllPlaced, Concerns

\* A piece given of another block, and one of this.
LEMMA GivenGrows ==
    ASSUME NEW out \in Seq(Nat \X Nat), NEW i \in Nat, NEW piece \in Nat \X Nat
    PROVE  /\ piece[1] # i => Given(i, Append(out, piece)) = Given(i, out)
           /\ piece[1] = i => Given(i, Append(out, piece)) = Given(i, out) \cup {Len(out) + 1}
           /\ \A p \in Given(i, out) : /\ p \in 1..Len(out)
                                       /\ Append(out, piece)[p] = out[p]
           /\ Append(out, piece)[Len(out) + 1] = piece
<1> DEFINE longer == Append(out, piece)
<1>1. /\ DOMAIN out = 1..Len(out) /\ DOMAIN longer = 1..(Len(out) + 1) /\ Len(out) \in Nat
      /\ \A p \in 1..Len(out) : longer[p] = out[p]
      /\ longer[Len(out) + 1] = piece
    OBVIOUS
<1> HIDE DEF longer
<1>2. \A p \in 1..(Len(out) + 1) : p \in 1..Len(out) \/ p = Len(out) + 1
    BY <1>1
<1>3. \A p \in 1..Len(out) : p \in 1..(Len(out) + 1)
    BY <1>1
<1>4. Len(out) + 1 \in 1..(Len(out) + 1)
    BY <1>1
<1>5. \A p : p \in Given(i, longer) <=>
                 \/ p \in Given(i, out)
                 \/ p = Len(out) + 1 /\ piece[1] = i
    BY <1>1, <1>2, <1>3, <1>4 DEF Given
<1>6. \A p \in Given(i, out) : p \in 1..Len(out) /\ longer[p] = out[p]
    BY <1>1 DEF Given
<1> QED BY <1>1, <1>5, <1>6 DEF longer

LEMMA PlacedBeside ==
    ASSUME NEW out \in Seq(Nat \X Nat), NEW i \in Nat, NEW piece \in Nat \X Nat, piece[1] # i,
           NEW text, Placed(i, text, out)
    PROVE  Placed(i, text, Append(out, piece))
<1>1. PICK at : PlacedBy(at, i, text, out)
    BY DEF Placed
<1>2. PlacedBy(at, i, text, Append(out, piece))
    BY <1>1, GivenGrows DEF PlacedBy
<1> QED BY <1>2 DEF Placed

LEMMA PlacedBehind ==
    ASSUME NEW out \in Seq(Nat \X Nat), NEW i \in Nat, NEW piece \in Nat \X Nat, piece[1] = i,
           NEW text \in Seq(Nat \X Nat), Placed(i, text, out)
    PROVE  Placed(i, Append(text, piece), Append(out, piece))
<1> DEFINE n == Len(text) + 1
           m == Len(out) + 1
           words == Append(text, piece)
           longer == Append(out, piece)
<1>1. PICK at : PlacedBy(at, i, text, out)
    BY DEF Placed
<1>2. /\ DOMAIN text = 1..Len(text) /\ DOMAIN words = 1..n /\ n \in Nat /\ m \in Nat
      /\ \A k \in 1..Len(text) : words[k] = text[k]
      /\ words[n] = piece
    OBVIOUS
<1>3. /\ Given(i, longer) = Given(i, out) \cup {m}
      /\ \A p \in Given(i, out) : p \in Nat /\ p < m /\ longer[p] = out[p]
      /\ longer[m] = piece
  <2>1. Len(out) \in Nat
      OBVIOUS
  <2>2. \A p \in 1..Len(out) : p \in Nat /\ p < m
      BY <2>1
  <2>3. /\ Given(i, longer) = Given(i, out) \cup {m}
        /\ \A p \in Given(i, out) : p \in 1..Len(out) /\ longer[p] = out[p]
        /\ longer[m] = piece
      BY GivenGrows
  <2> QED BY <2>2, <2>3, Zenon
<1> DEFINE on == [k \in 1..n |-> IF k = n THEN m ELSE at[k]]
<1>a. ASSUME NEW l \in Nat
      PROVE  \A k \in 1..(l + 1) : k = l + 1 \/ (k \in 1..l /\ k < l + 1)
    OBVIOUS
<1>4. \A k \in 1..n : k = n \/ (k \in 1..Len(text) /\ k < n)
  <2>1. Len(text) \in Nat
      OBVIOUS
  <2> QED BY <1>a, <2>1
<1>5. \A k \in 1..Len(text) : k \in 1..n /\ k # n
    BY <1>2
<1>6. n \in 1..n
    BY <1>2
<1> HIDE DEF n, m, words, longer
<1>7. \A k \in 1..Len(text) : /\ on[k] = at[k] /\ at[k] \in Given(i, out)
                              /\ at[k] \in Nat /\ at[k] < m
    BY <1>1, <1>2, <1>3, <1>5 DEF PlacedBy
<1>8. on[n] = m
    BY <1>6
<1>9. on \in [1..n -> Given(i, longer)]
    BY <1>3, <1>4, <1>7, <1>8
<1> HIDE DEF on
<1>10. ASSUME NEW k \in 1..n, NEW l \in 1..n, k < l PROVE on[k] < on[l]
  <2>1. k \in 1..Len(text)
      BY <1>2, <1>4, <1>10
  <2>2. CASE l = n
      BY <1>7, <1>8, <2>1, <2>2
  <2>3. CASE l \in 1..Len(text)
      BY <1>1, <1>2, <1>7, <1>10, <2>1, <2>3 DEF PlacedBy
  <2> QED BY <1>4, <2>2, <2>3
<1>11. ASSUME NEW p \in Given(i, longer) PROVE \E k \in 1..n : on[k] = p
  <2>1. CASE p = m
      BY <1>6, <1>8, <2>1
  <2>2. CASE p \in Given(i, out)
      BY <1>1, <1>2, <1>5, <1>7, <2>2 DEF PlacedBy
  <2> QED BY <1>3, <2>1, <2>2
<1>12. ASSUME NEW k \in 1..n PROVE longer[on[k]] = words[k]
  <2>1. CASE k = n
      BY <1>2, <1>3, <1>8, <2>1
  <2>2. CASE k \in 1..Len(text)
    <3>1. on[k] = at[k] /\ at[k] \in Given(i, out) /\ words[k] = text[k]
        BY <1>2, <1>7, <2>2
    <3>2. out[at[k]] = text[k]
        BY <1>1, <1>2, <2>2 DEF PlacedBy
    <3> QED BY <1>3, <3>1, <3>2
  <2> QED BY <1>4, <2>1, <2>2
<1>13. PlacedBy(on, i, words, longer)
    BY <1>2, <1>9, <1>10, <1>11, <1>12 DEF PlacedBy
<1> QED BY <1>13 DEF Placed, words, longer

\* Nothing placed, nothing given.
LEMMA PlacedNone ==
    ASSUME NEW i, NEW out
    PROVE  Placed(i, <<>>, out) <=> Given(i, out) = {}
<1>1. DOMAIN <<>> = {}
    OBVIOUS
<1>2. Placed(i, <<>>, out) => Given(i, out) = {}
    BY <1>1 DEF Placed, PlacedBy
<1>3. ASSUME Given(i, out) = {} PROVE PlacedBy([k \in {} |-> k], i, <<>>, out)
    BY <1>1, <1>3 DEF PlacedBy
<1> QED BY <1>2, <1>3 DEF Placed

\* Whatever a consumer was given of an announced block is in the block's text,
\* for any answer and any order of its pieces.
THEOREM NoDeltaIsLost == Spec => []DeltasAreKept
<1>1. Init => AllPlaced
  <2> SUFFICES ASSUME Init, NEW i \in Indices PROVE Placed(i, blocks[i].text, yielded)
      BY DEF AllPlaced
  <2>1. blocks[i].text = <<>> /\ yielded = <<>>
      BY DEF Init, NoSlot
  <2> QED BY <2>1, PlacedNone DEF Given
<1>2. TypeOK /\ SlotInv /\ AllPlaced /\ [Next]_vars => AllPlaced'
  <2> SUFFICES ASSUME TypeOK, SlotInv, AllPlaced, [Next]_vars PROVE AllPlaced'
      OBVIOUS
  <2> DEFINE Holds(i) == Placed(i, blocks[i].text, yielded)
  <2>a. \A i \in Indices : Concerns(i) => Holds(i)
      BY DEF AllPlaced
  <2>b. /\ IsAnswer(answer) /\ Indices \subseteq Nat /\ yielded \in Seq(Nat \X Nat)
        /\ blocks \in [Indices -> Slots]
      BY BlocksTyped DEF TypeOK
  <2>c. ASSUME answer' = answer, NEW i \in Indices,
               \A j \in Indices \ {i} : Concerns(j) => Holds(j)',
               Concerns(i) => Holds(i)'
        PROVE  AllPlaced'
    <3>1. Indices' = Indices /\ \A j \in Indices : Concerns(j)' <=> Concerns(j)
        BY <2>c DEF Indices, Concerns
    <3>2. \A j \in Indices : Concerns(j) => Holds(j)'
        BY <2>c
    <3> QED BY <3>1, <3>2 DEF AllPlaced
  <2>d. CASE UNCHANGED <<answer, blocks, yielded>>
      BY <2>d DEF AllPlaced, Concerns, Indices
  <2>1. ASSUME NEW i \in Indices, ContentBlockStart(i) PROVE AllPlaced'
    <3>1. answer' = answer /\ yielded' = yielded /\ \A j \in Indices \ {i} : blocks'[j] = blocks[j]
        BY <2>1, <2>b DEF ContentBlockStart
    <3>2. ASSUME Concerns(i) PROVE Holds(i)'
      <4>1. blocks[i].text = <<>>
        <5>1. ~Kept(i)
            BY <2>1 DEF ContentBlockStart, Kept
        <5>2. blocks[i] = NoSlot
            BY <5>1 DEF SlotInv, Slot
        <5> QED BY <5>2 DEF NoSlot
      <4>2. Given(i, yielded) = {}
          BY <2>a, <3>2, <4>1, PlacedNone
      <4>3. blocks'[i].text = <<>>
          BY <2>1, <2>b, <3>2 DEF ContentBlockStart, NoSlot, Concerns
      <4> QED BY <3>1, <4>2, <4>3, PlacedNone
    <3>3. \A j \in Indices \ {i} : Concerns(j) => Holds(j)'
        BY <2>a, <3>1
    <3> QED BY <2>c, <3>1, <3>2, <3>3
  <2>2. ASSUME NEW i \in Indices, TextDelta(i) PROVE AllPlaced'
    <3>1. /\ answer' = answer /\ yielded' = Append(yielded, Piece(i))
          /\ \A j \in Indices \ {i} : blocks'[j] = blocks[j]
        BY <2>2, <2>b DEF TextDelta
    <3>2. i \in Nat /\ Piece(i) \in Nat \X Nat /\ Piece(i)[1] = i
        BY <2>b, PieceTyped DEF Piece
    <3>3. ASSUME NEW j \in Indices \ {i}, Concerns(j) PROVE Holds(j)'
      <4>1. Holds(j) /\ j \in Nat /\ j # i
          BY <2>a, <2>b, <3>3
      <4>2. Placed(j, blocks[j].text, Append(yielded, Piece(i)))
          BY <2>b, <3>2, <4>1, PlacedBeside
      <4> QED BY <3>1, <4>2
    <3>4. ASSUME Concerns(i) PROVE Holds(i)'
      <4>1. Kept(i) /\ blocks[i].type = "text"
        <5>1. Kept(i)
            BY <2>2, <3>4 DEF TextDelta, Sends, Kept, Concerns
        <5>2. blocks[i].type = answer.blocks[i].type
          <6>1. blocks[i] = Slot(i)
              BY DEF SlotInv
          <6> QED BY <5>1, <6>1 DEF Slot
        <5> QED BY <2>2, <5>1, <5>2 DEF TextDelta
      <4>2. blocks'[i].text = Append(blocks[i].text, Piece(i)) /\ blocks[i].text \in Seq(Nat \X Nat)
          BY <2>2, <2>b, <4>1 DEF TextDelta, NoSlot, Slots
      <4>3. Placed(i, Append(blocks[i].text, Piece(i)), Append(yielded, Piece(i)))
          BY <2>a, <2>b, <3>2, <3>4, <4>2, PlacedBehind
      <4> QED BY <3>1, <4>2, <4>3
    <3> QED BY <2>c, <3>1, <3>3, <3>4
  <2>3. ASSUME NEW i \in Indices, InputJsonDelta(i) PROVE AllPlaced'
    <3>1. /\ answer' = answer /\ yielded' = yielded /\ answer.blocks[i].type # "text"
          /\ \A j \in Indices \ {i} : blocks'[j] = blocks[j]
        BY <2>3, <2>b DEF InputJsonDelta
    <3> QED BY <2>a, <2>c, <3>1 DEF Concerns
  <2>4. ASSUME NEW i \in Indices, ThinkingDelta(i) PROVE AllPlaced'
      BY <2>4, <2>d DEF ThinkingDelta
  <2> QED BY <2>1, <2>2, <2>3, <2>4, <2>d DEF Next, MessageStart, MessageDelta, End, vars
<1> QED BY <1>1, <1>2, KeptIsPlaced, TypeCorrect, SlotInvariant, PTL DEF Spec
=============================================================================
