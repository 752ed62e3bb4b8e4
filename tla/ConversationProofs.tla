------------------------- MODULE ConversationProofs -------------------------
(***************************************************************************)
(* Theorems about Conversation, for any tools, any answers of any length,  *)
(* and conversations of any length on any wires.                           *)
(*                                                                         *)
(* The last part is about PairedById.  The calls of one answer have ids of *)
(* their own (DistinctIds); of all the calls in the messages, only those   *)
(* of the last answer can be without a result (OnlyLastOpen), so what      *)
(* stands behind an answer answers no other one's calls (OneAnswer); and   *)
(* the turns of a request are the messages in their order (FromMessages).  *)
(***************************************************************************)
EXTENDS Conversation, WellFoundedInduction, TLAPS

\* A bounded set of numbers that is not empty has a greatest element.
LEMMA Greatest ==
    ASSUME NEW T \in SUBSET Nat, T # {}, NEW bound \in Nat, \A t \in T : t <= bound
    PROVE  \E m \in T : \A t \in T : t <= m
<1> DEFINE R == OpToRel(<, Nat)
           D == {bound - t : t \in T}
<1>1. IsWellFoundedOn(R, Nat)
    BY NatLessThanWellFounded
<1>2. D \subseteq Nat /\ D # {}
  <2>1. \A t \in T : bound - t \in Nat
      OBVIOUS
  <2> QED BY <2>1
<1>3. \A x, y \in Nat : x < y => <<x, y>> \in R
    BY DEF OpToRel
<1> HIDE DEF R, D
<1>4. PICK d \in D : \A e \in D : <<e, d>> \notin R
    BY <1>1, <1>2, WFMin
<1>5. PICK m \in T : d = bound - m
    BY DEF D
<1>6. \A t \in T : ~(bound - t < d)
  <2> TAKE t \in T
  <2>1. bound - t \in D
      BY DEF D
  <2> QED BY <2>1, <1>2, <1>3, <1>4
<1> QED BY <1>5, <1>6

\* What a message of the request is made of.
LEMMA MessageTyped ==
    ASSUME TranslationTypeOK, NEW m \in DOMAIN messages
    PROVE  /\ messages[m] \in Messages
           /\ messages[m].content \in Seq(Blocks)
           /\ Len(messages[m].content) \in Nat
           /\ DOMAIN messages[m].content = 1..Len(messages[m].content)
           /\ \A i \in DOMAIN messages[m].content : messages[m].content[i] \in Blocks
<1>1. messages[m] \in Messages
    BY DEF TranslationTypeOK
<1>2. messages[m].content \in Seq(Blocks)
    BY <1>1 DEF Messages
<1> QED BY <1>1, <1>2

\* Of the uses of an id in a conversation one is the last.
LEMMA LastUse ==
    ASSUME TranslationTypeOK, NEW id \in {Use(p).id : p \in Uses}
    PROVE  \E p \in Uses : /\ Use(p).id = id
                           /\ \A q \in Uses : Use(q).id = id => ~Precedes(p, q)
<1> DEFINE P == {p \in Uses : Use(p).id = id}
           M == {m \in DOMAIN messages : \E p \in P : p[1] = m}
<1>1. /\ \A p \in Uses : /\ p = <<p[1], p[2]>> 
                         /\ p[1] \in DOMAIN messages /\ p[2] \in DOMAIN messages[p[1]].content
    BY DEF Uses
<1>2. /\ messages \in Seq(Messages) /\ DOMAIN messages = 1..Len(messages)
      /\ Len(messages) \in Nat
    BY DEF TranslationTypeOK
<1>3. \A m \in DOMAIN messages : /\ messages[m].content \in Seq(Blocks)
                                 /\ Len(messages[m].content) \in Nat
                                 /\ DOMAIN messages[m].content = 1..Len(messages[m].content)
    BY MessageTyped
<1>4. M \in SUBSET Nat /\ M # {} /\ \A m \in M : m <= Len(messages)
    BY <1>1, <1>2
<1>5. PICK m \in M : \A n \in M : n <= m
    BY <1>2, <1>4, Greatest
<1> DEFINE I == {i \in DOMAIN messages[m].content : <<m, i>> \in P}
<1>6. /\ I \in SUBSET Nat /\ I # {} /\ \A i \in I : i <= Len(messages[m].content)
      /\ Len(messages[m].content) \in Nat
  <2>1. PICK p \in P : p[1] = m
      OBVIOUS
  <2>2. p = <<m, p[2]>> /\ p[2] \in I
      BY <2>1, <1>1
  <2> QED BY <2>2, <1>3
<1>7. PICK i \in I : \A j \in I : j <= i
    BY <1>6, Greatest
<1>8. <<m, i>> \in P
    OBVIOUS
<1>9. \A q \in P : ~Precedes(<<m, i>>, q)
  <2> TAKE q \in P
  <2>1. q = <<q[1], q[2]>> /\ q[1] \in M /\ q[2] \in DOMAIN messages[q[1]].content
      BY <1>1
  <2>2. q[1] <= m /\ q[1] \in Nat /\ m \in Nat
      BY <2>1, <1>5, <1>4
  <2>3. q[1] = m => q[2] \in I /\ q[2] <= i /\ q[2] \in Nat /\ i \in Nat
      BY <2>1, <1>6, <1>7
  <2> QED BY <2>2, <2>3 DEF Precedes
<1> QED BY <1>8, <1>9

\* _tool_name_index maps an id to the name in one of its uses.
LEMMA IndexTyped ==
    ASSUME TranslationTypeOK, NEW id \in {Use(p).id : p \in Uses}
    PROVE  \E p \in Uses : Use(p).id = id /\ tool_name_index[id] = Use(p).name
<1> DEFINE IsLast(p) == /\ Use(p).id = id
                        /\ \A q \in Uses : Use(q).id = id => ~Precedes(p, q)
<1>1. \E p \in Uses : IsLast(p)
    BY LastUse
<1> DEFINE last == CHOOSE p \in Uses : IsLast(p)
<1>2. last \in Uses /\ IsLast(last)
    BY <1>1, Zenon
<1>3. tool_name_index[id] = Use(last).name
    BY DEF tool_name_index
<1> QED BY <1>2, <1>3

\* A use is a tool_use block of the messages.
LEMMA UseTyped ==
    ASSUME TranslationTypeOK, NEW p \in Uses
    PROVE  /\ p[1] \in DOMAIN messages /\ p[2] \in DOMAIN messages[p[1]].content
           /\ Use(p) = messages[p[1]].content[p[2]]
           /\ Use(p) \in Blocks /\ Use(p).type = "tool_use"
<1>1. /\ p[1] \in DOMAIN messages /\ p[2] \in DOMAIN messages[p[1]].content
      /\ messages[p[1]].content[p[2]].type = "tool_use"
    BY DEF Uses
<1> QED BY <1>1, MessageTyped DEF Use

\* _resolve_tool_name returns a name, or none.
LEMMA ResolveTyped ==
    ASSUME TranslationTypeOK, NEW id \in Ids
    PROVE  resolve_tool_name(id) \in Names \cup {NoName}
<1>1. CASE id \in DOMAIN tool_name_index
  <2>1. id \in {Use(p).id : p \in Uses}
      BY <1>1 DEF tool_name_index
  <2>2. PICK p \in Uses : tool_name_index[id] = Use(p).name
      BY <2>1, IndexTyped
  <2>3. Use(p).name \in Names \cup {NoName}
      BY UseTyped DEF Blocks
  <2> QED BY <1>1, <2>2, <2>3 DEF resolve_tool_name
<1>2. CASE id \notin DOMAIN tool_name_index
    BY <1>2 DEF resolve_tool_name, Ids
<1> QED BY <1>1, <1>2

-----------------------------------------------------------------------------
\* What the assumption says of an answer.
LEMMA PartTyped ==
    ASSUME NEW a \in Answers
    PROVE  /\ a.parts \in Seq(Stream!Parts) /\ Len(a.parts) \in Nat
           /\ DOMAIN a.parts = 1..Len(a.parts)
           /\ \A i \in 1..Len(a.parts) :
                 /\ a.parts[i].type \in {"text", "functionCall", "skipped"}
                 /\ a.parts[i].name \in Names \cup {NoName}
                 /\ a.parts[i].type = "functionCall" <=> a.parts[i].name # NoName
           /\ a.finishReason \in Stream!Reasons
           /\ a.interim \subseteq Stream!Reports
           /\ a.total \in Stream!Reports \cup {None}
           /\ a.total = None => a.interim = {}
<1>1. Stream!IsAnswer(a)
    BY AnswersAssumption DEF Stream!AnswersAreAnswers
<1>2. a.parts \in Seq(Stream!Parts)
    BY <1>1 DEF Stream!IsAnswer
<1>3. \A i \in 1..Len(a.parts) : a.parts[i] \in Stream!Parts
    BY <1>2
<1> QED BY <1>1, <1>2, <1>3 DEF Stream!IsAnswer, Stream!Parts

UsageType == [input : Nat, output : Nat, read : Stream!Counts]

\* _usage_from returns a usage, whatever is missing from the report.
LEMMA UsageTyped ==
    ASSUME NEW raw \in Stream!Reports \cup {None}
    PROVE  Stream!usage_from(raw) \in UsageType
<1>1. None \notin Nat
    BY AnswersAssumption DEF Stream!AnswersAreAnswers
<1>2. CASE raw = None
    BY <1>2 DEF Stream!usage_from, UsageType, Stream!Counts
<1>3. CASE raw \in Stream!Reports /\ raw # None
  <2>1. /\ raw.prompt \in Nat \cup {None} /\ raw.candidates \in Nat \cup {None}
        /\ raw.thoughts \in Nat \cup {None} /\ raw.cached \in Stream!Counts
      BY <1>3 DEF Stream!Reports, Stream!Counts
  <2>2. /\ Stream!Number(raw.prompt) \in Nat /\ Stream!Number(raw.candidates) \in Nat
        /\ Stream!Number(raw.thoughts) \in Nat
      BY <2>1, <1>1 DEF Stream!Number
  <2> QED BY <1>3, <2>1, <2>2 DEF Stream!usage_from, UsageType
<1> QED BY <1>2, <1>3

\* A stream stays within its answer.
InRange == answer # None => /\ taken <= Len(answer.parts)
                            /\ \A k \in DOMAIN calls : calls[k] \in 1..Len(answer.parts)

\* A chunk leaves a usage behind.
LEMMA InterimTyped ==
    ASSUME Stream!TypeOK, answer \in Answers, Stream!Interim
    PROVE  usage' \in UsageType
<1>1. usage \in UsageType
    BY DEF Stream!TypeOK, UsageType
<1>2. \A raw \in answer.interim : Stream!usage_from(raw) \in UsageType
    BY PartTyped, UsageTyped
<1> QED BY <1>1, <1>2 DEF Stream!Interim

\* The block of a call is a block, whatever number it gets.
LEMMA ToolUseTyped ==
    ASSUME answer \in Answers, NEW n \in Nat, NEW i \in 1..Len(answer.parts)
    PROVE  Stream!ToolUseBlock(n, i) \in Stream!ContentBlocks
<1>1. answer.parts[i].name \in Names \cup {NoName}
    BY PartTyped
<1>2. <<i>> \in Seq(Nat)
    BY PartTyped
<1>3. Stream!call_id(n, answer.parts[i].name) \in Stream!Ids
    BY <1>1 DEF Stream!call_id, Stream!Ids
<1> QED BY <1>1, <1>2, <1>3 DEF Stream!ToolUseBlock, Stream!ContentBlocks

\* The block of a text is a block.
LEMMA TextBlockTyped ==
    ASSUME NEW pieces \in Seq(Nat)
    PROVE  Stream!TextBlock(pieces) \in Stream!ContentBlocks
BY DEF Stream!TextBlock, Stream!ContentBlocks, Stream!NoId, Stream!Ids

\* One part: the type of what both ways make of it.
LEMMA TakesTyped ==
    ASSUME Stream!TypeOK, answer \in Answers, NEW type, Stream!Takes(type)
    PROVE  /\ taken' = taken + 1 /\ taken + 1 \in 1..Len(answer.parts)
           /\ answer.parts[taken + 1].type = type
           /\ answer' = answer /\ finish' = finish /\ drained' = drained
           /\ usage' \in UsageType
<1>1. usage' \in UsageType
    BY InterimTyped DEF Stream!Takes
<1>2. Len(answer.parts) \in Nat /\ taken \in Nat
    BY PartTyped DEF Stream!TypeOK
<1> QED BY <1>1, <1>2 DEF Stream!Takes

\* A step of the stream keeps its types and stays within its answer.
LEMMA StreamTyped ==
    ASSUME Stream!TypeOK, InRange, answer \in Answers, Stream!Next
    PROVE  Stream!TypeOK' /\ InRange' /\ answer' = answer
<1>n. None \notin Answers
    BY AnswersAssumption DEF Stream!AnswersAreAnswers
<1>t. /\ taken \in Nat /\ text \in Seq(Nat) /\ calls \in Seq(Nat)
      /\ finish \in Stream!Reasons \cup {None}
      /\ drained \in BOOLEAN
      /\ blocks \in Seq(Stream!ContentBlocks)
      /\ usage \in UsageType
    BY DEF Stream!TypeOK, UsageType
<1>1. CASE Stream!TextPart
  <2>1. /\ taken' = taken + 1 /\ taken + 1 \in 1..Len(answer.parts)
        /\ answer' = answer /\ finish' = finish /\ drained' = drained
        /\ usage' \in UsageType
      BY <1>1, TakesTyped DEF Stream!TextPart
  <2>2. text' \in Seq(Nat) /\ calls' = calls
      BY <1>1, <1>t DEF Stream!TextPart
  <2>3. ASSUME blocks # <<>> /\ blocks[Len(blocks)].type = "text"
        PROVE  blocks' \in Seq(Stream!ContentBlocks)
    <3>1. /\ blocks[Len(blocks)] \in Stream!ContentBlocks /\ Len(blocks) \in DOMAIN blocks
          /\ DOMAIN blocks = 1..Len(blocks) /\ Len(blocks) \in Nat
        BY <1>t, <2>3
    <3>2. blocks[Len(blocks)].pieces \in Seq(Nat)
        BY <3>1 DEF Stream!ContentBlocks
    <3>3. Append(blocks[Len(blocks)].pieces, taken + 1) \in Seq(Nat)
        BY <3>2, <1>t
    <3>4. [blocks[Len(blocks)] EXCEPT !.pieces = Append(@, taken + 1)] \in Stream!ContentBlocks
        BY <3>1, <3>3 DEF Stream!ContentBlocks
    <3>5. blocks' = [blocks EXCEPT ![Len(blocks)] =
                        [blocks[Len(blocks)] EXCEPT !.pieces = Append(@, taken + 1)]]
        BY <1>1, <2>3, <3>1 DEF Stream!TextPart
    <3> QED BY <3>1, <3>4, <3>5, <1>t
  <2>4. ASSUME ~(blocks # <<>> /\ blocks[Len(blocks)].type = "text")
        PROVE  blocks' \in Seq(Stream!ContentBlocks)
    <3>1. <<taken + 1>> \in Seq(Nat)
        BY <1>t
    <3>2. Stream!TextBlock(<<taken + 1>>) \in Stream!ContentBlocks
        BY <3>1, TextBlockTyped
    <3>3. blocks' = Append(blocks, Stream!TextBlock(<<taken + 1>>))
        BY <1>1, <2>4 DEF Stream!TextPart
    <3> QED BY <3>2, <3>3, <1>t
  <2>5. blocks' \in Seq(Stream!ContentBlocks)
      BY <2>3, <2>4
  <2>6. InRange'
      BY <2>1, <2>2, <1>n DEF InRange
  <2> QED BY <2>1, <2>2, <2>5, <2>6, <1>t DEF Stream!TypeOK, UsageType
<1>2. CASE Stream!CallPart
  <2>1. /\ taken' = taken + 1 /\ taken + 1 \in 1..Len(answer.parts)
        /\ answer' = answer /\ finish' = finish /\ drained' = drained
        /\ usage' \in UsageType
      BY <1>2, TakesTyped DEF Stream!CallPart
  <2>2. calls' = Append(calls, taken + 1) /\ text' = text
      BY <1>2 DEF Stream!CallPart
  <2>3. Stream!ToolUseBlock(taken, taken + 1) \in Stream!ContentBlocks
      BY <2>1, <1>t, ToolUseTyped
  <2>4. blocks' \in Seq(Stream!ContentBlocks)
      BY <1>2, <2>3, <1>t DEF Stream!CallPart
  <2>5. InRange'
    <3>1. \A k \in DOMAIN calls' : calls'[k] \in 1..Len(answer.parts)
        BY <2>1, <2>2, <1>t, <1>n DEF InRange
    <3> QED BY <3>1, <2>1 DEF InRange
  <2> QED BY <2>1, <2>2, <2>4, <2>5, <1>t DEF Stream!TypeOK, UsageType
<1>3. CASE Stream!SkippedPart
  <2>1. /\ taken' = taken + 1 /\ taken + 1 \in 1..Len(answer.parts)
        /\ answer' = answer /\ finish' = finish /\ drained' = drained
        /\ usage' \in UsageType
      BY <1>3, TakesTyped DEF Stream!SkippedPart
  <2>2. calls' = calls /\ text' = text /\ blocks' = blocks
      BY <1>3 DEF Stream!SkippedPart
  <2> QED BY <2>1, <2>2, <1>t, <1>n DEF Stream!TypeOK, UsageType, InRange
<1>4. CASE Stream!Finish
  <2>1. answer.total # None => Stream!usage_from(answer.total) \in UsageType
      BY PartTyped, UsageTyped
  <2>2. usage' \in UsageType
      BY <1>4, <2>1, <1>t DEF Stream!Finish
  <2>3. answer.finishReason \in Stream!Reasons
      BY PartTyped
  <2> QED BY <1>4, <2>2, <2>3, <1>t DEF Stream!Finish, Stream!TypeOK, UsageType, InRange
<1>5. CASE Stream!End
    BY <1>5 DEF Stream!End, Stream!TypeOK, InRange
<1> QED BY <1>1, <1>2, <1>3, <1>4, <1>5 DEF Stream!Next

-----------------------------------------------------------------------------
(***************************************************************************)
(* What the messages have to do with the answers they come from.           *)
(***************************************************************************)
Placed(call) == call[1] \in DOMAIN said /\ call[2] \in DOMAIN said[call[1]]
Said(call) == said[call[1]][call[2]]

\* Ids of Gemini calls carry the name; those of other providers are unique.
Identified(block, s, i) ==
    \/ block.id.turn = 0 /\ block.id.name = block.name
    \/ block.id = [turn |-> s, n |-> i, name |-> NoName]

SaidLinked ==
    \A s \in DOMAIN said : \A i \in DOMAIN said[s] :
        /\ said[s][i].type # "tool_result"
        /\ said[s][i].call = <<s, i>>
        /\ said[s][i].type = "tool_use" => Identified(said[s][i], s, i)

Linked(block) ==
    /\ block.type = "tool_use" => Placed(block.call) /\ block = Said(block.call)
    /\ block.type = "tool_result" => /\ Placed(block.call)
                                     /\ Said(block.call).type = "tool_use"
                                     /\ block.id = Said(block.call).id

MessagesLinked ==
    \A m \in DOMAIN messages : \A i \in DOMAIN messages[m].content :
        Linked(messages[m].content[i])

\* Calls of Gemini are given ids with their names.
BlocksNamed == \A k \in DOMAIN blocks : blocks[k].type = "tool_use" =>
                    blocks[k].id.turn = 0 /\ blocks[k].id.name = blocks[k].name

\* No request and no answer but during a call.
AtRest == /\ pc = "caller" => wire = "none" /\ body = <<>>
          /\ pc \in {"complete", "stream"} => answer # None
          /\ wire \notin {"openai", "gemini"} => ~translating
          /\ pc # "request" => ~translating

CallInv == TypeOK /\ InRange /\ BlocksNamed /\ AtRest /\ SaidLinked /\ MessagesLinked

\* What an answer said is a block.
LEMMA SaidTyped ==
    ASSUME TypeOK, NEW call, Placed(call)
    PROVE  Said(call) \in Blocks
<1>1. said[call[1]] \in Seq(Blocks)
    BY DEF TypeOK, Placed
<1> QED BY <1>1 DEF Placed, Said

\* What the caller says is a block.
LEMMA TextTyped == Text \in Blocks
<1>1. Stream!NoId \in Ids /\ <<0, 0>> \in Nat \X Nat
    BY DEF Stream!NoId, Ids
<1> QED BY <1>1 DEF Text, Blocks

\* Every call without a result is where it says it is.
LEMMA UnansweredPlaced ==
    ASSUME CallInv, NEW call \in Unanswered
    PROVE  /\ Placed(call) /\ Said(call).type = "tool_use" /\ call \in Nat \X Nat
           /\ Said(call).id \in Ids
<1>1. PICK p \in Uses : call = Use(p).call
    BY DEF Unanswered
<1>2. /\ p[1] \in DOMAIN messages /\ p[2] \in DOMAIN messages[p[1]].content
      /\ Use(p) = messages[p[1]].content[p[2]] /\ Use(p) \in Blocks /\ Use(p).type = "tool_use"
    BY UseTyped DEF CallInv, TypeOK
<1>3. Linked(Use(p))
    BY <1>2 DEF CallInv, MessagesLinked
<1> QED BY <1>1, <1>2, <1>3 DEF Linked, Blocks

\* The caller's result of a call has the id of the call.
LEMMA ResultTyped ==
    ASSUME CallInv, NEW call \in Unanswered
    PROVE  ResultOf(call) \in Blocks /\ Linked(ResultOf(call))
<1>1. /\ Placed(call) /\ Said(call).type = "tool_use" /\ call \in Nat \X Nat
      /\ Said(call).id \in Ids
    BY UnansweredPlaced
<1>2. ResultOf(call) = [type |-> "tool_result", id |-> Said(call).id,
                        name |-> NoName, call |-> call]
    BY DEF ResultOf, Said
<1> QED BY <1>1, <1>2 DEF Blocks, Linked

\* What the caller may say.
LEMMA SaysStep ==
    ASSUME CallInv, NEW content \in Seq(Blocks), Says(content),
           \A i \in DOMAIN content : Linked(content[i])
    PROVE  CallInv'
<1>1. messages' = Append(messages, [role |-> "user", content |-> content])
    BY DEF Says
<1>2. UNCHANGED <<wire, translating, done, at, parts, tool_calls, results, body, pc, said,
                  answer, taken, text, calls, finish, usage, drained, blocks>>
    BY DEF Says, loop, stream
<1>3. messages \in Seq(Messages) /\ [role |-> "user", content |-> content] \in Messages
    BY DEF CallInv, TypeOK, TranslationTypeOK, Messages
<1>4. TypeOK'
    BY <1>1, <1>2, <1>3 DEF CallInv, TypeOK, TranslationTypeOK, Stream!TypeOK
<1>5. MessagesLinked'
  <2>1. \A block : Linked(block) => Linked(block)'
      BY <1>2 DEF Linked, Placed, Said
  <2>2. ASSUME NEW m \in DOMAIN messages', NEW i \in DOMAIN messages'[m].content
        PROVE  Linked(messages'[m].content[i])
    <3>1. CASE m \in DOMAIN messages
        BY <3>1, <1>1, <1>3, <2>2 DEF CallInv, MessagesLinked
    <3>2. CASE m = Len(messages) + 1
        BY <3>2, <1>1, <1>3, <2>2
    <3> QED BY <3>1, <3>2, <1>1, <1>3
  <2> QED BY <2>1, <2>2 DEF MessagesLinked
<1>6. InRange' /\ BlocksNamed' /\ AtRest' /\ SaidLinked'
    BY <1>2 DEF CallInv, InRange, BlocksNamed, AtRest, SaidLinked, Identified
<1> QED BY <1>4, <1>5, <1>6 DEF CallInv

\* The caller says something.
LEMMA SayStep == CallInv /\ Say => CallInv'
<1> SUFFICES ASSUME CallInv, Say PROVE CallInv' OBVIOUS
<1> DEFINE content == <<Text>>
<1>1. content \in Seq(Blocks) /\ \A i \in DOMAIN content : content[i] = Text
    BY TextTyped
<1>2. Linked(Text) /\ Says(content)
    BY DEF Text, Linked, Say
<1> QED BY <1>1, <1>2, SaysStep

\* The caller answers calls, in any order and in any number of messages.
LEMMA ReplyStep == CallInv /\ Reply => CallInv'
<1> SUFFICES ASSUME CallInv, Reply PROVE CallInv' OBVIOUS
<1>0. PICK n \in 1..Len(said[Len(said)]) : \E order \in [1..n -> Unanswered] :
          LET content == [i \in 1..n |-> ResultOf(order[i])]
          IN  Says(content) \/ Says(<<Text>> \o content)
    BY DEF Reply
<1>1. PICK order \in [1..n -> Unanswered] :
          LET content == [i \in 1..n |-> ResultOf(order[i])]
          IN  Says(content) \/ Says(<<Text>> \o content)
    BY <1>0
<1> DEFINE content == [i \in 1..n |-> ResultOf(order[i])]
<1>2. Says(content) \/ Says(<<Text>> \o content)
    BY <1>1
<1>n. n \in Nat
    OBVIOUS
<1>3. \A i \in 1..n : content[i] \in Blocks /\ Linked(content[i])
    BY ResultTyped
<1>4. content \in Seq(Blocks) /\ Len(content) = n
    BY <1>n, <1>3
<1> HIDE DEF content
<1>5. Text \in Blocks /\ Linked(Text)
    BY TextTyped DEF Text, Linked
<1>6. <<Text>> \o content \in Seq(Blocks)
    BY <1>4, <1>5
<1>7. ASSUME NEW i \in DOMAIN (<<Text>> \o content) PROVE Linked((<<Text>> \o content)[i])
  <2>1. DOMAIN (<<Text>> \o content) = 1..(1 + n)
      BY <1>4, <1>5, <1>n
  <2>2. CASE i = 1
      BY <2>2, <1>4, <1>5
  <2>3. CASE i \in 2..(1 + n)
    <3>1. (<<Text>> \o content)[i] = content[i - 1] /\ i - 1 \in 1..n
        BY <2>3, <1>4, <1>5, <1>n
    <3> QED BY <3>1, <1>3
  <2> QED BY <2>1, <2>2, <2>3, <1>n
<1>8. \A i \in DOMAIN content : Linked(content[i])
    BY <1>3, <1>4
<1> QED BY <1>2, <1>4, <1>6, <1>7, <1>8, SaysStep

\* The caller forgets its oldest messages.
LEMMA ForgetStep ==
    ASSUME CallInv, NEW n \in 1..MaxMessages, Forget(n)
    PROVE  CallInv'
<1>1. UNCHANGED <<wire, translating, done, at, parts, tool_calls, results, body, pc, said,
                  answer, taken, text, calls, finish, usage, drained, blocks>>
    BY DEF Forget, loop, stream
<1>2. messages \in Seq(Messages) /\ Len(messages) \in Nat
    BY DEF CallInv, TypeOK, TranslationTypeOK
<1>3. n \in Nat /\ n < Len(messages) /\ messages' = SubSeq(messages, n + 1, Len(messages))
    BY <1>2 DEF Forget
<1>4. /\ messages' \in Seq(Messages)
      /\ DOMAIN messages' = 1..(Len(messages) - n)
      /\ \A m \in 1..(Len(messages) - n) : messages'[m] = messages[n + m] /\ n + m \in DOMAIN messages
    BY <1>2, <1>3
<1>5. TypeOK'
    BY <1>1, <1>4 DEF CallInv, TypeOK, TranslationTypeOK, Stream!TypeOK
<1>6. MessagesLinked'
  <2>1. \A block : Linked(block) => Linked(block)'
      BY <1>1 DEF Linked, Placed, Said
  <2>2. ASSUME NEW m \in DOMAIN messages', NEW i \in DOMAIN messages'[m].content
        PROVE  Linked(messages'[m].content[i])
      BY <1>4 DEF CallInv, MessagesLinked
  <2> QED BY <2>1, <2>2 DEF MessagesLinked
<1>7. InRange' /\ BlocksNamed' /\ AtRest' /\ SaidLinked'
    BY <1>1 DEF CallInv, InRange, BlocksNamed, AtRest, SaidLinked, Identified
<1> QED BY <1>5, <1>6, <1>7 DEF CallInv

\* Nothing that is linked changes.
LEMMA Untouched ==
    ASSUME CallInv, messages' = messages, said' = said
    PROVE  SaidLinked' /\ MessagesLinked'
<1>1. \A block : Linked(block) => Linked(block)'
    BY DEF Linked, Placed, Said
<1> QED BY <1>1 DEF CallInv, SaidLinked, MessagesLinked, Identified

\* The caller asks a wire; the Anthropic wire has its body at once.
LEMMA AskStep ==
    ASSUME CallInv, NEW w \in {"openai", "anthropic", "gemini"}, Ask(w)
    PROVE  CallInv'
<1>1. UNCHANGED <<messages, said, answer, taken, text, calls, finish, usage, drained, blocks>>
    BY DEF Ask, stream
<1>2. /\ wire' = w /\ translating' \in BOOLEAN /\ (translating' <=> w # "anthropic")
      /\ done' = 0 /\ at' = 0 /\ parts' = <<>> /\ tool_calls' = <<>> /\ results' = <<>>
    BY DEF Ask, Build
<1>3. pc = "caller" /\ pc' = "request"
    BY DEF Ask, Goto, Ready
<1>4. <<>> \in Seq(Turns) /\ <<>> \in Seq(Blocks)
    OBVIOUS
<1>5. body' \in Seq(Turns)
  <2> DEFINE passed == [m \in DOMAIN messages |-> [role |-> messages[m].role,
                                                   parts |-> messages[m].content]]
  <2>1. messages \in Seq(Messages) /\ Len(messages) \in Nat /\ DOMAIN messages = 1..Len(messages)
      BY DEF CallInv, TypeOK, TranslationTypeOK
  <2>2. \A m \in DOMAIN messages : passed[m] \in Turns
    <3> TAKE m \in DOMAIN messages
    <3>1. messages[m] \in Messages
        BY <2>1
    <3> QED BY <3>1 DEF Messages, Turns
  <2>3. passed \in Seq(Turns)
      BY <2>1, <2>2
  <2>4. body' = passed \/ body' = <<>>
      BY DEF Ask, Build
  <2> QED BY <2>3, <2>4, <1>4
<1>6. TypeOK'
    BY <1>1, <1>2, <1>3, <1>4, <1>5 DEF CallInv, TypeOK, TranslationTypeOK, Stream!TypeOK
<1>7. InRange' /\ BlocksNamed'
    BY <1>1 DEF CallInv, InRange, BlocksNamed
<1>8. AtRest'
    BY <1>2, <1>3 DEF AtRest
<1> QED BY <1>1, <1>6, <1>7, <1>8, Untouched DEF CallInv

-----------------------------------------------------------------------------
(***************************************************************************)
(* The loops.                                                              *)
(***************************************************************************)
\* _append returns turns.
LEMMA AppendTyped ==
    ASSUME NEW contents \in Seq(Turns), NEW role \in {"user", "assistant", "model", "tool"},
           NEW new \in Seq(Blocks)
    PROVE  append(contents, role, new) \in Seq(Turns)
<1>1. CASE new = <<>>
    BY <1>1 DEF append
<1>2. CASE new # <<>> /\ contents # <<>> /\ contents[Len(contents)].role = role
  <2>1. /\ Len(contents) \in DOMAIN contents /\ contents[Len(contents)] \in Turns
        /\ DOMAIN contents = 1..Len(contents) /\ Len(contents) \in Nat
      BY <1>2
  <2>2. contents[Len(contents)].parts \o new \in Seq(Blocks)
      BY <2>1 DEF Turns
  <2>3. [contents[Len(contents)] EXCEPT !.parts = @ \o new] \in Turns
      BY <2>1, <2>2 DEF Turns
  <2>4. append(contents, role, new) =
            [contents EXCEPT ![Len(contents)] = [contents[Len(contents)] EXCEPT !.parts = @ \o new]]
      BY <1>2, <2>1 DEF append
  <2> QED BY <2>1, <2>3, <2>4
<1>3. CASE new # <<>> /\ ~(contents # <<>> /\ contents[Len(contents)].role = role)
  <2>1. [role |-> role, parts |-> new] \in Turns
      BY DEF Turns
  <2> QED BY <1>3, <2>1 DEF append
<1> QED BY <1>1, <1>2, <1>3

\* The next block.
LEMMA BlockTaken ==
    ASSUME CallInv, NextBlock
    PROVE  /\ done + 1 \in DOMAIN messages /\ at + 1 \in DOMAIN messages[done + 1].content
           /\ Content = messages[done + 1].content /\ Content[at + 1] \in Blocks
           /\ at' = at + 1 /\ at' \in Nat
           /\ UNCHANGED <<wire, messages, translating, done, body>>
<1>1. /\ messages \in Seq(Messages) /\ Len(messages) \in Nat /\ done \in Nat /\ at \in Nat
      /\ done < Len(messages) /\ at < Len(Content)
    BY DEF NextBlock, CallInv, TypeOK, TranslationTypeOK
<1>2. done + 1 \in DOMAIN messages
    BY <1>1
<1>3. Content = messages[done + 1].content
    BY DEF Content
<1>4. /\ DOMAIN messages[done + 1].content = 1..Len(messages[done + 1].content)
      /\ Len(messages[done + 1].content) \in Nat
      /\ \A i \in DOMAIN messages[done + 1].content : messages[done + 1].content[i] \in Blocks
    BY <1>2, MessageTyped DEF CallInv, TypeOK
<1> QED BY <1>1, <1>2, <1>3, <1>4 DEF NextBlock

\* A message is done with: which turns it adds, with either wire.
LEMMA ToContents ==
    ASSUME CallInv, to_contents
    PROVE  \E role \in {"model", "user"} :
               body' = append(append(body, "user", results), role, parts)
BY DEF to_contents

\* A message for OpenAI adds turns.
LEMMA ToOpenAI ==
    ASSUME CallInv, to_openai_messages
    PROVE  body' \in Seq(Turns)
<1>1. /\ body \in Seq(Turns) /\ parts \in Seq(Blocks) /\ tool_calls \in Seq(Blocks)
      /\ results \in Seq(Blocks) /\ Len(results) \in Nat
    BY DEF CallInv, TypeOK, TranslationTypeOK
<1>2. \A role \in {"user", "assistant", "tool"} : \A bs \in Seq(Blocks) :
          Turn(role, bs) \in Turns /\ <<Turn(role, bs)>> \in Seq(Turns)
    BY DEF Turn, Turns
<1> DEFINE answers == [i \in DOMAIN results |-> Turn("tool", <<results[i]>>)]
           rest == IF parts # <<>> \/ results = <<>> THEN <<Turn("user", parts)>> ELSE <<>>
<1>3. answers \in Seq(Turns)
  <2>1. \A i \in DOMAIN results : <<results[i]>> \in Seq(Blocks)
      BY <1>1
  <2>2. \A i \in DOMAIN results : Turn("tool", <<results[i]>>) \in Turns
      BY <2>1, <1>2
  <2>3. DOMAIN results = 1..Len(results)
      BY <1>1
  <2>4. answers \in [1..Len(results) -> Turns]
      BY <2>2, <2>3
  <2>5. \A n \in Nat : [1..n -> Turns] \subseteq Seq(Turns)
      OBVIOUS
  <2> HIDE DEF answers
  <2> QED BY <2>4, <2>5, <1>1
<1>4. rest \in Seq(Turns)
    BY <1>1, <1>2
<1>5. parts \o tool_calls \in Seq(Blocks)
    BY <1>1
<1>6. <<Turn("assistant", parts \o tool_calls)>> \in Seq(Turns)
    BY <1>2, <1>5
<1>7. \/ body' = body \o <<Turn("assistant", parts \o tool_calls)>>
      \/ body' = body \o (answers \o rest)
    BY DEF to_openai_messages
<1> HIDE DEF answers, rest
<1>8. answers \o rest \in Seq(Turns)
    BY <1>3, <1>4
<1>9. \A turns \in Seq(Turns) : body \o turns \in Seq(Turns)
    BY <1>1
<1> DEFINE asked == <<Turn("assistant", parts \o tool_calls)>>
<1> HIDE DEF asked
<1>10. asked \in Seq(Turns) /\ (body' = body \o asked \/ body' = body \o (answers \o rest))
    BY <1>6, <1>7 DEF asked
<1> QED BY <1>8, <1>9, <1>10

\* A step of either loop.
LEMMA TranslatingStep == CallInv /\ Translating => CallInv'
<1> SUFFICES ASSUME CallInv, Translating PROVE CallInv' OBVIOUS
<1>1. UNCHANGED <<pc, said, answer, taken, text, calls, finish, usage, drained, blocks>>
    BY DEF Translating, stream
<1>2. InRange' /\ BlocksNamed'
    BY <1>1 DEF CallInv, InRange, BlocksNamed
<1>3. Translate /\ pc = "request" /\ pc' = "request"
    BY DEF Translating
<1>t. /\ wire \in {"none", "openai", "anthropic", "gemini"} /\ messages \in Seq(Messages)
      /\ translating \in BOOLEAN /\ done \in Nat /\ at \in Nat
      /\ parts \in Seq(Blocks) /\ tool_calls \in Seq(Blocks) /\ results \in Seq(Blocks)
      /\ body \in Seq(Turns) /\ <<>> \in Seq(Blocks)
    BY DEF CallInv, TypeOK, TranslationTypeOK
<1> DEFINE Goal == /\ wire' = wire /\ messages' = messages /\ translating' \in BOOLEAN
                   /\ done' \in Nat /\ at' \in Nat
                   /\ parts' \in Seq(Blocks) /\ tool_calls' \in Seq(Blocks)
                   /\ results' \in Seq(Blocks) /\ body' \in Seq(Turns)
                   /\ (translating' => translating)
<1>4. ASSUME TakePart PROVE Goal
    BY <1>4, <1>t, BlockTaken DEF TakePart
<1>5. ASSUME TakeCall PROVE Goal
    BY <1>5, <1>t, BlockTaken DEF TakeCall
<1>6. ASSUME TakeResult PROVE Goal
  <2>1. NextBlock
      BY <1>6 DEF TakeResult
  <2>2. Content[at + 1] \in Blocks /\ Content[at + 1].id \in Ids
      BY <2>1, BlockTaken DEF Blocks
  <2>3. resolve_tool_name(Content[at + 1].id) \in Names \cup {NoName}
      BY <2>2, ResolveTyped DEF CallInv, TypeOK
  <2>4. [Content[at + 1] EXCEPT !.name = resolve_tool_name(Content[at + 1].id)] \in Blocks
      BY <2>2, <2>3 DEF Blocks
  <2>5. results' \in Seq(Blocks)
      BY <1>6, <2>2, <2>4, <1>t DEF TakeResult
  <2> QED BY <1>6, <2>1, <2>5, <1>t, BlockTaken DEF TakeResult
<1>7. ASSUME EndOfMessage, body' \in Seq(Turns) PROVE Goal
    BY <1>7, <1>t DEF EndOfMessage
<1>8. ASSUME to_contents PROVE Goal
  <2>1. PICK role \in {"model", "user"} :
            body' = append(append(body, "user", results), role, parts)
      BY <1>8, ToContents
  <2>2. append(body, "user", results) \in Seq(Turns)
      BY <1>t, AppendTyped
  <2>3. body' \in Seq(Turns)
      BY <2>1, <2>2, <1>t, AppendTyped
  <2> QED BY <1>7, <1>8, <2>3 DEF to_contents
<1>9. ASSUME to_openai_messages PROVE Goal
    BY <1>7, <1>9, ToOpenAI DEF to_openai_messages
<1>10. ASSUME EndOfMessages PROVE Goal
    BY <1>10, <1>t DEF EndOfMessages
<1>11. Goal
    BY <1>3, <1>4, <1>5, <1>6, <1>8, <1>9, <1>10 DEF Translate
<1>12. TypeOK'
    BY <1>1, <1>t, <1>11 DEF CallInv, TypeOK, TranslationTypeOK, Stream!TypeOK
<1>13. AtRest'
    BY <1>1, <1>3, <1>11 DEF CallInv, AtRest
<1> QED BY <1>1, <1>2, <1>11, <1>12, <1>13, Untouched DEF CallInv

-----------------------------------------------------------------------------
(***************************************************************************)
(* The answer.                                                             *)
(***************************************************************************)
\* complete()'s loop names its calls.
LEMMA BlocksNamedStep ==
    ASSUME Stream!TypeOK, BlocksNamed, Stream!Next
    PROVE  BlocksNamed'
<1>t. blocks \in Seq(Stream!ContentBlocks) /\ Len(blocks) \in Nat /\ DOMAIN blocks = 1..Len(blocks)
    BY DEF Stream!TypeOK
<1>1. CASE Stream!TextPart
  <2> SUFFICES ASSUME NEW k \in DOMAIN blocks', blocks'[k].type = "tool_use"
               PROVE  blocks'[k].id.turn = 0 /\ blocks'[k].id.name = blocks'[k].name
      BY DEF BlocksNamed
  <2>1. CASE blocks # <<>> /\ blocks[Len(blocks)].type = "text"
    <3>1. /\ DOMAIN blocks' = DOMAIN blocks /\ Len(blocks) \in DOMAIN blocks
          /\ blocks'[Len(blocks)].type = "text"
          /\ \A j \in DOMAIN blocks : j # Len(blocks) => blocks'[j] = blocks[j]
      <4>1. blocks[Len(blocks)] \in Stream!ContentBlocks /\ Len(blocks) \in DOMAIN blocks
          BY <2>1, <1>t
      <4>2. blocks' = [blocks EXCEPT ![Len(blocks)] =
                          [blocks[Len(blocks)] EXCEPT !.pieces = Append(@, taken + 1)]]
          BY <1>1, <2>1, <4>1 DEF Stream!TextPart
      <4>3. [blocks[Len(blocks)] EXCEPT !.pieces = Append(@, taken + 1)].type = "text"
          BY <4>1, <2>1 DEF Stream!ContentBlocks
      <4> QED BY <4>1, <4>2, <4>3, <1>t
    <3> QED BY <3>1 DEF BlocksNamed
  <2>2. CASE ~(blocks # <<>> /\ blocks[Len(blocks)].type = "text")
    <3>1. blocks' = Append(blocks, Stream!TextBlock(<<taken + 1>>))
        BY <1>1, <2>2 DEF Stream!TextPart
    <3>2. Stream!TextBlock(<<taken + 1>>).type = "text"
        BY DEF Stream!TextBlock
    <3>3. k \in 1..(Len(blocks) + 1) /\ (k = Len(blocks) + 1 => blocks'[k].type = "text")
        BY <3>1, <3>2, <1>t
    <3>4. k \in DOMAIN blocks /\ blocks'[k] = blocks[k]
        BY <3>1, <3>3, <1>t
    <3> QED BY <3>4 DEF BlocksNamed
  <2> QED BY <2>1, <2>2
<1>2. CASE Stream!CallPart
  <2> SUFFICES ASSUME NEW k \in DOMAIN blocks', blocks'[k].type = "tool_use"
               PROVE  blocks'[k].id.turn = 0 /\ blocks'[k].id.name = blocks'[k].name
      BY DEF BlocksNamed
  <2> DEFINE new == Stream!ToolUseBlock(taken, taken + 1)
  <2>1. blocks' = Append(blocks, new)
      BY <1>2 DEF Stream!CallPart
  <2>2. new.id.turn = 0 /\ new.id.name = new.name
      BY DEF Stream!ToolUseBlock, Stream!call_id
  <2> HIDE DEF new
  <2>3. k \in 1..(Len(blocks) + 1)
      BY <2>1, <1>t
  <2>4. CASE k = Len(blocks) + 1
      BY <2>1, <2>2, <2>4, <1>t
  <2>5. CASE k \in DOMAIN blocks
      BY <2>1, <2>5, <1>t DEF BlocksNamed
  <2> QED BY <2>3, <2>4, <2>5, <1>t
<1>3. CASE Stream!SkippedPart \/ Stream!Finish \/ Stream!End
    BY <1>3 DEF Stream!SkippedPart, Stream!Finish, Stream!End, BlocksNamed
<1> QED BY <1>1, <1>2, <1>3 DEF Stream!Next

\* A step of the answer, whichever way it comes.
LEMMA AnswerStep ==
    ASSUME CallInv, pc \in {"complete", "stream"}, Stream!Next,
           UNCHANGED <<wire, messages, loop, pc, said>>
    PROVE  CallInv'
<1>1. answer \in Answers
    BY DEF CallInv, AtRest, TypeOK, Stream!TypeOK
<1>2. Stream!TypeOK' /\ InRange' /\ answer' = answer /\ BlocksNamed'
    BY <1>1, StreamTyped, BlocksNamedStep DEF CallInv, TypeOK
<1>3. TypeOK'
    BY <1>2 DEF CallInv, TypeOK, TranslationTypeOK, loop
<1>4. AtRest'
    BY <1>2 DEF CallInv, AtRest, loop
<1> QED BY <1>2, <1>3, <1>4, Untouched DEF CallInv

\* A session of its own, or none.
LEMMA NewTyped ==
    ASSUME NEW a \in Answers \cup {None}, Stream!New(a)
    PROVE  Stream!TypeOK' /\ InRange' /\ BlocksNamed' /\ answer' = a
<1>1. Stream!usage_from(None) \in UsageType
    BY UsageTyped
<1>2. a # None => Len(a.parts) \in Nat
    BY PartTyped
<1>3. /\ answer' = a /\ taken' = 0 /\ text' = <<>> /\ calls' = <<>> /\ finish' = None
      /\ usage' = Stream!usage_from(None) /\ drained' = FALSE /\ blocks' = <<>>
    BY DEF Stream!New
<1>e. <<>> \in Seq(Nat) /\ <<>> \in Seq(Stream!ContentBlocks) /\ 0 \in Nat
    OBVIOUS
<1>4. Stream!TypeOK'
  <2>1. /\ text' \in Seq(Nat) /\ calls' \in Seq(Nat) /\ taken' \in Nat
        /\ blocks' \in Seq(Stream!ContentBlocks)
      BY <1>3, <1>e
  <2>2. /\ answer' \in Answers \cup {None} /\ finish' \in Stream!Reasons \cup {None}
        /\ usage' \in UsageType
      BY <1>1, <1>3
  <2>3. drained' \in BOOLEAN
      BY <1>3
  <2> QED BY <2>1, <2>2, <2>3 DEF Stream!TypeOK, UsageType
<1>5. InRange'
    BY <1>2, <1>3 DEF InRange
<1> QED BY <1>3, <1>4, <1>5 DEF BlocksNamed

\* The provider answers a call.
LEMMA RespondStep ==
    ASSUME CallInv, NEW a \in Answers, Respond(a)
    PROVE  CallInv'
<1>1. /\ pc' \in {"complete", "stream"} /\ ~translating /\ Stream!New(a)
      /\ UNCHANGED <<wire, messages, loop, said>>
    BY DEF Respond, Goto
<1>2. Stream!TypeOK' /\ InRange' /\ BlocksNamed' /\ answer' = a
    BY <1>1, NewTyped
<1>3. TypeOK'
    BY <1>1, <1>2 DEF CallInv, TypeOK, TranslationTypeOK, loop
<1>4. a # None
    BY AnswersAssumption DEF Stream!AnswersAreAnswers
<1>5. AtRest'
    BY <1>1, <1>2, <1>4 DEF CallInv, AtRest, loop
<1> QED BY <1>1, <1>2, <1>3, <1>5, Untouched DEF CallInv

\* After a call nothing of it is left.
LEMMA DoneStep ==
    ASSUME CallInv, Done, messages' \in Seq(Messages), said' \in Seq(Seq(Blocks))
    PROVE  TypeOK' /\ InRange' /\ BlocksNamed' /\ AtRest'
<1>1. Stream!TypeOK' /\ InRange' /\ BlocksNamed' /\ answer' = None
    BY NewTyped DEF Done
<1>2. TypeOK'
  <2>1. <<>> \in Seq(Blocks) /\ <<>> \in Seq(Turns) /\ 0 \in Nat
      OBVIOUS
  <2>2. /\ done' \in Nat /\ at' \in Nat
        /\ parts' \in Seq(Blocks) /\ tool_calls' \in Seq(Blocks) /\ results' \in Seq(Blocks)
        /\ body' \in Seq(Turns)
      BY <2>1 DEF Done
  <2>3. wire' = "none" /\ pc' = "caller" /\ translating' \in BOOLEAN
      BY DEF Done, Goto
  <2> QED BY <1>1, <2>2, <2>3 DEF TypeOK, TranslationTypeOK
<1>3. AtRest'
    BY DEF Done, Goto, AtRest
<1> QED BY <1>1, <1>2, <1>3

\* A call raises.
LEMMA FailStep == CallInv /\ Fail => CallInv'
<1> SUFFICES ASSUME CallInv, Fail PROVE CallInv' OBVIOUS
<1>1. Done /\ messages' = messages /\ said' = said
    BY DEF Fail
<1>2. messages' \in Seq(Messages) /\ said' \in Seq(Seq(Blocks))
    BY <1>1 DEF CallInv, TypeOK, TranslationTypeOK
<1> QED BY <1>1, <1>2, DoneStep, Untouched DEF CallInv

IsNamed(content) == \A k \in DOMAIN content : content[k].type = "tool_use" =>
                        content[k].id.turn = 0 /\ content[k].id.name = content[k].name

\* The stream's response: the calls that came in, each by its name.
LEMMA FinalTyped ==
    ASSUME CallInv, answer \in Answers
    PROVE  /\ Stream!get_final_message.content \in Seq(Stream!ContentBlocks)
           /\ IsNamed(Stream!get_final_message.content)
<1> DEFINE front == IF text = <<>> THEN <<>> ELSE <<Stream!TextBlock(text)>>
           back == [k \in DOMAIN calls |-> Stream!ToolUseBlock(k - 1, calls[k])]
<1>1. /\ calls \in Seq(Nat) /\ text \in Seq(Nat) /\ Len(calls) \in Nat
      /\ DOMAIN calls = 1..Len(calls)
    BY DEF CallInv, TypeOK, Stream!TypeOK
<1>2. \A k \in DOMAIN calls : calls[k] \in 1..Len(answer.parts) /\ k - 1 \in Nat
  <2>1. answer # None
      BY AnswersAssumption DEF Stream!AnswersAreAnswers
  <2> QED BY <1>1, <2>1 DEF CallInv, InRange
<1>3. \A k \in DOMAIN calls : Stream!ToolUseBlock(k - 1, calls[k]) \in Stream!ContentBlocks
    BY <1>2, ToolUseTyped
<1>4. back \in Seq(Stream!ContentBlocks) /\ Len(back) = Len(calls) /\ DOMAIN back = DOMAIN calls
  <2>1. back \in [1..Len(calls) -> Stream!ContentBlocks]
      BY <1>1, <1>3
  <2>2. \A n \in Nat : \A f \in [1..n -> Stream!ContentBlocks] :
            f \in Seq(Stream!ContentBlocks) /\ Len(f) = n
      OBVIOUS
  <2> HIDE DEF back
  <2> QED BY <1>1, <2>1, <2>2
<1>5. \A k \in DOMAIN back : back[k].id.turn = 0 /\ back[k].id.name = back[k].name
    BY <1>4 DEF Stream!ToolUseBlock, Stream!call_id
<1>6. /\ front \in Seq(Stream!ContentBlocks) /\ Len(front) \in Nat
      /\ \A k \in DOMAIN front : front[k].type = "text"
  <2>1. Stream!TextBlock(text) \in Stream!ContentBlocks /\ Stream!TextBlock(text).type = "text"
      BY <1>1, TextBlockTyped DEF Stream!TextBlock
  <2> QED BY <2>1
<1>7. Stream!get_final_message.content = front \o back
    BY DEF Stream!get_final_message
<1> HIDE DEF front, back
<1>8. front \o back \in Seq(Stream!ContentBlocks)
    BY <1>4, <1>6
<1>9. ASSUME NEW k \in DOMAIN (front \o back), (front \o back)[k].type = "tool_use"
      PROVE  (front \o back)[k].id.turn = 0 /\ (front \o back)[k].id.name = (front \o back)[k].name
  <2>1. /\ DOMAIN (front \o back) = 1..(Len(front) + Len(back))
        /\ DOMAIN front = 1..Len(front) /\ DOMAIN back = 1..Len(back) /\ Len(back) \in Nat
    <3>1. \A s, t \in Seq(Stream!ContentBlocks) :
              /\ DOMAIN (s \o t) = 1..(Len(s) + Len(t))
              /\ DOMAIN s = 1..Len(s) /\ DOMAIN t = 1..Len(t) /\ Len(t) \in Nat
        OBVIOUS
    <3> QED BY <3>1, <1>4, <1>6
  <2>2. k \notin DOMAIN front
    <3>1. k \in DOMAIN front => (front \o back)[k] = front[k]
        BY <1>4, <1>6, <2>1
    <3> QED BY <3>1, <1>6, <1>9
  <2>3. (front \o back)[k] = back[k - Len(front)] /\ k - Len(front) \in DOMAIN back
      BY <2>1, <2>2, <1>4, <1>6
  <2> QED BY <2>3, <1>5
<1> QED BY <1>7, <1>8, <1>9 DEF IsNamed

\* What is received is typed, and its calls can be told from all others.
LEMMA ReceivedTyped ==
    ASSUME CallInv, NEW content \in Seq(Stream!ContentBlocks), IsNamed(content)
    PROVE  /\ Received(content) \in Seq(Blocks)
           /\ DOMAIN Received(content) = DOMAIN content
           /\ \A i \in DOMAIN content :
                 /\ Received(content)[i].type # "tool_result"
                 /\ Received(content)[i].call = <<Len(said) + 1, i>>
                 /\ Received(content)[i].type = "tool_use" =>
                        Identified(Received(content)[i], Len(said) + 1, i)
<1>1. /\ Len(content) \in Nat /\ DOMAIN content = 1..Len(content)
      /\ Len(said) + 1 \in Nat
    BY DEF CallInv, TypeOK
<1>2. ASSUME NEW i \in DOMAIN content
      PROVE  /\ Received(content)[i] \in Blocks
             /\ Received(content)[i].type # "tool_result"
             /\ Received(content)[i].call = <<Len(said) + 1, i>>
             /\ Received(content)[i].type = "tool_use" =>
                    Identified(Received(content)[i], Len(said) + 1, i)
  <2>1. /\ content[i] \in Stream!ContentBlocks /\ i \in Nat
      BY <1>1
  <2>2. /\ content[i].type \in {"text", "tool_use"} /\ content[i].id \in Ids
        /\ content[i].name \in Names \cup {NoName}
      BY <2>1 DEF Stream!ContentBlocks, Stream!Ids, Ids
  <2>3. ProviderId(i) \in Ids /\ ProviderId(i) = [turn |-> Len(said) + 1, n |-> i, name |-> NoName]
      BY <1>1, <2>1 DEF ProviderId, Ids
  <2>4. /\ Received(content)[i].type = content[i].type
        /\ Received(content)[i].name = content[i].name
        /\ Received(content)[i].call = <<Len(said) + 1, i>>
        /\ Received(content)[i].id = content[i].id \/ Received(content)[i].id = ProviderId(i)
      BY DEF Received
  <2>5. Received(content)[i] \in Blocks
    <3>1. <<Len(said) + 1, i>> \in Nat \X Nat
        BY <1>1, <2>1
    <3> QED BY <2>2, <2>3, <3>1 DEF Received, Blocks
  <2>6. content[i].type = "tool_use" => content[i].id.turn = 0 /\ content[i].id.name = content[i].name
      BY DEF IsNamed
  <2> QED BY <2>2, <2>3, <2>4, <2>5, <2>6 DEF Identified
<1>3. Received(content) \in [1..Len(content) -> Blocks]
    BY <1>1, <1>2 DEF Received
<1>4. \A n \in Nat : [1..n -> Blocks] \subseteq Seq(Blocks)
    OBVIOUS
<1> QED BY <1>1, <1>2, <1>3, <1>4

\* The caller takes an answer into its messages.
LEMMA ReceiveStep ==
    ASSUME CallInv, NEW content \in Seq(Stream!ContentBlocks), IsNamed(content), Receive(content)
    PROVE  CallInv'
<1> DEFINE new == Received(content)
<1>1. /\ new \in Seq(Blocks) /\ DOMAIN new = DOMAIN content
      /\ \A i \in DOMAIN new : /\ new[i].type # "tool_result"
                               /\ new[i].call = <<Len(said) + 1, i>>
                               /\ new[i].type = "tool_use" => Identified(new[i], Len(said) + 1, i)
    BY ReceivedTyped
<1>2. /\ said' = Append(said, new)
      /\ messages' = Append(messages, [role |-> "assistant", content |-> new])
      /\ Done
    BY DEF Receive
<1> HIDE DEF new
<1>3. said \in Seq(Seq(Blocks)) /\ messages \in Seq(Messages)
    BY DEF CallInv, TypeOK, TranslationTypeOK
<1>4. [role |-> "assistant", content |-> new] \in Messages
    BY <1>1 DEF Messages
<1>5. messages' \in Seq(Messages) /\ said' \in Seq(Seq(Blocks))
    BY <1>1, <1>2, <1>3, <1>4
<1>6. /\ DOMAIN said' = 1..(Len(said) + 1) /\ Len(said) \in Nat /\ DOMAIN said = 1..Len(said)
      /\ said'[Len(said) + 1] = new /\ \A s \in DOMAIN said : said'[s] = said[s]
    BY <1>2, <1>3
<1>7. /\ DOMAIN messages' = 1..(Len(messages) + 1) /\ Len(messages) \in Nat
      /\ DOMAIN messages = 1..Len(messages)
      /\ messages'[Len(messages) + 1] = [role |-> "assistant", content |-> new]
      /\ \A m \in DOMAIN messages : messages'[m] = messages[m]
    BY <1>2, <1>3
<1>8. SaidLinked'
  <2> SUFFICES ASSUME NEW s \in DOMAIN said', NEW i \in DOMAIN said'[s]
               PROVE  /\ said'[s][i].type # "tool_result"
                      /\ said'[s][i].call = <<s, i>>
                      /\ said'[s][i].type = "tool_use" => Identified(said'[s][i], s, i)
      BY DEF SaidLinked, Identified
  <2>1. CASE s \in DOMAIN said
      BY <2>1, <1>6 DEF CallInv, SaidLinked
  <2>2. CASE s = Len(said) + 1
      BY <2>2, <1>1, <1>6
  <2> QED BY <2>1, <2>2, <1>6
<1>9. MessagesLinked'
  <2>1. \A block : Linked(block) => Linked(block)'
    <3>1. \A call : Placed(call) => Placed(call)' /\ Said(call)' = Said(call)
        BY <1>6 DEF Placed, Said
    <3> QED BY <3>1 DEF Linked
  <2>2. ASSUME NEW m \in DOMAIN messages', NEW i \in DOMAIN messages'[m].content,
               NEW block, block = messages'[m].content[i]
        PROVE  Linked(block)'
    <3>1. CASE m \in DOMAIN messages
      <4>1. Linked(block)
          BY <3>1, <2>2, <1>7 DEF CallInv, MessagesLinked
      <4> QED BY <4>1, <2>1
    <3>2. CASE m = Len(messages) + 1
      <4>1. block = new[i] /\ i \in DOMAIN new
          BY <3>2, <2>2, <1>7
      <4>2. block.call = <<Len(said) + 1, i>> /\ block.type # "tool_result"
          BY <4>1, <1>1
      <4>3. block.call[1] = Len(said) + 1 /\ block.call[2] = i
          BY <4>2
      <4>4. /\ block.call[1] \in DOMAIN said' /\ block.call[2] \in DOMAIN said'[block.call[1]]
            /\ said'[block.call[1]][block.call[2]] = block
          BY <4>1, <4>3, <1>6
      <4> QED BY <4>2, <4>4 DEF Linked, Placed, Said
    <3> QED BY <3>1, <3>2, <1>7
  <2> QED BY <2>2 DEF MessagesLinked
<1> QED BY <1>2, <1>5, <1>8, <1>9, DoneStep DEF CallInv

-----------------------------------------------------------------------------
\* Before the first message.
LEMMA CallInit == Init => CallInv
<1> SUFFICES ASSUME Init PROVE CallInv OBVIOUS
<1>1. /\ wire = "none" /\ messages = <<>> /\ pc = "caller" /\ said = <<>>
      /\ translating = FALSE /\ done = 0 /\ at = 0
      /\ parts = <<>> /\ tool_calls = <<>> /\ results = <<>> /\ body = <<>>
    BY DEF Init, Idle
<1>2. /\ answer = None /\ taken = 0 /\ text = <<>> /\ calls = <<>> /\ finish = None
      /\ usage = Stream!usage_from(None) /\ drained = FALSE /\ blocks = <<>>
    BY DEF Init, Stream!Init
<1>3. /\ <<>> \in Seq(Nat) /\ <<>> \in Seq(Stream!ContentBlocks) /\ <<>> \in Seq(Messages)
      /\ <<>> \in Seq(Blocks) /\ <<>> \in Seq(Turns) /\ <<>> \in Seq(Seq(Blocks)) /\ 0 \in Nat
    OBVIOUS
<1>4. TranslationTypeOK
    BY <1>1, <1>3 DEF TranslationTypeOK
<1>5. Stream!TypeOK
  <2>1. Stream!usage_from(None) \in UsageType
      BY UsageTyped
  <2> QED BY <1>2, <1>3, <2>1 DEF Stream!TypeOK, UsageType
<1>6. TypeOK
    BY <1>1, <1>3, <1>4, <1>5 DEF TypeOK
<1>7. InRange /\ BlocksNamed /\ AtRest
    BY <1>1, <1>2 DEF InRange, BlocksNamed, AtRest
<1>8. SaidLinked /\ MessagesLinked
    BY <1>1 DEF SaidLinked, MessagesLinked
<1> QED BY <1>6, <1>7, <1>8 DEF CallInv

\* The answer comes in.
LEMMA StreamingStep == CallInv /\ (Parsing \/ Streaming) => CallInv'
<1> SUFFICES ASSUME CallInv, Parsing \/ Streaming PROVE CallInv' OBVIOUS
<1>1. pc \in {"complete", "stream"} /\ Stream!Next /\ UNCHANGED <<wire, messages, loop, pc, said>>
    BY DEF Parsing, Streaming, Stream!Next
<1> QED BY <1>1, AnswerStep

\* The answer is there.
LEMMA ResponseStep == CallInv /\ (Complete \/ FinalMessage) => CallInv'
<1> SUFFICES ASSUME CallInv, Complete \/ FinalMessage PROVE CallInv' OBVIOUS
<1>1. answer \in Answers
    BY DEF CallInv, AtRest, TypeOK, Stream!TypeOK, Complete, FinalMessage
<1>2. CASE Complete
  <2>1. Stream!complete.content = blocks
      BY DEF Stream!complete
  <2>2. blocks \in Seq(Stream!ContentBlocks) /\ IsNamed(blocks)
      BY DEF CallInv, TypeOK, Stream!TypeOK, BlocksNamed, IsNamed
  <2>3. Receive(blocks)
      BY <1>2, <2>1 DEF Complete
  <2> QED BY <2>2, <2>3, ReceiveStep
<1>3. CASE FinalMessage
    BY <1>1, <1>3, FinalTyped, ReceiveStep DEF FinalMessage
<1> QED BY <1>2, <1>3

\* Every step keeps the invariant.
LEMMA CallStep == CallInv /\ [Next]_vars => CallInv'
<1> SUFFICES ASSUME CallInv, [Next]_vars PROVE CallInv' OBVIOUS
<1>1. CASE UNCHANGED vars
  <2>1. UNCHANGED <<wire, messages, translating, done, at, parts, tool_calls, results, body, pc,
                    said, answer, taken, text, calls, finish, usage, drained, blocks>>
      BY <1>1 DEF vars, loop, stream
  <2> QED BY <2>1, Untouched DEF CallInv, TypeOK, TranslationTypeOK, Stream!TypeOK,
                                 InRange, BlocksNamed, AtRest
<1>2. CASE Say \/ Reply \/ Fail
    BY <1>2, SayStep, ReplyStep, FailStep
<1>3. ASSUME NEW w \in {"openai", "anthropic", "gemini"}, Ask(w) PROVE CallInv'
    BY <1>3, AskStep
<1>4. ASSUME NEW n \in 1..MaxMessages, Forget(n) PROVE CallInv'
    BY <1>4, ForgetStep
<1>5. ASSUME NEW a \in Answers, Respond(a) PROVE CallInv'
    BY <1>5, RespondStep
<1>6. CASE Translating
    BY <1>6, TranslatingStep
<1>7. CASE Parsing \/ Streaming
    BY <1>7, StreamingStep
<1>8. CASE Complete \/ FinalMessage
    BY <1>8, ResponseStep
<1> QED BY <1>1, <1>2, <1>3, <1>4, <1>5, <1>6, <1>7, <1>8 DEF Next

\* The invariant that all of the theorems rest on.
LEMMA Calls == Spec => []CallInv
BY CallInit, CallStep, PTL DEF Spec

\* Every variable keeps its type, whatever the provider answers and however long
\* a conversation becomes.
THEOREM TypeCorrect == Spec => []TypeOK
<1>1. CallInv => TypeOK
    BY DEF CallInv
<1> QED BY <1>1, Calls, PTL

-----------------------------------------------------------------------------
(***************************************************************************)
(* RolesAlternate.                                                         *)
(***************************************************************************)
Alternate(turns) == \A t \in 1..(Len(turns) - 1) : turns[t].role # turns[t + 1].role

\* The one place where turns are added to contents.
LEMMA AppendAlternates ==
    ASSUME NEW contents \in Seq(Turns), Alternate(contents), NEW role, NEW new \in Seq(Blocks)
    PROVE  Alternate(append(contents, role, new))
<1>1. Len(contents) \in Nat /\ DOMAIN contents = 1..Len(contents)
    OBVIOUS
<1>2. CASE new = <<>>
    BY <1>2 DEF append
<1>3. CASE new # <<>> /\ contents # <<>> /\ contents[Len(contents)].role = role
  <2> DEFINE last == [contents[Len(contents)] EXCEPT !.parts = @ \o new]
  <2>1. contents[Len(contents)] \in Turns /\ Len(contents) \in DOMAIN contents
      BY <1>1, <1>3
  <2>2. append(contents, role, new) = [contents EXCEPT ![Len(contents)] = last]
      BY <1>3, <2>1 DEF append
  <2>3. last.role = contents[Len(contents)].role
      BY <2>1 DEF Turns
  <2> HIDE DEF last
  <2> DEFINE after == [contents EXCEPT ![Len(contents)] = last]
  <2>4. /\ Len(after) = Len(contents)
        /\ \A t \in DOMAIN contents : after[t].role = contents[t].role
      BY <2>1, <2>3, <1>1
  <2> HIDE DEF after
  <2>5. ASSUME NEW t \in 1..(Len(after) - 1) PROVE after[t].role # after[t + 1].role
    <3>1. t \in 1..(Len(contents) - 1) /\ t \in DOMAIN contents /\ t + 1 \in DOMAIN contents
        BY <2>4, <1>1
    <3> QED BY <3>1, <2>4 DEF Alternate
  <2>6. append(contents, role, new) = after
      BY <2>2 DEF after
  <2>7. Alternate(after)
      BY <2>5 DEF Alternate
  <2> QED BY <2>6, <2>7
<1>4. CASE new # <<>> /\ ~(contents # <<>> /\ contents[Len(contents)].role = role)
  <2> DEFINE turn == [role |-> role, parts |-> new]
  <2>1. append(contents, role, new) = Append(contents, turn)
      BY <1>4 DEF append
  <2>2. turn.role = role
      OBVIOUS
  <2> HIDE DEF turn
  <2>3. /\ Len(Append(contents, turn)) = Len(contents) + 1
        /\ Append(contents, turn)[Len(contents) + 1] = turn
        /\ \A t \in 1..Len(contents) : Append(contents, turn)[t] = contents[t]
      BY <1>1
  <2>4. contents # <<>> => contents[Len(contents)].role # role
      BY <1>4
  <2>5. ASSUME NEW t \in 1..Len(contents)
        PROVE  Append(contents, turn)[t].role # Append(contents, turn)[t + 1].role
    <3>1. CASE t = Len(contents)
        BY <3>1, <2>2, <2>3, <2>4, <1>1
    <3>2. CASE t # Len(contents)
      <4>1. \A n \in Nat : \A i \in 1..n : i # n => i \in 1..(n - 1) /\ i + 1 \in 1..n
          OBVIOUS
      <4>2. t \in 1..(Len(contents) - 1) /\ t + 1 \in 1..Len(contents)
          BY <4>1, <3>2, <1>1
      <4> QED BY <4>2, <2>3 DEF Alternate
    <3> QED BY <3>1, <3>2
  <2> DEFINE after == Append(contents, turn)
  <2>6. \A t \in 1..(Len(after) - 1) : after[t].role # after[t + 1].role
      BY <2>3, <2>5, <1>1
  <2> HIDE DEF after
  <2>7. Alternate(after)
      BY <2>6 DEF Alternate
  <2> QED BY <2>1, <2>7 DEF after
<1> QED BY <1>2, <1>3, <1>4

\* Every step keeps the turns apart.
LEMMA AlternateStep ==
    ASSUME CallInv, RolesAlternate, [Next]_vars
    PROVE  RolesAlternate'
<1> SUFFICES ASSUME wire' = "gemini" PROVE Alternate(body')
    BY DEF RolesAlternate, Alternate
<1>1. wire = "gemini" => Alternate(body)
    BY DEF RolesAlternate, Alternate
<1>2. Alternate(<<>>)
    BY DEF Alternate
<1>3. CASE wire' = wire /\ body' = body
    BY <1>1, <1>3
<1>4. CASE body' = <<>>
    BY <1>2, <1>4
<1>5. CASE to_contents
  <2>1. PICK role \in {"model", "user"} :
            body' = append(append(body, "user", results), role, parts)
      BY <1>5, ToContents
  <2>2. /\ body \in Seq(Turns) /\ results \in Seq(Blocks) /\ parts \in Seq(Blocks)
        /\ wire = "gemini"
      BY <1>5 DEF CallInv, TypeOK, TranslationTypeOK, to_contents
  <2>3. /\ append(body, "user", results) \in Seq(Turns)
        /\ Alternate(append(body, "user", results))
      BY <2>2, <1>1, AppendTyped, AppendAlternates
  <2> QED BY <2>1, <2>2, <2>3, AppendAlternates
<1>6. CASE to_openai_messages
    BY <1>6 DEF to_openai_messages, EndOfMessage
<1>7. CASE UNCHANGED vars
    BY <1>3, <1>7 DEF vars, loop
<1>8. CASE Translating
  <2>1. TakePart \/ TakeCall \/ TakeResult \/ EndOfMessages => wire' = wire /\ body' = body
      BY DEF TakePart, TakeCall, TakeResult, EndOfMessages, NextBlock
  <2> QED BY <1>8, <2>1, <1>3, <1>5, <1>6 DEF Translating, Translate
<1>9. ASSUME NEW w \in {"openai", "anthropic", "gemini"}, Ask(w) PROVE Alternate(body')
    BY <1>4, <1>9 DEF Ask, Build
<1>10. CASE Complete \/ FinalMessage \/ Fail
    BY <1>4, <1>10 DEF Complete, FinalMessage, Fail, Receive, Done
<1>11. CASE Say \/ Reply
    BY <1>3, <1>11 DEF Say, Reply, Says, loop
<1>12. CASE Parsing \/ Streaming
    BY <1>3, <1>12 DEF Parsing, Streaming, loop
<1>13. ASSUME NEW n \in 1..MaxMessages, Forget(n) PROVE Alternate(body')
    BY <1>3, <1>13 DEF Forget, loop
<1>14. ASSUME NEW a \in Answers, Respond(a) PROVE Alternate(body')
    BY <1>3, <1>14 DEF Respond, loop
<1> QED BY <1>7, <1>8, <1>9, <1>10, <1>11, <1>12, <1>13, <1>14 DEF Next

\* However the messages come, the turns that _to_contents builds alternate.
THEOREM ContentsAlternate == Spec => []RolesAlternate
<1>1. Init => RolesAlternate
    BY DEF Init, RolesAlternate
<1>2. CallInv /\ RolesAlternate /\ [Next]_vars => RolesAlternate'
    BY AlternateStep
<1> QED BY <1>1, <1>2, Calls, PTL DEF Spec

-----------------------------------------------------------------------------
(***************************************************************************)
(* NamedAfterCalls.                                                        *)
(***************************************************************************)
Right(block) == \/ block.name = NameOf(block.call)
                \/ block.name = NoName /\ \A p \in Uses : Use(p).call # block.call
AllRight(content) == \A i \in DOMAIN content :
                         content[i].type = "tool_result" => Right(content[i])

\* What the loop has put aside is right as well as what it has written.
NamedInv == wire = "gemini" => /\ AllRight(parts) /\ AllRight(results)
                               /\ \A t \in DOMAIN body : AllRight(body[t].parts)

\* The name that an id resolves to is that of the call that the result answers:
\* a synthesized id carries it, and another provider's is that of one call only.
LEMMA Resolved ==
    ASSUME CallInv, NEW block \in Blocks, block.type = "tool_result", Linked(block)
    PROVE  Right([block EXCEPT !.name = resolve_tool_name(block.id)])
<1> DEFINE call == block.call
           name == resolve_tool_name(block.id)
<1>1. /\ Placed(call) /\ Said(call).type = "tool_use" /\ Said(call).id = block.id
      /\ Said(call) \in Blocks
    BY SaidTyped DEF Linked, CallInv
<1>2. Identified(Said(call), call[1], call[2])
    BY <1>1 DEF CallInv, SaidLinked, Placed, Said
<1>3. call[1] # 0 /\ NameOf(call) = Said(call).name
  <2>1. said \in Seq(Seq(Blocks))
      BY DEF CallInv, TypeOK
  <2> QED BY <1>1, <2>1 DEF Placed, NameOf, Said
<1>4. ASSUME NEW p \in Uses
      PROVE  /\ Use(p) = Said(Use(p).call) /\ Use(p).call[1] # 0
             /\ Identified(Use(p), Use(p).call[1], Use(p).call[2])
  <2>1. /\ p[1] \in DOMAIN messages /\ p[2] \in DOMAIN messages[p[1]].content
        /\ Use(p) = messages[p[1]].content[p[2]] /\ Use(p).type = "tool_use"
      BY UseTyped DEF CallInv, TypeOK
  <2>2. Linked(Use(p))
      BY <2>1 DEF CallInv, MessagesLinked
  <2>3. Placed(Use(p).call) /\ Use(p) = Said(Use(p).call)
      BY <2>1, <2>2 DEF Linked
  <2>4. said \in Seq(Seq(Blocks))
      BY DEF CallInv, TypeOK
  <2>5. Identified(Said(Use(p).call), Use(p).call[1], Use(p).call[2])
      BY <2>1, <2>3 DEF CallInv, SaidLinked, Placed, Said
  <2> QED BY <2>3, <2>4, <2>5 DEF Placed
<1>5. name = NameOf(call) \/ (name = NoName /\ \A p \in Uses : Use(p).call # call)
  <2>1. CASE block.id \in DOMAIN tool_name_index
    <3>1. block.id \in {Use(p).id : p \in Uses}
        BY <2>1 DEF tool_name_index
    <3>2. PICK p \in Uses : Use(p).id = block.id /\ tool_name_index[block.id] = Use(p).name
        BY <3>1, IndexTyped DEF CallInv, TypeOK
    <3>3. name = Use(p).name
        BY <2>1, <3>2 DEF resolve_tool_name
    <3>4. CASE Said(call).id.turn = 0 /\ Said(call).id.name = Said(call).name
      <4>1. Use(p).id.name = Use(p).name
        <5>1. Use(p).id.turn = 0 /\ Use(p).call[1] # 0
            BY <3>2, <3>4, <1>1, <1>4
        <5>2. Use(p).id # [turn |-> Use(p).call[1], n |-> Use(p).call[2], name |-> NoName]
            BY <5>1
        <5> QED BY <5>2, <1>4 DEF Identified
      <4> QED BY <4>1, <3>2, <3>3, <3>4, <1>1, <1>3
    <3>5. CASE Said(call).id = [turn |-> call[1], n |-> call[2], name |-> NoName]
      <4>1. Use(p).id = [turn |-> call[1], n |-> call[2], name |-> NoName]
          BY <3>2, <3>5, <1>1
      <4>2. Use(p).id = [turn |-> Use(p).call[1], n |-> Use(p).call[2], name |-> NoName]
          BY <4>1, <1>3, <1>4 DEF Identified
      <4>3. Use(p).call[1] = call[1] /\ Use(p).call[2] = call[2]
          BY <4>1, <4>2
      <4>4. Said(Use(p).call) = Said(call)
          BY <4>3 DEF Said
      <4> QED BY <4>4, <3>3, <1>3, <1>4
    <3> QED BY <3>4, <3>5, <1>2 DEF Identified
  <2>2. CASE block.id \notin DOMAIN tool_name_index
    <3>1. name = block.id.name
        BY <2>2 DEF resolve_tool_name
    <3>2. CASE Said(call).id.turn = 0 /\ Said(call).id.name = Said(call).name
        BY <3>1, <3>2, <1>1, <1>3
    <3>3. CASE Said(call).id = [turn |-> call[1], n |-> call[2], name |-> NoName]
      <4>1. name = NoName
          BY <3>1, <3>3, <1>1
      <4>2. ASSUME NEW p \in Uses, Use(p).call = call PROVE FALSE
        <5>1. Use(p).id = block.id
            BY <4>2, <1>1, <1>4
        <5> QED BY <5>1, <2>2 DEF tool_name_index
      <4> QED BY <4>1, <4>2
    <3> QED BY <3>2, <3>3, <1>2 DEF Identified
  <2> QED BY <2>1, <2>2
<1> DEFINE named == [block EXCEPT !.name = name]
<1>6. named.name = name /\ named.call = call
    BY DEF Blocks
<1> HIDE DEF name
<1> QED BY <1>5, <1>6 DEF Right, name

\* Rightness does not change with the loop.
LEMMA RightFrame ==
    ASSUME messages' = messages, said' = said
    PROVE  \A content : AllRight(content) => AllRight(content)'
BY DEF AllRight, Right, Uses, Use, NameOf

\* _append adds nothing to a turn but what it is given.
LEMMA AppendRight ==
    ASSUME NEW contents \in Seq(Turns), NEW role, NEW new \in Seq(Blocks), AllRight(new),
           \A t \in DOMAIN contents : AllRight(contents[t].parts)
    PROVE  \A t \in DOMAIN append(contents, role, new) :
               AllRight(append(contents, role, new)[t].parts)
<1>1. Len(contents) \in Nat /\ DOMAIN contents = 1..Len(contents)
    OBVIOUS
<1>2. CASE new = <<>>
    BY <1>2 DEF append
<1>3. CASE new # <<>> /\ contents # <<>> /\ contents[Len(contents)].role = role
  <2> DEFINE old == contents[Len(contents)].parts
             last == [contents[Len(contents)] EXCEPT !.parts = @ \o new]
             after == [contents EXCEPT ![Len(contents)] = last]
  <2>1. contents[Len(contents)] \in Turns /\ Len(contents) \in DOMAIN contents
      BY <1>1, <1>3
  <2>2. append(contents, role, new) = after
      BY <1>3, <2>1 DEF append
  <2>3. last.parts = old \o new /\ old \in Seq(Blocks) /\ AllRight(old)
      BY <2>1 DEF Turns
  <2> HIDE DEF old
  <2>4. AllRight(old \o new)
    <3>1. /\ DOMAIN (old \o new) = 1..(Len(old) + Len(new))
          /\ DOMAIN old = 1..Len(old) /\ DOMAIN new = 1..Len(new)
          /\ Len(old) \in Nat /\ Len(new) \in Nat
        BY <2>3
    <3>2. ASSUME NEW i \in DOMAIN (old \o new), (old \o new)[i].type = "tool_result"
          PROVE  Right((old \o new)[i])
      <4>1. CASE i \in DOMAIN old
        <5>1. (old \o new)[i] = old[i]
            BY <4>1, <3>1, <2>3
        <5> QED BY <5>1, <4>1, <3>2, <2>3 DEF AllRight
      <4>2. CASE i \notin DOMAIN old
        <5>1. (old \o new)[i] = new[i - Len(old)] /\ i - Len(old) \in DOMAIN new
            BY <4>2, <3>1, <2>3
        <5> QED BY <5>1, <3>2 DEF AllRight
      <4> QED BY <4>1, <4>2
    <3> QED BY <3>2 DEF AllRight
  <2> HIDE DEF last
  <2>5. /\ DOMAIN after = DOMAIN contents /\ after[Len(contents)] = last
        /\ \A t \in DOMAIN contents : t # Len(contents) => after[t] = contents[t]
      BY <2>1
  <2> HIDE DEF after
  <2>6. \A t \in DOMAIN after : AllRight(after[t].parts)
      BY <2>3, <2>4, <2>5
  <2> QED BY <2>2, <2>6
<1>4. CASE new # <<>> /\ ~(contents # <<>> /\ contents[Len(contents)].role = role)
  <2> DEFINE turn == [role |-> role, parts |-> new]
             after == Append(contents, turn)
  <2>1. append(contents, role, new) = after
      BY <1>4 DEF append
  <2>2. turn.parts = new
      OBVIOUS
  <2> HIDE DEF turn
  <2>3. /\ DOMAIN after = 1..(Len(contents) + 1) /\ after[Len(contents) + 1] = turn
        /\ \A t \in 1..Len(contents) : after[t] = contents[t]
      BY <1>1
  <2> HIDE DEF after
  <2>4. \A t \in DOMAIN after : AllRight(after[t].parts)
    <3> TAKE t \in DOMAIN after
    <3>1. CASE t = Len(contents) + 1
        BY <3>1, <2>2, <2>3
    <3>2. CASE t \in DOMAIN contents
        BY <3>2, <2>3, <1>1
    <3> QED BY <3>1, <3>2, <2>3, <1>1
  <2> QED BY <2>1, <2>4
<1> QED BY <1>2, <1>3, <1>4

\* A step of the loop of _to_contents.
LEMMA NamedLoop ==
    ASSUME CallInv, NamedInv, wire = "gemini", Translating
    PROVE  NamedInv'
<1>1. UNCHANGED <<messages, said>> /\ wire' = wire
    BY DEF Translating, Translate, TakePart, TakeCall, TakeResult, NextBlock, EndOfMessage,
           to_contents, to_openai_messages, EndOfMessages
<1>2. /\ AllRight(parts) /\ AllRight(results) /\ AllRight(<<>>)
      /\ \A t \in DOMAIN body : AllRight(body[t].parts)
    BY DEF NamedInv, AllRight
<1>3. \A content : AllRight(content) => AllRight(content)'
    BY <1>1, RightFrame
<1>t. /\ parts \in Seq(Blocks) /\ results \in Seq(Blocks) /\ body \in Seq(Turns)
    BY DEF CallInv, TypeOK, TranslationTypeOK
<1>4. ASSUME NEW content \in Seq(Blocks), AllRight(content), NEW block,
             block.type = "tool_result" => Right(block)
      PROVE  AllRight(Append(content, block))
    BY <1>4 DEF AllRight
<1>5. CASE TakePart
  <2>1. /\ NextBlock /\ parts' = Append(parts, Content[at + 1]) /\ results' = results
        /\ body' = body /\ Content[at + 1].type # "tool_result"
      BY <1>5 DEF TakePart, NextBlock
  <2>2. AllRight(Append(parts, Content[at + 1]))
      BY <2>1, <1>2, <1>4, <1>t
  <2> QED BY <2>1, <2>2, <1>2, <1>3 DEF NamedInv
<1>6. CASE TakeResult
  <2> DEFINE block == Content[at + 1]
             named == [block EXCEPT !.name = resolve_tool_name(block.id)]
  <2>1. /\ NextBlock /\ results' = Append(results, named) /\ parts' = parts
        /\ body' = body /\ block.type = "tool_result"
      BY <1>6 DEF TakeResult, NextBlock
  <2>2. block \in Blocks /\ Linked(block)
    <3>1. /\ done + 1 \in DOMAIN messages /\ at + 1 \in DOMAIN messages[done + 1].content
          /\ Content = messages[done + 1].content /\ Content[at + 1] \in Blocks
        BY <2>1, BlockTaken
    <3> QED BY <3>1 DEF CallInv, MessagesLinked
  <2>3. Right(named)
      BY <2>1, <2>2, Resolved
  <2> HIDE DEF named
  <2>4. AllRight(Append(results, named))
      BY <2>3, <1>2, <1>4, <1>t
  <2> QED BY <2>1, <2>4, <1>2, <1>3 DEF NamedInv
<1>7. CASE to_contents
  <2>1. PICK role \in {"model", "user"} :
            body' = append(append(body, "user", results), role, parts)
      BY <1>7, ToContents
  <2> DEFINE first == append(body, "user", results)
             second == append(first, role, parts)
  <2>2. first \in Seq(Turns) /\ \A t \in DOMAIN first : AllRight(first[t].parts)
      BY <1>2, <1>t, AppendTyped, AppendRight
  <2> HIDE DEF first
  <2>3. \A t \in DOMAIN second : AllRight(second[t].parts)
      BY <2>2, <1>2, <1>t, AppendRight
  <2>4. body' = second /\ parts' = <<>> /\ results' = <<>>
      BY <2>1, <1>7 DEF first, to_contents, EndOfMessage
  <2> HIDE DEF second
  <2> QED BY <2>3, <2>4, <1>2, <1>3 DEF NamedInv
<1>8. CASE EndOfMessages
    BY <1>8, <1>2, <1>3 DEF EndOfMessages, NamedInv
<1>9. ~TakeCall /\ ~to_openai_messages
    BY DEF TakeCall, to_openai_messages
<1> QED BY <1>5, <1>6, <1>7, <1>8, <1>9 DEF Translating, Translate

\* Every step keeps the results named.
LEMMA NamedStep ==
    ASSUME CallInv, NamedInv, [Next]_vars
    PROVE  NamedInv'
<1> SUFFICES ASSUME wire' = "gemini" PROVE NamedInv'
    BY DEF NamedInv
<1>1. CASE wire' = wire /\ UNCHANGED <<messages, said, parts, results, body>>
    BY <1>1, RightFrame DEF NamedInv
<1>2. CASE parts' = <<>> /\ results' = <<>> /\ body' = <<>>
    BY <1>2 DEF NamedInv, AllRight
<1>3. CASE UNCHANGED vars
    BY <1>1, <1>3 DEF vars, loop
<1>4. CASE Translating
  <2>1. wire = "gemini"
      BY <1>4 DEF Translating, Translate, TakePart, TakeCall, TakeResult, NextBlock,
                  EndOfMessage, to_contents, to_openai_messages, EndOfMessages
  <2> QED BY <2>1, <1>4, NamedLoop
<1>5. ASSUME NEW w \in {"openai", "anthropic", "gemini"}, Ask(w) PROVE NamedInv'
    BY <1>2, <1>5 DEF Ask, Build
<1>6. CASE Complete \/ FinalMessage \/ Fail
    BY <1>2, <1>6 DEF Complete, FinalMessage, Fail, Receive, Done
<1>7. ~Say /\ ~Reply
    BY DEF Say, Reply, Says, CallInv, AtRest
<1>8. ASSUME NEW n \in 1..MaxMessages, Forget(n) PROVE FALSE
    BY <1>8 DEF Forget, Ready, CallInv, AtRest
<1>9. CASE Parsing \/ Streaming
    BY <1>1, <1>9 DEF Parsing, Streaming, loop
<1>10. ASSUME NEW a \in Answers, Respond(a) PROVE NamedInv'
    BY <1>1, <1>10 DEF Respond, loop
<1> QED BY <1>3, <1>4, <1>5, <1>6, <1>7, <1>8, <1>9, <1>10 DEF Next

\* However long the conversation, whichever wires answered in it and however its
\* ids recur, Gemini is sent every result under the name of its own call.
THEOREM ResultsNamed == Spec => []NamedAfterCalls
<1>1. Init => NamedInv
    BY DEF Init, NamedInv
<1>2. CallInv /\ NamedInv /\ [Next]_vars => NamedInv'
    BY NamedStep
<1>3. NamedInv => NamedAfterCalls
    BY DEF NamedInv, AllRight, Right, NamedAfterCalls
<1> QED BY <1>1, <1>2, <1>3, Calls, PTL DEF Spec

-----------------------------------------------------------------------------
(***************************************************************************)
(* The Gemini stream in a conversation, for any answers of any length:     *)
(* what it has assembled wherever it breaks off, and that it agrees with   *)
(* complete().                                                             *)
(***************************************************************************)
\* The parts of a kind that have come in.
Came(kind) == {i \in 1..taken : answer.parts[i].type = kind}

Assembled == answer # None => /\ Stream!Enumerates(text, "text")
                              /\ Stream!Enumerates(calls, "functionCall")

\* An enumeration goes on with whatever comes in later.
LEMMA AscendingAppend ==
    ASSUME NEW seq \in Seq(Nat), NEW n \in Nat, Stream!Ascending(seq),
           \A i \in DOMAIN seq : seq[i] < n
    PROVE  Stream!Ascending(Append(seq, n))
<1>1. /\ DOMAIN Append(seq, n) = 1..(Len(seq) + 1) /\ Append(seq, n)[Len(seq) + 1] = n
      /\ \A i \in DOMAIN seq : Append(seq, n)[i] = seq[i]
      /\ DOMAIN seq = 1..Len(seq) /\ Len(seq) \in Nat
    OBVIOUS
<1>2. ASSUME NEW i \in 1..(Len(seq) + 1), NEW j \in 1..(Len(seq) + 1), i < j
      PROVE  Append(seq, n)[i] < Append(seq, n)[j]
  <2>1. i \in DOMAIN seq /\ Append(seq, n)[i] = seq[i]
      BY <1>1, <1>2
  <2>2. CASE j = Len(seq) + 1
      BY <2>1, <2>2, <1>1
  <2>3. CASE j \in DOMAIN seq
      BY <2>1, <2>3, <1>1, <1>2 DEF Stream!Ascending
  <2> QED BY <2>2, <2>3, <1>1
<1> QED BY <1>1, <1>2 DEF Stream!Ascending

\* What a sequence holds with one element more.
LEMMA ToSetAppend ==
    ASSUME NEW seq \in Seq(Nat), NEW n
    PROVE  Stream!ToSet(Append(seq, n)) = Stream!ToSet(seq) \cup {n}
<1>1. /\ DOMAIN Append(seq, n) = 1..(Len(seq) + 1) /\ Append(seq, n)[Len(seq) + 1] = n
      /\ \A i \in DOMAIN seq : Append(seq, n)[i] = seq[i]
      /\ DOMAIN seq = 1..Len(seq) /\ Len(seq) \in Nat
    OBVIOUS
<1>2. DOMAIN Append(seq, n) = DOMAIN seq \cup {Len(seq) + 1}
    BY <1>1
<1> QED BY <1>1, <1>2 DEF Stream!ToSet

\* The next part, of the kind that is enumerated.
LEMMA EnumeratesNext ==
    ASSUME NEW seq \in Seq(Nat), taken \in Nat, NEW kind,
           Stream!Ascending(seq), Stream!ToSet(seq) = Came(kind),
           answer.parts[taken + 1].type = kind
    PROVE  /\ Stream!Ascending(Append(seq, taken + 1))
           /\ Stream!ToSet(Append(seq, taken + 1)) = {i \in 1..(taken + 1) : answer.parts[i].type = kind}
<1>1. \A i \in DOMAIN seq : seq[i] \in Came(kind)
    BY DEF Stream!ToSet
<1>2. \A i \in DOMAIN seq : seq[i] < taken + 1
    BY <1>1 DEF Came
<1>3. Stream!Ascending(Append(seq, taken + 1))
    BY <1>2, AscendingAppend
<1>4. 1..(taken + 1) = 1..taken \cup {taken + 1}
    OBVIOUS
<1>5. Stream!ToSet(Append(seq, taken + 1)) = Came(kind) \cup {taken + 1}
    BY ToSetAppend
<1>6. Came(kind) \cup {taken + 1} = {i \in 1..(taken + 1) : answer.parts[i].type = kind}
    BY <1>4 DEF Came
<1> QED BY <1>3, <1>5, <1>6

\* A part of another kind adds nothing.
LEMMA CameOther ==
    ASSUME taken \in Nat, NEW kind, answer.parts[taken + 1].type # kind
    PROVE  {i \in 1..(taken + 1) : answer.parts[i].type = kind} = Came(kind)
<1>1. 1..(taken + 1) = 1..taken \cup {taken + 1}
    OBVIOUS
<1> QED BY <1>1 DEF Came

\* A part is added to the text, to the calls, or to neither.
LEMMA AssembledStep ==
    ASSUME Stream!TypeOK, answer \in Answers, Assembled, Stream!Next
    PROVE  Assembled'
<1>1. answer # None
    BY AnswersAssumption DEF Stream!AnswersAreAnswers
<1>2. /\ Stream!Ascending(text) /\ Stream!ToSet(text) = Came("text")
      /\ Stream!Ascending(calls) /\ Stream!ToSet(calls) = Came("functionCall")
    BY <1>1 DEF Assembled, Stream!Enumerates, Came
<1>t. taken \in Nat /\ text \in Seq(Nat) /\ calls \in Seq(Nat)
    BY DEF Stream!TypeOK
<1> DEFINE Now(kind) == {i \in 1..(taken + 1) : answer.parts[i].type = kind}
<1>3. ASSUME answer' = answer, taken' = taken + 1,
             Stream!Ascending(text'), Stream!ToSet(text') = Now("text"),
             Stream!Ascending(calls'), Stream!ToSet(calls') = Now("functionCall")
      PROVE  Assembled'
    BY <1>3 DEF Assembled, Stream!Enumerates, Stream!Ascending, Stream!ToSet
<1> HIDE DEF Now
<1>4. CASE Stream!TextPart
  <2>1. /\ taken' = taken + 1 /\ answer' = answer /\ text' = Append(text, taken + 1)
        /\ calls' = calls /\ answer.parts[taken + 1].type = "text"
      BY <1>4 DEF Stream!TextPart, Stream!Takes
  <2>2. Stream!Ascending(text') /\ Stream!ToSet(text') = Now("text")
      BY <2>1, <1>2, <1>t, EnumeratesNext DEF Now
  <2>3. Stream!ToSet(calls') = Now("functionCall")
      BY <2>1, <1>2, <1>t, CameOther DEF Now
  <2> QED BY <2>1, <2>2, <2>3, <1>2, <1>3
<1>5. CASE Stream!CallPart
  <2>1. /\ taken' = taken + 1 /\ answer' = answer /\ calls' = Append(calls, taken + 1)
        /\ text' = text /\ answer.parts[taken + 1].type = "functionCall"
      BY <1>5 DEF Stream!CallPart, Stream!Takes
  <2>2. Stream!Ascending(calls') /\ Stream!ToSet(calls') = Now("functionCall")
      BY <2>1, <1>2, <1>t, EnumeratesNext DEF Now
  <2>3. Stream!ToSet(text') = Now("text")
      BY <2>1, <1>2, <1>t, CameOther DEF Now
  <2> QED BY <2>1, <2>2, <2>3, <1>2, <1>3
<1>6. CASE Stream!SkippedPart
  <2>1. /\ taken' = taken + 1 /\ answer' = answer /\ calls' = calls
        /\ text' = text /\ answer.parts[taken + 1].type = "skipped"
      BY <1>6 DEF Stream!SkippedPart, Stream!Takes
  <2>2. Stream!ToSet(text') = Now("text") /\ Stream!ToSet(calls') = Now("functionCall")
      BY <2>1, <1>2, <1>t, CameOther DEF Now
  <2> QED BY <2>1, <2>2, <1>2, <1>3
<1>7. CASE Stream!Finish \/ Stream!End
  <2>1. UNCHANGED <<answer, taken, text, calls>>
      BY <1>7 DEF Stream!Finish, Stream!End
  <2> QED BY <2>1 DEF Assembled, Stream!Enumerates, Stream!Ascending, Stream!ToSet
<1> QED BY <1>4, <1>5, <1>6, <1>7 DEF Stream!Next

-----------------------------------------------------------------------------
\* A block behind others.
LEMMA BlockBehind ==
    ASSUME NEW content \in Seq(Stream!ContentBlocks), NEW block, NEW n \in Nat,
           block.pieces = <<n>>, NEW type,
           Stream!Ordered(content, type),
           \A p \in Stream!Pieces(content, type) : p < n
    PROVE  /\ Stream!Ordered(Append(content, block), type)
           /\ Stream!Pieces(Append(content, block), type) =
                 Stream!Pieces(content, type) \cup (IF block.type = type THEN {n} ELSE {})
<1> DEFINE after == Append(content, block)
<1>1. /\ DOMAIN after = DOMAIN content \cup {Len(content) + 1} /\ after[Len(content) + 1] = block
      /\ \A k \in DOMAIN content : after[k] = content[k]
      /\ DOMAIN content = 1..Len(content) /\ Len(content) \in Nat
      /\ DOMAIN after = 1..(Len(content) + 1)
  <2>1. DOMAIN after = 1..(Len(content) + 1) /\ Len(content) \in Nat
      OBVIOUS
  <2>2. \A m \in Nat : 1..(m + 1) = 1..m \cup {m + 1}
      OBVIOUS
  <2>3. DOMAIN content = 1..Len(content)
      OBVIOUS
  <2>4. DOMAIN after = DOMAIN content \cup {Len(content) + 1}
      BY <2>1, <2>2, <2>3
  <2>5. after[Len(content) + 1] = block
      OBVIOUS
  <2>6. \A k \in DOMAIN content : after[k] = content[k]
      OBVIOUS
  <2> QED BY <2>1, <2>3, <2>4, <2>5, <2>6
<1>2. Stream!ToSet(block.pieces) = {n} /\ Stream!Ascending(block.pieces)
  <2> DEFINE one == <<n>>
  <2>1. DOMAIN one = {1} /\ one[1] = n
      OBVIOUS
  <2> HIDE DEF one
  <2>2. block.pieces = one
      BY DEF one
  <2> QED BY <2>1, <2>2 DEF Stream!ToSet, Stream!Ascending
<1> HIDE DEF after
<1>3. Stream!Pieces(after, type) =
          Stream!Pieces(content, type) \cup (IF block.type = type THEN {n} ELSE {})
    BY <1>1, <1>2 DEF Stream!Pieces
<1>4. ASSUME NEW k \in DOMAIN after, after[k].type = type
      PROVE  /\ Stream!Ascending(after[k].pieces)
             /\ \A j \in 1..(k - 1) : after[j].type = type =>
                   \A p \in Stream!ToSet(after[j].pieces), q \in Stream!ToSet(after[k].pieces) : p < q
  <2>1. CASE k \in DOMAIN content
    <3>1. \A j \in 1..(k - 1) : j \in DOMAIN content
        BY <2>1, <1>1
    <3> QED BY <2>1, <3>1, <1>1, <1>4 DEF Stream!Ordered
  <2>2. CASE k = Len(content) + 1
    <3>1. \A j \in 1..(k - 1) : j \in DOMAIN content /\ after[j] = content[j]
        BY <2>2, <1>1
    <3>2. \A j \in DOMAIN content : content[j].type = type =>
              \A p \in Stream!ToSet(content[j].pieces) : p < n
        BY DEF Stream!Pieces
    <3> QED BY <2>2, <3>1, <3>2, <1>1, <1>2
  <2> QED BY <2>1, <2>2, <1>1
<1>5. Stream!Ordered(after, type)
    BY <1>4 DEF Stream!Ordered
<1> QED BY <1>3, <1>5 DEF after

Grown(content, n) ==
    [content EXCEPT ![Len(content)] = [content[Len(content)] EXCEPT !.pieces = Append(@, n)]]

\* The last block grows.
LEMMA BlockGrows ==
    ASSUME NEW content \in Seq(Stream!ContentBlocks), content # <<>>, NEW n \in Nat, NEW type,
           Stream!Ordered(content, type),
           \A p \in Stream!Pieces(content, type) : p < n
    PROVE  /\ Stream!Ordered(Grown(content, n), type)
           /\ Stream!Pieces(Grown(content, n), type) =
                 Stream!Pieces(content, type) \cup
                     (IF content[Len(content)].type = type THEN {n} ELSE {})
<1> DEFINE after == Grown(content, n)
           last == Len(content)
           pieces == content[last].pieces
           grown == [content[last] EXCEPT !.pieces = Append(@, n)]
<1>1. /\ last \in DOMAIN content /\ DOMAIN content = 1..last /\ last \in Nat
      /\ content[last] \in Stream!ContentBlocks /\ \A k \in DOMAIN content : k <= last
    OBVIOUS
<1>2. /\ pieces \in Seq(Nat) /\ grown.pieces = Append(pieces, n)
      /\ grown.type = content[last].type
    BY <1>1 DEF Stream!ContentBlocks
<1>3. /\ DOMAIN after = DOMAIN content /\ after[last] = grown
      /\ \A k \in DOMAIN content : k # last => after[k] = content[k]
    BY <1>1 DEF Grown
<1> HIDE DEF grown, after
<1>4. Stream!ToSet(grown.pieces) = Stream!ToSet(pieces) \cup {n}
    BY <1>2, ToSetAppend
<1> HIDE DEF pieces
<1>p. content[last].pieces = pieces
    BY DEF pieces
<1> HIDE DEF last
<1>5. Stream!Pieces(after, type) =
          Stream!Pieces(content, type) \cup (IF content[last].type = type THEN {n} ELSE {})
  <2>1. \A x : x \in Stream!Pieces(after, type) <=>
            \E k \in DOMAIN content : after[k].type = type /\ x \in Stream!ToSet(after[k].pieces)
      BY <1>3 DEF Stream!Pieces
  <2>2. \A x : x \in Stream!Pieces(content, type) <=>
            \E k \in DOMAIN content : content[k].type = type /\ x \in Stream!ToSet(content[k].pieces)
      BY DEF Stream!Pieces
  <2>3. \A k \in DOMAIN content : after[k].type = content[k].type
      BY <1>2, <1>3
  <2>4. \A k \in DOMAIN content :
            Stream!ToSet(after[k].pieces) =
                Stream!ToSet(content[k].pieces) \cup (IF k = last THEN {n} ELSE {})
      BY <1>3, <1>4, <1>p
  <2> DEFINE new == IF content[last].type = type THEN {n} ELSE {}
  <2>5. ASSUME NEW x \in Stream!Pieces(after, type)
        PROVE  x \in Stream!Pieces(content, type) \cup new
    <3>1. PICK k \in DOMAIN content : after[k].type = type /\ x \in Stream!ToSet(after[k].pieces)
        BY <2>1
    <3>2. \/ x \in Stream!ToSet(content[k].pieces)
          \/ k = last /\ x = n
        BY <3>1, <2>4
    <3> QED BY <3>1, <3>2, <2>2, <2>3
  <2>6. ASSUME NEW x \in Stream!Pieces(content, type)
        PROVE  x \in Stream!Pieces(after, type)
    <3>1. PICK k \in DOMAIN content :
              content[k].type = type /\ x \in Stream!ToSet(content[k].pieces)
        BY <2>2
    <3> QED BY <3>1, <2>1, <2>3, <2>4
  <2>7. new \subseteq Stream!Pieces(after, type)
    <3> SUFFICES ASSUME content[last].type = type PROVE n \in Stream!Pieces(after, type)
        OBVIOUS
    <3>1. after[last].type = type /\ n \in Stream!ToSet(after[last].pieces)
        BY <2>3, <2>4, <1>1
    <3> QED BY <3>1, <2>1, <1>1
  <2> HIDE DEF new
  <2>8. Stream!Pieces(after, type) = Stream!Pieces(content, type) \cup new
      BY <2>5, <2>6, <2>7
  <2> QED BY <2>8 DEF new
<1>6. ASSUME NEW k \in DOMAIN after, after[k].type = type
      PROVE  /\ Stream!Ascending(after[k].pieces)
             /\ \A j \in 1..(k - 1) : after[j].type = type =>
                   \A p \in Stream!ToSet(after[j].pieces), q \in Stream!ToSet(after[k].pieces) : p < q
  <2>1. \A j \in 1..(k - 1) : j \in DOMAIN content /\ j # last /\ after[j] = content[j]
      BY <1>1, <1>3
  <2>2. content[k].type = type
      BY <1>2, <1>3, <1>6
  <2>3. CASE k # last
      BY <2>1, <2>2, <2>3, <1>3 DEF Stream!Ordered
  <2>4. CASE k = last
    <3>1. \A p \in Stream!ToSet(pieces) : p < n
        BY <2>2, <2>4, <1>1, <1>p DEF Stream!Pieces
    <3>2. \A i \in DOMAIN pieces : pieces[i] < n
        BY <3>1 DEF Stream!ToSet
    <3>3. Stream!Ascending(pieces)
        BY <2>2, <2>4, <1>1, <1>p DEF Stream!Ordered
    <3>4. Stream!Ascending(grown.pieces)
        BY <3>2, <3>3, <1>2, AscendingAppend
    <3>5. ASSUME NEW j \in 1..(k - 1), after[j].type = type,
                 NEW p \in Stream!ToSet(after[j].pieces), NEW q \in Stream!ToSet(after[k].pieces)
          PROVE  p < q
      <4>1. p \in Stream!ToSet(content[j].pieces) /\ content[j].type = type /\ j \in DOMAIN content
          BY <3>5, <2>1
      <4>2. q \in Stream!ToSet(pieces) \cup {n}
          BY <3>5, <2>4, <1>3, <1>4
      <4>3. CASE q = n
          BY <4>1, <4>3 DEF Stream!Pieces
      <4>4. CASE q \in Stream!ToSet(pieces)
          BY <4>1, <4>4, <2>2, <2>4, <1>1, <1>p, <3>5 DEF Stream!Ordered
      <4> QED BY <4>2, <4>3, <4>4
    <3> QED BY <3>4, <3>5, <2>4, <1>3
  <2> QED BY <2>3, <2>4
<1>7. Stream!Ordered(after, type)
    BY <1>6 DEF Stream!Ordered
<1> QED BY <1>5, <1>7 DEF last, after

-----------------------------------------------------------------------------
\* complete()'s blocks hold what has come in, in its order.
KindOf(type) == IF type = "text" THEN "text" ELSE "functionCall"
Sorted == answer # None =>
              \A type \in {"text", "tool_use"} :
                  /\ Stream!Pieces(blocks, type) = Came(KindOf(type))
                  /\ Stream!Ordered(blocks, type)

\* The last chunk overrides what was reported on the way.
Finished == answer # None =>
    /\ answer.total = None => usage = Stream!usage_from(None)
    /\ finish # None => /\ taken = Len(answer.parts)
                        /\ finish = answer.finishReason
                        /\ usage = Stream!usage_from(answer.total)

\* What has come in with the next part.
LEMMA CameNext ==
    ASSUME taken \in Nat, NEW kind
    PROVE  {i \in 1..(taken + 1) : answer.parts[i].type = kind} =
               Came(kind) \cup (IF answer.parts[taken + 1].type = kind THEN {taken + 1} ELSE {})
<1>1. 1..(taken + 1) = 1..taken \cup {taken + 1}
    OBVIOUS
<1> QED BY <1>1 DEF Came

\* A part is added to complete()'s blocks, or is skipped.
LEMMA SortedStep ==
    ASSUME Stream!TypeOK, answer \in Answers, Sorted, Stream!Next
    PROVE  Sorted'
<1>1. answer # None
    BY AnswersAssumption DEF Stream!AnswersAreAnswers
<1>t. taken \in Nat /\ taken + 1 \in Nat /\ blocks \in Seq(Stream!ContentBlocks)
    BY DEF Stream!TypeOK
<1>2. \A type \in {"text", "tool_use"} :
          /\ Stream!Pieces(blocks, type) = Came(KindOf(type))
          /\ Stream!Ordered(blocks, type)
          /\ \A p \in Stream!Pieces(blocks, type) : p < taken + 1
  <2>1. \A kind : \A p \in Came(kind) : p < taken + 1
      BY <1>t DEF Came
  <2> QED BY <2>1, <1>1 DEF Sorted
<1> DEFINE Now(kind) == {i \in 1..(taken + 1) : answer.parts[i].type = kind}
           Just(kind) == IF answer.parts[taken + 1].type = kind THEN {taken + 1} ELSE {}
<1>3. \A kind : Now(kind) = Came(kind) \cup Just(kind)
    BY <1>t, CameNext
<1>4. ASSUME answer' = answer, taken' = taken + 1,
             \A type \in {"text", "tool_use"} :
                 /\ Stream!Pieces(blocks', type) = Came(KindOf(type)) \cup Just(KindOf(type))
                 /\ Stream!Ordered(blocks', type)
      PROVE  Sorted'
  <2>1. \A type \in {"text", "tool_use"} : Stream!Pieces(blocks', type) = Now(KindOf(type))
      BY <1>3, <1>4
  <2> QED BY <1>4, <2>1 DEF Sorted, Came, KindOf, Stream!Pieces, Stream!Ordered,
                            Stream!Ascending, Stream!ToSet
<1> HIDE DEF Now
<1>5. CASE Stream!TextPart
  <2>1. /\ taken' = taken + 1 /\ answer' = answer /\ answer.parts[taken + 1].type = "text"
      BY <1>5 DEF Stream!TextPart, Stream!Takes
  <2>2. Just(KindOf("text")) = {taken + 1} /\ Just(KindOf("tool_use")) = {}
      BY <2>1 DEF KindOf
  <2> HIDE DEF Just
  <2>3. CASE blocks # <<>> /\ blocks[Len(blocks)].type = "text"
    <3>1. blocks' = Grown(blocks, taken + 1)
        BY <1>5, <2>3, <1>t DEF Stream!TextPart, Grown
    <3>2. \A type \in {"text", "tool_use"} :
              /\ Stream!Ordered(blocks', type)
              /\ Stream!Pieces(blocks', type) =
                    Stream!Pieces(blocks, type) \cup
                        (IF blocks[Len(blocks)].type = type THEN {taken + 1} ELSE {})
      <4> TAKE type \in {"text", "tool_use"}
      <4>1. /\ Stream!Ordered(blocks, type)
            /\ \A p \in Stream!Pieces(blocks, type) : p < taken + 1
          BY <1>2
      <4>2. blocks # <<>>
          BY <2>3
      <4> QED BY <4>1, <4>2, <3>1, <1>t, BlockGrows
    <3> QED BY <3>2, <2>1, <2>2, <2>3, <1>2, <1>4
  <2>4. CASE ~(blocks # <<>> /\ blocks[Len(blocks)].type = "text")
    <3> DEFINE block == Stream!TextBlock(<<taken + 1>>)
    <3>1. blocks' = Append(blocks, block)
        BY <1>5, <2>4 DEF Stream!TextPart
    <3>2. block.pieces = <<taken + 1>> /\ block.type = "text"
        BY DEF Stream!TextBlock
    <3> HIDE DEF block
    <3>3. \A type \in {"text", "tool_use"} :
              /\ Stream!Ordered(blocks', type)
              /\ Stream!Pieces(blocks', type) =
                    Stream!Pieces(blocks, type) \cup (IF block.type = type THEN {taken + 1} ELSE {})
        BY <3>1, <3>2, <1>2, <1>t, BlockBehind
    <3> QED BY <3>2, <3>3, <2>1, <2>2, <1>2, <1>4
  <2> QED BY <2>3, <2>4
<1>6. CASE Stream!CallPart
  <2> DEFINE block == Stream!ToolUseBlock(taken, taken + 1)
  <2>1. /\ taken' = taken + 1 /\ answer' = answer /\ answer.parts[taken + 1].type = "functionCall"
        /\ blocks' = Append(blocks, block)
      BY <1>6 DEF Stream!CallPart, Stream!Takes
  <2>2. Just(KindOf("text")) = {} /\ Just(KindOf("tool_use")) = {taken + 1}
      BY <2>1 DEF KindOf
  <2>3. block.pieces = <<taken + 1>> /\ block.type = "tool_use"
      BY DEF Stream!ToolUseBlock
  <2> HIDE DEF block, Just
  <2>4. \A type \in {"text", "tool_use"} :
            /\ Stream!Ordered(blocks', type)
            /\ Stream!Pieces(blocks', type) =
                  Stream!Pieces(blocks, type) \cup (IF block.type = type THEN {taken + 1} ELSE {})
      BY <2>1, <2>3, <1>2, <1>t, BlockBehind
  <2> QED BY <2>1, <2>2, <2>3, <2>4, <1>2, <1>4
<1>7. CASE Stream!SkippedPart
  <2>1. /\ taken' = taken + 1 /\ answer' = answer /\ blocks' = blocks
        /\ answer.parts[taken + 1].type = "skipped"
      BY <1>7 DEF Stream!SkippedPart, Stream!Takes
  <2>2. Just(KindOf("text")) = {} /\ Just(KindOf("tool_use")) = {}
      BY <2>1 DEF KindOf
  <2> HIDE DEF Just
  <2> QED BY <2>1, <2>2, <1>2, <1>4
<1>8. CASE Stream!Finish \/ Stream!End
  <2>1. UNCHANGED <<answer, taken, blocks>>
      BY <1>8 DEF Stream!Finish, Stream!End
  <2> QED BY <2>1 DEF Sorted, Came, KindOf
<1> QED BY <1>5, <1>6, <1>7, <1>8 DEF Stream!Next

\* The finish reason and the usage come last, and stay.
LEMMA FinishedStep ==
    ASSUME Stream!TypeOK, answer \in Answers, Finished, Stream!Next
    PROVE  Finished'
<1>1. answer # None /\ taken \in Nat /\ Len(answer.parts) \in Nat
    BY PartTyped, AnswersAssumption DEF Stream!AnswersAreAnswers, Stream!TypeOK
<1>2. ASSUME NEW type, Stream!Takes(type) PROVE Finished'
  <2>1. finish = None /\ finish' = None /\ answer' = answer
    <3>1. taken < Len(answer.parts) /\ finish' = finish /\ answer' = answer
        BY <1>2 DEF Stream!Takes
    <3> QED BY <3>1, <1>1 DEF Finished
  <2>2. answer.total = None => usage' = usage
    <3>1. answer.total = None => answer.interim = {}
        BY PartTyped
    <3> QED BY <1>2, <3>1 DEF Stream!Takes, Stream!Interim
  <2>3. answer.total = None => usage' = Stream!usage_from(None)
      BY <2>2, <1>1 DEF Finished
  <2> QED BY <2>1, <2>3 DEF Finished, Stream!usage_from, Stream!Number
<1>3. CASE Stream!TextPart \/ Stream!CallPart \/ Stream!SkippedPart
    BY <1>2, <1>3 DEF Stream!TextPart, Stream!CallPart, Stream!SkippedPart
<1>4. CASE Stream!Finish
  <2>1. /\ taken = Len(answer.parts) /\ answer' = answer /\ taken' = taken
        /\ finish' = answer.finishReason
        /\ usage' = IF answer.total = None THEN usage ELSE Stream!usage_from(answer.total)
      BY <1>4 DEF Stream!Finish
  <2>2. usage' = Stream!usage_from(answer.total)
      BY <2>1, <1>1 DEF Finished
  <2> QED BY <2>1, <2>2 DEF Finished, Stream!usage_from, Stream!Number
<1>5. CASE Stream!End
  <2>1. UNCHANGED <<answer, taken, finish, usage>>
      BY <1>5 DEF Stream!End
  <2> QED BY <2>1 DEF Finished, Stream!usage_from, Stream!Number
<1> QED BY <1>3, <1>4, <1>5 DEF Stream!Next

StreamInv == Assembled /\ Sorted /\ Finished

\* A stream starts with nothing.
LEMMA StreamNew ==
    ASSUME NEW a, Stream!New(a)
    PROVE  StreamInv'
<1>1. /\ answer' = a /\ taken' = 0 /\ text' = <<>> /\ calls' = <<>> /\ blocks' = <<>>
      /\ finish' = None /\ usage' = Stream!usage_from(None)
    BY DEF Stream!New
<1>2. Stream!Ascending(<<>>) /\ Stream!ToSet(<<>>) = {}
    BY DEF Stream!Ascending, Stream!ToSet
<1>3. \A type : Stream!Pieces(<<>>, type) = {} /\ Stream!Ordered(<<>>, type)
    BY DEF Stream!Pieces, Stream!Ordered
<1>4. 1..0 = {}
    OBVIOUS
<1>5. Assembled'
    BY <1>1, <1>2, <1>4 DEF Assembled, Stream!Enumerates
<1>6. Sorted'
    BY <1>1, <1>3, <1>4 DEF Sorted, Came, KindOf
<1>7. Finished'
    BY <1>1 DEF Finished, Stream!usage_from, Stream!Number
<1> QED BY <1>5, <1>6, <1>7 DEF StreamInv

\* Every step of a conversation keeps the invariant of its stream.
LEMMA StreamInvStep ==
    ASSUME CallInv, StreamInv, [Next]_vars
    PROVE  StreamInv'
<1>1. CASE UNCHANGED stream
    BY <1>1 DEF stream, StreamInv, Assembled, Stream!Enumerates, Sorted, Came, KindOf, Finished,
                Stream!usage_from, Stream!Number
<1>2. CASE Done
    BY <1>2, StreamNew DEF Done
<1>3. ASSUME NEW a \in Answers, Respond(a) PROVE StreamInv'
    BY <1>3, StreamNew DEF Respond
<1>4. CASE Parsing \/ Streaming
  <2>1. Stream!Next /\ pc \in {"complete", "stream"}
      BY <1>4 DEF Parsing, Streaming, Stream!Next
  <2>2. Stream!TypeOK /\ answer \in Answers
      BY <2>1 DEF CallInv, AtRest, TypeOK, Stream!TypeOK
  <2> QED BY <2>1, <2>2, AssembledStep, SortedStep, FinishedStep DEF StreamInv
<1>5. CASE Say \/ Reply
    BY <1>1, <1>5 DEF Say, Reply, Says
<1>6. ASSUME NEW w \in {"openai", "anthropic", "gemini"}, Ask(w) PROVE StreamInv'
    BY <1>1, <1>6 DEF Ask
<1>7. ASSUME NEW n \in 1..MaxMessages, Forget(n) PROVE StreamInv'
    BY <1>1, <1>7 DEF Forget
<1>8. CASE Translating \/ UNCHANGED vars
    BY <1>1, <1>8 DEF Translating, vars
<1>9. CASE Complete \/ FinalMessage \/ Fail
    BY <1>2, <1>9 DEF Complete, FinalMessage, Fail, Receive
<1> QED BY <1>3, <1>4, <1>5, <1>6, <1>7, <1>8, <1>9 DEF Next

\* The invariant of the stream, in every conversation.
LEMMA Streams == Spec => [](CallInv /\ StreamInv)
<1>1. Init => StreamInv
  <2> SUFFICES ASSUME Init PROVE StreamInv OBVIOUS
  <2>1. answer = None
      BY DEF Init, Stream!Init
  <2> QED BY <2>1 DEF StreamInv, Assembled, Sorted, Finished
<1>2. CallInv /\ StreamInv /\ [Next]_vars => StreamInv'
    BY StreamInvStep
<1> QED BY <1>1, <1>2, Calls, PTL DEF Spec

\* However long an answer and wherever its stream breaks off, what was assembled
\* is the text and the calls of the parts that came in, each once and in order.
THEOREM CutShort == Spec => []CutShortIsATruncation
<1>1. StreamInv => CutShortIsATruncation
    BY DEF StreamInv, Assembled, CutShortIsATruncation, Stream!CutShortIsATruncation
<1> QED BY <1>1, Streams, PTL

\* What the stream's response holds of either kind.
LEMMA FinalPieces ==
    ASSUME CallInv, StreamInv, answer # None, NEW type \in {"text", "tool_use"}
    PROVE  /\ Stream!Pieces(Stream!get_final_message.content, type) = Came(KindOf(type))
           /\ Stream!Ordered(Stream!get_final_message.content, type)
<1> DEFINE front == IF text = <<>> THEN <<>> ELSE <<Stream!TextBlock(text)>>
           back == [k \in DOMAIN calls |-> Stream!ToolUseBlock(k - 1, calls[k])]
           content == front \o back
<1>1. /\ calls \in Seq(Nat) /\ text \in Seq(Nat) /\ Len(calls) \in Nat
      /\ DOMAIN calls = 1..Len(calls)
    BY DEF CallInv, TypeOK, Stream!TypeOK
<1>2. /\ Stream!Ascending(text) /\ Stream!ToSet(text) = Came("text")
      /\ Stream!Ascending(calls) /\ Stream!ToSet(calls) = Came("functionCall")
    BY DEF StreamInv, Assembled, Stream!Enumerates, Came
<1>3. /\ DOMAIN back = 1..Len(calls)
      /\ \A k \in DOMAIN back : back[k].type = "tool_use" /\ back[k].pieces = <<calls[k]>>
    BY <1>1 DEF Stream!ToolUseBlock
<1>4. back \in Seq({back[k] : k \in DOMAIN back}) /\ Len(back) = Len(calls)
  <2> DEFINE S == {back[k] : k \in DOMAIN back}
  <2>1. back \in [1..Len(calls) -> S]
      BY <1>3
  <2>2. \A T : \A n \in Nat : \A f \in [1..n -> T] : f \in Seq(T) /\ Len(f) = n
      OBVIOUS
  <2> HIDE DEF S, back
  <2>3. back \in Seq(S) /\ Len(back) = Len(calls)
      BY <1>1, <2>1, <2>2
  <2> QED BY <2>3 DEF S
<1>5. /\ DOMAIN front = 1..Len(front) /\ Len(front) \in {0, 1}
      /\ Len(front) = 0 <=> text = <<>>
      /\ \A k \in DOMAIN front : /\ k = 1 /\ front[k].type = "text" /\ front[k].pieces = text
  <2> DEFINE one == <<Stream!TextBlock(text)>>
  <2>1. DOMAIN one = {1} /\ Len(one) = 1 /\ one[1].type = "text" /\ one[1].pieces = text
      BY DEF Stream!TextBlock
  <2>2. DOMAIN one = 1..1
      OBVIOUS
  <2> HIDE DEF one
  <2>3. CASE text = <<>>
    <3>1. front = <<>>
        BY <2>3
    <3> HIDE DEF front
    <3> QED BY <3>1, <2>3
  <2>4. CASE text # <<>>
    <3>1. front = one
        BY <2>4 DEF one
    <3> HIDE DEF front
    <3> QED BY <3>1, <2>1, <2>2, <2>4
  <2> QED BY <2>3, <2>4
<1>6. \E T : front \in Seq(T) /\ back \in Seq(T)
  <2> DEFINE T == {front[k] : k \in DOMAIN front} \cup {back[k] : k \in DOMAIN back}
  <2>1. front \in Seq(T)
    <3> DEFINE block == Stream!TextBlock(text)
               one == <<block>>
    <3>1. front = <<>> \/ front = one
        OBVIOUS
    <3> HIDE DEF block
    <3>2. one[1] = block /\ 1 \in DOMAIN one
        OBVIOUS
    <3> HIDE DEF front, one
    <3>3. front = one => block \in T
        BY <3>2
    <3>4. \A S : block \in S => one \in Seq(S)
        BY DEF one
    <3>5. \A S : <<>> \in Seq(S)
        OBVIOUS
    <3> HIDE DEF T
    <3> QED BY <3>1, <3>3, <3>4, <3>5
  <2>2. back \in Seq(T)
    <3>1. {back[k] : k \in DOMAIN back} \subseteq T
        OBVIOUS
    <3> HIDE DEF T, front, back
    <3> QED BY <3>1, <1>4
  <2> QED BY <2>1, <2>2
<1>7. content = Stream!get_final_message.content
    BY DEF Stream!get_final_message
<1> HIDE DEF front, back
<1>8. /\ DOMAIN content = 1..(Len(front) + Len(calls))
      /\ \A k \in DOMAIN front : content[k] = front[k]
      /\ \A k \in DOMAIN content : k \notin DOMAIN front =>
            content[k] = back[k - Len(front)] /\ k - Len(front) \in DOMAIN back
  <2>1. PICK T : front \in Seq(T) /\ back \in Seq(T)
      BY <1>6
  <2>2. /\ Len(content) = Len(front) + Len(calls) /\ DOMAIN content = 1..Len(content)
        /\ \A k \in 1..Len(front) : content[k] = front[k]
        /\ \A k \in 1..Len(content) : k > Len(front) => content[k] = back[k - Len(front)]
      BY <2>1, <1>4
  <2>3. Len(front) \in Nat
      BY <2>1
  <2> HIDE DEF content
  <2>4. ASSUME NEW k \in DOMAIN content, k \notin DOMAIN front
        PROVE  content[k] = back[k - Len(front)] /\ k - Len(front) \in DOMAIN back
    <3>1. \A m, n \in Nat : \A i \in 1..(m + n) : i \notin 1..m => i > m /\ i - m \in 1..n
        OBVIOUS
    <3>2. k > Len(front) /\ k - Len(front) \in 1..Len(calls)
        BY <3>1, <2>2, <2>3, <2>4, <1>1, <1>5
    <3> QED BY <3>2, <2>2, <1>3
  <2> QED BY <2>2, <2>4, <1>5
<1> HIDE DEF content
<1>9. ASSUME NEW k \in DOMAIN calls
      PROVE  /\ Len(front) + k \in DOMAIN content /\ content[Len(front) + k] = back[k]
             /\ Len(front) + k \notin DOMAIN front
  <2>1. \A m, n \in Nat : \A i \in 1..n : m + i \in 1..(m + n) /\ m + i \notin 1..m /\ (m + i) - m = i
      OBVIOUS
  <2>2. Len(front) \in Nat
      BY <1>5
  <2> QED BY <2>1, <2>2, <1>1, <1>5, <1>8
<1>10. \A n : Stream!ToSet(<<n>>) = {n} /\ Stream!Ascending(<<n>>)
  <2> TAKE n
  <2> DEFINE one == <<n>>
  <2>1. DOMAIN one = {1} /\ one[1] = n
      OBVIOUS
  <2> HIDE DEF one
  <2>2. Stream!ToSet(one) = {n} /\ Stream!Ascending(one)
      BY <2>1 DEF Stream!ToSet, Stream!Ascending
  <2> QED BY <2>2 DEF one
<1>11. CASE type = "text"
  <2>1. \A k \in DOMAIN content : content[k].type = "text" <=> k \in DOMAIN front
      BY <1>3, <1>5, <1>8
  <2>2. \A k \in DOMAIN content : content[k].type = "text" => k = 1 /\ content[k].pieces = text
      BY <2>1, <1>5, <1>8
  <2>3. text = <<>> => Stream!ToSet(text) = {}
      BY DEF Stream!ToSet
  <2>4. text # <<>> => 1 \in DOMAIN content /\ 1 \in DOMAIN front
      BY <1>1, <1>5, <1>8
  <2>5. Stream!Pieces(content, "text") = Stream!ToSet(text)
    <3>1. \A x : x \in Stream!Pieces(content, "text") <=>
              \E k \in DOMAIN content : content[k].type = "text" /\ x \in Stream!ToSet(content[k].pieces)
        BY DEF Stream!Pieces
    <3> QED BY <3>1, <2>1, <2>2, <2>3, <2>4
  <2>6. Stream!Ordered(content, "text")
      BY <2>2, <1>2 DEF Stream!Ordered
  <2> QED BY <2>5, <2>6, <1>2, <1>7, <1>11 DEF KindOf
<1>12. CASE type = "tool_use"
  <2>1. ASSUME NEW k \in DOMAIN content, content[k].type = "tool_use"
        PROVE  /\ k - Len(front) \in DOMAIN calls
               /\ content[k].pieces = <<calls[k - Len(front)]>>
    <3>1. k \notin DOMAIN front
        BY <2>1, <1>5, <1>8
    <3> QED BY <3>1, <1>1, <1>3, <1>8
  <2>2. ASSUME NEW x PROVE x \in Stream!Pieces(content, "tool_use") <=> x \in Stream!ToSet(calls)
    <3>1. x \in Stream!Pieces(content, "tool_use") <=>
              \E k \in DOMAIN content : content[k].type = "tool_use" /\ x \in Stream!ToSet(content[k].pieces)
        BY DEF Stream!Pieces
    <3>2. x \in Stream!ToSet(calls) <=> \E k \in DOMAIN calls : x = calls[k]
        BY DEF Stream!ToSet
    <3>3. ASSUME x \in Stream!Pieces(content, "tool_use") PROVE x \in Stream!ToSet(calls)
      <4>1. PICK k \in DOMAIN content :
                content[k].type = "tool_use" /\ x \in Stream!ToSet(content[k].pieces)
          BY <3>1, <3>3
      <4>2. x = calls[k - Len(front)] /\ k - Len(front) \in DOMAIN calls
          BY <4>1, <2>1, <1>10
      <4> QED BY <4>2, <3>2
    <3>4. ASSUME x \in Stream!ToSet(calls) PROVE x \in Stream!Pieces(content, "tool_use")
      <4>1. PICK k \in DOMAIN calls : x = calls[k]
          BY <3>2, <3>4
      <4>2. /\ Len(front) + k \in DOMAIN content /\ content[Len(front) + k].type = "tool_use"
            /\ x \in Stream!ToSet(content[Len(front) + k].pieces)
        <5>1. back[k].type = "tool_use" /\ back[k].pieces = <<calls[k]>>
            BY <1>1, <1>3
        <5>2. Len(front) + k \in DOMAIN content /\ content[Len(front) + k] = back[k]
            BY <1>9
        <5>3. x \in Stream!ToSet(<<calls[k]>>)
            BY <4>1, <1>10
        <5> QED BY <5>1, <5>2, <5>3
      <4> QED BY <4>2, <3>1
    <3> QED BY <3>3, <3>4
  <2>3. ASSUME NEW k \in DOMAIN content, content[k].type = "tool_use",
               NEW j \in 1..(k - 1), content[j].type = "tool_use",
               NEW p \in Stream!ToSet(content[j].pieces), NEW q \in Stream!ToSet(content[k].pieces)
        PROVE  p < q
    <3>1. j \in DOMAIN content /\ k \in Nat /\ j \in Nat /\ j < k /\ Len(front) \in Nat
        BY <1>1, <1>5, <1>8
    <3>2. p = calls[j - Len(front)] /\ q = calls[k - Len(front)]
        BY <3>1, <2>1, <2>3, <1>10
    <3>3. /\ j - Len(front) \in DOMAIN calls /\ k - Len(front) \in DOMAIN calls
          /\ j - Len(front) < k - Len(front)
        BY <3>1, <2>1, <2>3
    <3> QED BY <3>2, <3>3, <1>2 DEF Stream!Ascending
  <2>4. \A k \in DOMAIN content : content[k].type = "tool_use" => Stream!Ascending(content[k].pieces)
      BY <2>1, <1>10
  <2>5. Stream!Ordered(content, "tool_use")
      BY <2>3, <2>4 DEF Stream!Ordered
  <2>6. Stream!Pieces(content, "tool_use") = Stream!ToSet(calls)
      BY <2>2
  <2> QED BY <2>5, <2>6, <1>2, <1>7, <1>12 DEF KindOf
<1> QED BY <1>11, <1>12

\* For any answer the two ways to get it hold the same text and the same calls,
\* in order, and end for the same reason with the same usage.
THEOREM StreamAgrees == Spec => []StreamAgreesWithComplete
<1>1. ASSUME CallInv, StreamInv, answer # None
      PROVE  /\ \A type \in {"text", "tool_use"} :
                    /\ Stream!Pieces(Stream!get_final_message.content, type) =
                          Stream!Pieces(Stream!complete.content, type)
                    /\ Stream!Ordered(Stream!get_final_message.content, type)
                    /\ Stream!Ordered(Stream!complete.content, type)
             /\ finish # None => /\ Stream!get_final_message.stop_reason = Stream!complete.stop_reason
                                 /\ Stream!get_final_message.usage = Stream!complete.usage
  <2>1. Stream!complete.content = blocks
      BY DEF Stream!complete
  <2>2. \A type \in {"text", "tool_use"} :
            /\ Stream!Pieces(blocks, type) = Came(KindOf(type)) /\ Stream!Ordered(blocks, type)
      BY <1>1 DEF StreamInv, Sorted
  <2>3. ASSUME finish # None
        PROVE  /\ Stream!get_final_message.stop_reason = Stream!complete.stop_reason
               /\ Stream!get_final_message.usage = Stream!complete.usage
    <3>1. /\ taken = Len(answer.parts) /\ finish = answer.finishReason
          /\ usage = Stream!usage_from(answer.total)
        BY <1>1, <2>3 DEF StreamInv, Finished
    <3>2. Stream!ToSet(calls) = {i \in 1..taken : answer.parts[i].type = "functionCall"}
        BY <1>1 DEF StreamInv, Assembled, Stream!Enumerates
    <3>3. answer \in Answers
        BY <1>1 DEF CallInv, TypeOK, Stream!TypeOK
    <3>4. DOMAIN answer.parts = 1..taken
        BY <3>1, <3>3, PartTyped
    <3>5. calls \in Seq(Nat)
        BY <1>1 DEF CallInv, TypeOK, Stream!TypeOK
    <3>6. calls # <<>> <=> Stream!ToSet(calls) # {}
        BY <3>5 DEF Stream!ToSet
    <3>7. calls # <<>> <=> \E i \in DOMAIN answer.parts : answer.parts[i].type = "functionCall"
        BY <3>2, <3>4, <3>6
    <3> QED BY <3>1, <3>7 DEF Stream!get_final_message, Stream!complete, Stream!stop_reason
  <2> QED BY <2>1, <2>2, <2>3, <1>1, FinalPieces
<1>2. CallInv /\ StreamInv => StreamAgreesWithComplete
    BY <1>1 DEF StreamAgreesWithComplete, Stream!StreamAgreesWithComplete
<1> QED BY <1>2, Streams, PTL
-----------------------------------------------------------------------------
(***************************************************************************)
(* Ids within an answer.                                                   *)
(***************************************************************************)
DistinctIds(content) ==
    \A i, j \in DOMAIN content :
        content[i].type = "tool_use" /\ content[j].type = "tool_use"
            /\ content[i].id = content[j].id => i = j

SaidDistinct == \A s \in DOMAIN said : DistinctIds(said[s])

\* complete() numbers its calls by their places, all different.
Numbered == answer # None =>
    /\ \A i \in DOMAIN blocks : blocks[i].type = "tool_use" => blocks[i].id.n < taken
    /\ \A i, j \in DOMAIN blocks :
           blocks[i].type = "tool_use" /\ blocks[j].type = "tool_use"
               /\ blocks[i].id.n = blocks[j].id.n => i = j

\* Text that comes in leaves the calls in front of it alone.
LEMMA TextKeepsCalls ==
    ASSUME Stream!TypeOK, Stream!TextPart, NEW k \in DOMAIN blocks', blocks'[k].type = "tool_use"
    PROVE  k \in DOMAIN blocks /\ blocks'[k] = blocks[k]
<1>t. blocks \in Seq(Stream!ContentBlocks) /\ Len(blocks) \in Nat /\ DOMAIN blocks = 1..Len(blocks)
    BY DEF Stream!TypeOK
<1>1. CASE blocks # <<>> /\ blocks[Len(blocks)].type = "text"
  <2>1. blocks[Len(blocks)] \in Stream!ContentBlocks /\ Len(blocks) \in DOMAIN blocks
      BY <1>1, <1>t
  <2>2. blocks' = [blocks EXCEPT ![Len(blocks)] =
                      [blocks[Len(blocks)] EXCEPT !.pieces = Append(@, taken + 1)]]
      BY <1>1, <2>1 DEF Stream!TextPart
  <2>3. [blocks[Len(blocks)] EXCEPT !.pieces = Append(@, taken + 1)].type = "text"
      BY <2>1, <1>1 DEF Stream!ContentBlocks
  <2> QED BY <2>1, <2>2, <2>3, <1>t
<1>2. CASE ~(blocks # <<>> /\ blocks[Len(blocks)].type = "text")
  <2>1. blocks' = Append(blocks, Stream!TextBlock(<<taken + 1>>))
      BY <1>2 DEF Stream!TextPart
  <2>2. Stream!TextBlock(<<taken + 1>>).type = "text"
      BY DEF Stream!TextBlock
  <2>3. k \in 1..(Len(blocks) + 1) /\ (k = Len(blocks) + 1 => blocks'[k].type = "text")
      BY <2>1, <2>2, <1>t
  <2> QED BY <2>1, <2>3, <1>t
<1> QED BY <1>1, <1>2

\* A step of the stream keeps the numbers apart.
LEMMA NumberedStep ==
    ASSUME Stream!TypeOK, answer \in Answers, Numbered, Stream!Next
    PROVE  Numbered'
<1>t. /\ blocks \in Seq(Stream!ContentBlocks) /\ Len(blocks) \in Nat
      /\ DOMAIN blocks = 1..Len(blocks) /\ taken \in Nat
    BY DEF Stream!TypeOK
<1>n. answer # None
    BY AnswersAssumption DEF Stream!AnswersAreAnswers
<1>i. \A k \in DOMAIN blocks : blocks[k].id.n \in Nat
  <2> TAKE k \in DOMAIN blocks
  <2>1. blocks[k] \in Stream!ContentBlocks
      BY <1>t
  <2> QED BY <2>1 DEF Stream!ContentBlocks, Stream!Ids
<1>1. /\ \A k \in DOMAIN blocks : blocks[k].type = "tool_use" => blocks[k].id.n < taken
      /\ \A i, j \in DOMAIN blocks :
             blocks[i].type = "tool_use" /\ blocks[j].type = "tool_use"
                 /\ blocks[i].id.n = blocks[j].id.n => i = j
    BY <1>n DEF Numbered
<1>2. CASE Stream!TextPart
  <2>1. taken' = taken + 1
      BY <1>2, TakesTyped DEF Stream!TextPart
  <2>2. \A k \in DOMAIN blocks' : blocks'[k].type = "tool_use" =>
            k \in DOMAIN blocks /\ blocks'[k] = blocks[k]
      BY <1>2, TextKeepsCalls
  <2>3. \A k \in DOMAIN blocks' : blocks'[k].type = "tool_use" => blocks'[k].id.n < taken'
      BY <2>1, <2>2, <1>1, <1>i, <1>t
  <2>4. \A i, j \in DOMAIN blocks' :
            blocks'[i].type = "tool_use" /\ blocks'[j].type = "tool_use"
                /\ blocks'[i].id.n = blocks'[j].id.n => i = j
      BY <2>2, <1>1
  <2> QED BY <2>3, <2>4 DEF Numbered
<1>3. CASE Stream!CallPart
  <2> DEFINE new == Stream!ToolUseBlock(taken, taken + 1)
  <2>1. taken' = taken + 1
      BY <1>3, TakesTyped DEF Stream!CallPart
  <2>2. blocks' = Append(blocks, new)
      BY <1>3 DEF Stream!CallPart
  <2>3. new.id.n = taken
      BY DEF Stream!ToolUseBlock, Stream!call_id
  <2> HIDE DEF new
  <2>4. /\ DOMAIN blocks' = 1..(Len(blocks) + 1) /\ blocks'[Len(blocks) + 1] = new
        /\ \A k \in DOMAIN blocks : blocks'[k] = blocks[k]
      BY <2>2, <1>t
  <2>5. \A k \in DOMAIN blocks' : k \in DOMAIN blocks \/ k = Len(blocks) + 1
      BY <2>4, <1>t
  <2>6. \A k \in DOMAIN blocks' : blocks'[k].type = "tool_use" => blocks'[k].id.n < taken'
      BY <2>1, <2>3, <2>4, <2>5, <1>1, <1>i, <1>t
  <2>7. ASSUME NEW i \in DOMAIN blocks', NEW j \in DOMAIN blocks',
               blocks'[i].type = "tool_use", blocks'[j].type = "tool_use",
               blocks'[i].id.n = blocks'[j].id.n
        PROVE  i = j
    <3>1. CASE i \in DOMAIN blocks /\ j \in DOMAIN blocks
        BY <3>1, <2>4, <2>7, <1>1
    <3>2. CASE i = Len(blocks) + 1 /\ j \in DOMAIN blocks
        BY <3>2, <2>3, <2>4, <2>7, <1>1, <1>t
    <3>3. CASE j = Len(blocks) + 1 /\ i \in DOMAIN blocks
        BY <3>3, <2>3, <2>4, <2>7, <1>1, <1>t
    <3> QED BY <3>1, <3>2, <3>3, <2>5
  <2> QED BY <2>6, <2>7 DEF Numbered
<1>4. CASE Stream!SkippedPart
  <2>1. taken' = taken + 1 /\ blocks' = blocks
      BY <1>4, TakesTyped DEF Stream!SkippedPart
  <2> QED BY <2>1, <1>1, <1>i, <1>t DEF Numbered
<1>5. CASE Stream!Finish \/ Stream!End
    BY <1>5 DEF Stream!Finish, Stream!End, Numbered
<1> QED BY <1>2, <1>3, <1>4, <1>5 DEF Stream!Next

\* The calls of the stream's response have different ids.
LEMMA FinalDistinct ==
    ASSUME CallInv, answer \in Answers
    PROVE  DistinctIds(Stream!get_final_message.content)
<1> DEFINE front == IF text = <<>> THEN <<>> ELSE <<Stream!TextBlock(text)>>
           back == [k \in DOMAIN calls |-> Stream!ToolUseBlock(k - 1, calls[k])]
           content == front \o back
<1>1. /\ calls \in Seq(Nat) /\ text \in Seq(Nat) /\ Len(calls) \in Nat
      /\ DOMAIN calls = 1..Len(calls)
    BY DEF CallInv, TypeOK, Stream!TypeOK
<1>2. /\ front \in Seq(Stream!ContentBlocks) /\ Len(front) \in Nat
      /\ \A k \in DOMAIN front : front[k].type = "text"
  <2>1. Stream!TextBlock(text) \in Stream!ContentBlocks /\ Stream!TextBlock(text).type = "text"
      BY <1>1, TextBlockTyped DEF Stream!TextBlock
  <2> QED BY <2>1
<1>3. DOMAIN back = 1..Len(calls) /\ Len(back) = Len(calls)
    BY <1>1
<1>4. \A k \in 1..Len(calls) : back[k].id.n = k - 1
    BY <1>1 DEF Stream!ToolUseBlock, Stream!call_id
<1>5. Stream!get_final_message.content = content
    BY DEF Stream!get_final_message
<1> HIDE DEF front, back
<1>d. DOMAIN front = 1..Len(front)
    BY <1>2
<1>6. DOMAIN content = 1..(Len(front) + Len(calls))
    BY <1>2, <1>3, <1>1
<1>7. ASSUME NEW i \in DOMAIN content, content[i].type = "tool_use"
      PROVE  content[i].id.n = i - Len(front) - 1
  <2>1. i \in DOMAIN front => content[i] = front[i]
      BY <1>2, <1>3, <1>6, <1>d
  <2>2. i \notin DOMAIN front
      BY <2>1, <1>2, <1>7
  <2>3. content[i] = back[i - Len(front)] /\ i - Len(front) \in 1..Len(calls)
      BY <2>2, <1>1, <1>2, <1>3, <1>6, <1>d
  <2> QED BY <2>3, <1>4
<1>8. \A i \in DOMAIN content : i \in Nat
    BY <1>6
<1> HIDE DEF content
<1>9. ASSUME NEW i \in DOMAIN content, NEW j \in DOMAIN content,
             content[i].type = "tool_use", content[j].type = "tool_use",
             content[i].id = content[j].id
      PROVE  i = j
  <2>1. i - Len(front) - 1 = j - Len(front) - 1
      BY <1>7, <1>9
  <2> QED BY <2>1, <1>2, <1>8
<1> QED BY <1>5, <1>9 DEF DistinctIds

\* Ids that are different are so when they are received.
LEMMA ReceivedDistinct ==
    ASSUME NEW content, DistinctIds(content)
    PROVE  DistinctIds(Received(content))
<1>1. DOMAIN Received(content) = DOMAIN content
    BY DEF Received
<1>2. ASSUME NEW i \in DOMAIN content, NEW j \in DOMAIN content,
             Received(content)[i].type = "tool_use", Received(content)[j].type = "tool_use",
             Received(content)[i].id = Received(content)[j].id
      PROVE  i = j
  <2>1. content[i].type = "tool_use" /\ content[j].type = "tool_use"
      BY <1>2 DEF Received
  <2>2. CASE wire = "gemini"
    <3>1. content[i].id = content[j].id
        BY <1>2, <2>2 DEF Received
    <3> QED BY <2>1, <3>1 DEF DistinctIds
  <2>3. CASE wire # "gemini"
    <3>1. ProviderId(i) = ProviderId(j)
        BY <1>2, <2>1, <2>3 DEF Received
    <3> QED BY <3>1 DEF ProviderId
  <2> QED BY <2>2, <2>3
<1> QED BY <1>1, <1>2 DEF DistinctIds

-----------------------------------------------------------------------------
(***************************************************************************)
(* What stands behind an answer.                                           *)
(***************************************************************************)
\* n is message m, an answer, or behind it with no other answer in between.
Behind(m, n) == /\ messages[m].role = "assistant" /\ m <= n
                /\ \A k \in (m + 1)..n : messages[k].role # "assistant"

UserSpeaks ==
    \A m \in DOMAIN messages : messages[m].role = "user" =>
        \A block \in ToSet(messages[m].content) :
            block.type # "tool_use" /\ (block.type = "text" => block.call[1] = 0)

\* The calls of a message, and all that is answered behind it, are one answer's.
OneAnswer ==
    \A m, n \in DOMAIN messages : Behind(m, n) =>
        \A use \in ToSet(messages[m].content), block \in ToSet(messages[n].content) :
            use.type = "tool_use" /\ block.type # "text" => block.call[1] = use.call[1]

\* Only the last answer may have calls without results.
OnlyLastOpen ==
    \A p \in Uses : Use(p).call \notin Answered => Behind(p[1], Len(messages))

\* Results come behind their calls, so a window that has the calls has them too.
ResultsLater ==
    \A p \in Uses, n \in DOMAIN messages : messages[n].role = "user" =>
        \A block \in ToSet(messages[n].content) : block.call = Use(p).call => p[1] < n

\* A request is only made when every call has its result.
NoneOpen == pc # "caller" => Unanswered = {}

OpenInv == UserSpeaks /\ OneAnswer /\ OnlyLastOpen /\ ResultsLater /\ NoneOpen

\* Which calls there are, and which are answered.
LEMMA UsesAre ==
    \A p : p \in Uses <=> /\ p = <<p[1], p[2]>>
                          /\ p[1] \in DOMAIN messages /\ p[2] \in DOMAIN messages[p[1]].content
                          /\ messages[p[1]].content[p[2]].type = "tool_use"
BY DEF Uses

LEMMA AnsweredAre ==
    \A call : call \in Answered <=>
        \E m \in DOMAIN messages : /\ messages[m].role = "user"
                                   /\ \E i \in DOMAIN messages[m].content :
                                          messages[m].content[i].call = call
BY DEF Answered

\* A call without a result stands in a message that nothing but users follow.
LEMMA OpenAtTheEnd ==
    ASSUME OnlyLastOpen, NEW call \in Unanswered
    PROVE  \E p \in Uses : Use(p).call = call /\ Behind(p[1], Len(messages))
BY DEF OnlyLastOpen, Unanswered

\* The messages before the last.
LEMMA Appended ==
    ASSUME TypeOK, NEW message, messages' = Append(messages, message)
    PROVE  /\ Len(messages) \in Nat /\ DOMAIN messages = 1..Len(messages)
           /\ Len(messages') = Len(messages) + 1
           /\ DOMAIN messages' = 1..(Len(messages) + 1)
           /\ messages'[Len(messages) + 1] = message
           /\ \A m \in DOMAIN messages : messages'[m] = messages[m]
           /\ \A m \in DOMAIN messages' : m \in DOMAIN messages \/ m = Len(messages) + 1
<1>1. messages \in Seq(Messages)
    BY DEF TypeOK, TranslationTypeOK
<1> QED BY <1>1

\* What stood behind an answer is what stands behind it now.
LEMMA BehindKept ==
    ASSUME TypeOK, NEW message, messages' = Append(messages, message),
           NEW m \in DOMAIN messages, NEW n \in DOMAIN messages
    PROVE  Behind(m, n)' <=> Behind(m, n)
<1>1. /\ Len(messages) \in Nat /\ DOMAIN messages = 1..Len(messages)
      /\ \A k \in DOMAIN messages : messages'[k] = messages[k]
    BY Appended
<1>2. \A k \in (m + 1)..n : k \in DOMAIN messages
    BY <1>1
<1> QED BY <1>1, <1>2 DEF Behind

\* Users only ever speak: with what they say the calls of the last answer, and no
\* others, are answered.
LEMMA OpenSays ==
    ASSUME CallInv, OpenInv, NEW content \in Seq(Blocks), Says(content),
           \A i \in DOMAIN content : \/ content[i].type = "text" /\ content[i].call[1] = 0
                                     \/ /\ content[i].type = "tool_result"
                                        /\ content[i].call \in Unanswered
    PROVE  OpenInv'
<1> DEFINE message == [role |-> "user", content |-> content]
<1>1. messages' = Append(messages, message) /\ pc = "caller" /\ pc' = "caller"
    BY DEF Says
<1>2. message.role = "user" /\ message.content = content
    OBVIOUS
<1>t. TypeOK
    BY DEF CallInv
<1> HIDE DEF message
<1>3. /\ Len(messages) \in Nat /\ DOMAIN messages = 1..Len(messages)
      /\ Len(messages') = Len(messages) + 1
      /\ DOMAIN messages' = 1..(Len(messages) + 1)
      /\ messages'[Len(messages) + 1] = message
      /\ \A m \in DOMAIN messages : messages'[m] = messages[m]
      /\ \A m \in DOMAIN messages' : m \in DOMAIN messages \/ m = Len(messages) + 1
    BY <1>1, <1>t, Appended
<1>4. ASSUME NEW p \in Uses' PROVE p \in Uses /\ Use(p)' = Use(p)
  <2>1. /\ p = <<p[1], p[2]>>
        /\ p[1] \in DOMAIN messages' /\ p[2] \in DOMAIN messages'[p[1]].content
        /\ messages'[p[1]].content[p[2]].type = "tool_use"
      BY DEF Uses
  <2>2. p[1] # Len(messages) + 1
      BY <2>1, <1>2, <1>3
  <2>3. p[1] \in DOMAIN messages /\ messages'[p[1]] = messages[p[1]]
      BY <2>1, <2>2, <1>3
  <2> QED BY <2>1, <2>3, UsesAre DEF Use
<1>5. \A call \in Answered : call \in Answered'
    BY <1>3, AnsweredAre DEF Answered
<1>6. UserSpeaks'
  <2> SUFFICES ASSUME NEW m \in DOMAIN messages', messages'[m].role = "user",
                      NEW block \in ToSet(messages'[m].content)
               PROVE  block.type # "tool_use" /\ (block.type = "text" => block.call[1] = 0)
      BY DEF UserSpeaks
  <2>1. CASE m \in DOMAIN messages
      BY <2>1, <1>3 DEF OpenInv, UserSpeaks
  <2>2. CASE m = Len(messages) + 1
      BY <2>2, <1>2, <1>3 DEF ToSet
  <2> QED BY <2>1, <2>2, <1>3
<1>7. OneAnswer'
  <2> SUFFICES ASSUME NEW m \in DOMAIN messages', NEW n \in DOMAIN messages', Behind(m, n)',
                      NEW use \in ToSet(messages'[m].content),
                      NEW block \in ToSet(messages'[n].content),
                      use.type = "tool_use", block.type # "text"
               PROVE  block.call[1] = use.call[1]
      BY DEF OneAnswer
  <2>1. m \in DOMAIN messages /\ messages'[m] = messages[m]
      BY <1>2, <1>3 DEF Behind
  <2>2. CASE n \in DOMAIN messages
    <3>1. Behind(m, n)
        BY <2>1, <2>2, <1>1, <1>t, BehindKept
    <3> QED BY <3>1, <2>1, <2>2, <1>3 DEF OpenInv, OneAnswer
  <2>3. CASE n = Len(messages) + 1
    <3>1. block \in ToSet(content)
        BY <2>3, <1>2, <1>3
    <3>2. block.call \in Unanswered
        BY <3>1 DEF ToSet
    <3>3. PICK p \in Uses : Use(p).call = block.call /\ Behind(p[1], Len(messages))
        BY <3>2, OpenAtTheEnd DEF OpenInv
    <3>4. /\ p[1] \in DOMAIN messages /\ p[2] \in DOMAIN messages[p[1]].content
          /\ Use(p) = messages[p[1]].content[p[2]] /\ Use(p).type = "tool_use"
        BY UseTyped, <1>t DEF TypeOK
    <3>5. p[1] = m
      <4>1. messages[m].role = "assistant" /\ messages[p[1]].role = "assistant"
          BY <2>1, <3>3 DEF Behind
      <4>2. \A k \in (m + 1)..Len(messages) : messages[k].role # "assistant"
        <5> TAKE k \in (m + 1)..Len(messages)
        <5>1. k \in (m + 1)..n /\ k \in DOMAIN messages
            BY <2>1, <2>3, <1>3
        <5> QED BY <5>1, <1>3 DEF Behind
      <4>3. \A k \in (p[1] + 1)..Len(messages) : messages[k].role # "assistant"
          BY <3>3 DEF Behind
      <4> QED BY <4>1, <4>2, <4>3, <2>1, <3>4, <1>3
    <3>6. Behind(m, m)
        BY <2>1, <1>3 DEF Behind
    <3>7. Use(p) \in ToSet(messages[m].content) /\ use \in ToSet(messages[m].content)
        BY <2>1, <3>4, <3>5 DEF ToSet
    <3>8. Use(p).call[1] = use.call[1]
        BY <2>1, <3>4, <3>6, <3>7 DEF OpenInv, OneAnswer
    <3> QED BY <3>3, <3>8
  <2> QED BY <2>2, <2>3, <1>3
<1>8. OnlyLastOpen'
  <2> SUFFICES ASSUME NEW p \in Uses', Use(p)'.call \notin Answered'
               PROVE  Behind(p[1], Len(messages))'
      BY DEF OnlyLastOpen
  <2>1. p \in Uses /\ Use(p).call \notin Answered
      BY <1>4, <1>5
  <2>2. Behind(p[1], Len(messages)) /\ p[1] \in DOMAIN messages
      BY <2>1, UseTyped, <1>t DEF TypeOK, OpenInv, OnlyLastOpen
  <2> QED BY <2>2, <1>2, <1>3 DEF Behind
<1>9. ResultsLater'
  <2> SUFFICES ASSUME NEW p \in Uses', NEW n \in DOMAIN messages', messages'[n].role = "user",
                      NEW block \in ToSet(messages'[n].content), block.call = Use(p)'.call
               PROVE  p[1] < n
      BY DEF ResultsLater
  <2>1. p \in Uses /\ Use(p)' = Use(p) /\ p[1] \in DOMAIN messages
      BY <1>4, UseTyped, <1>t DEF TypeOK
  <2>2. CASE n \in DOMAIN messages
      BY <2>1, <2>2, <1>3 DEF OpenInv, ResultsLater
  <2>3. CASE n = Len(messages) + 1
      BY <2>1, <2>3, <1>3
  <2> QED BY <2>2, <2>3, <1>3
<1>10. NoneOpen'
    BY <1>1 DEF NoneOpen
<1> QED BY <1>6, <1>7, <1>8, <1>9, <1>10 DEF OpenInv

\* The caller takes an answer into its messages: all that came before is answered.
LEMMA OpenReceive ==
    ASSUME CallInv, OpenInv, pc # "caller", NEW new \in Seq(Blocks),
           \A i \in DOMAIN new : /\ new[i].type # "tool_result"
                                 /\ new[i].call = <<Len(said) + 1, i>>,
           messages' = Append(messages, [role |-> "assistant", content |-> new]),
           pc' = "caller"
    PROVE  OpenInv'
<1> DEFINE message == [role |-> "assistant", content |-> new]
<1>1. messages' = Append(messages, message) /\ pc' = "caller"
    OBVIOUS
<1>2. message.role = "assistant" /\ message.content = new
    OBVIOUS
<1>t. TypeOK /\ Len(said) \in Nat /\ DOMAIN said = 1..Len(said)
    BY DEF CallInv, TypeOK
<1> HIDE DEF message
<1>3. /\ Len(messages) \in Nat /\ DOMAIN messages = 1..Len(messages)
      /\ Len(messages') = Len(messages) + 1
      /\ DOMAIN messages' = 1..(Len(messages) + 1)
      /\ messages'[Len(messages) + 1] = message
      /\ \A m \in DOMAIN messages : messages'[m] = messages[m]
      /\ \A m \in DOMAIN messages' : m \in DOMAIN messages \/ m = Len(messages) + 1
    BY <1>1, <1>t, Appended
<1>4. ASSUME NEW p \in Uses'
      PROVE  \/ p \in Uses /\ Use(p)' = Use(p) /\ p[1] \in DOMAIN messages
             \/ /\ p[1] = Len(messages) + 1
                /\ Use(p)'.call = <<Len(said) + 1, p[2]>>
  <2>1. /\ p = <<p[1], p[2]>>
        /\ p[1] \in DOMAIN messages' /\ p[2] \in DOMAIN messages'[p[1]].content
        /\ messages'[p[1]].content[p[2]].type = "tool_use"
      BY DEF Uses
  <2>2. CASE p[1] = Len(messages) + 1
      BY <2>1, <2>2, <1>2, <1>3 DEF Use
  <2>3. CASE p[1] \in DOMAIN messages
      BY <2>1, <2>3, <1>3, UsesAre DEF Use
  <2> QED BY <2>1, <2>2, <2>3, <1>3
<1>5. \A call \in Answered : call \in Answered'
    BY <1>3, AnsweredAre DEF Answered
<1>6. \A p \in Uses : Use(p).call \in Answered
    BY DEF OpenInv, NoneOpen, Unanswered
<1>7. UserSpeaks'
  <2> SUFFICES ASSUME NEW m \in DOMAIN messages', messages'[m].role = "user",
                      NEW block \in ToSet(messages'[m].content)
               PROVE  block.type # "tool_use" /\ (block.type = "text" => block.call[1] = 0)
      BY DEF UserSpeaks
  <2>1. m \in DOMAIN messages
      BY <1>2, <1>3
  <2> QED BY <2>1, <1>3 DEF OpenInv, UserSpeaks
<1>8. OneAnswer'
  <2> SUFFICES ASSUME NEW m \in DOMAIN messages', NEW n \in DOMAIN messages', Behind(m, n)',
                      NEW use \in ToSet(messages'[m].content),
                      NEW block \in ToSet(messages'[n].content),
                      use.type = "tool_use", block.type # "text"
               PROVE  block.call[1] = use.call[1]
      BY DEF OneAnswer
  <2>1. CASE n \in DOMAIN messages
    <3>1. m \in DOMAIN messages
        BY <2>1, <1>3 DEF Behind
    <3>2. Behind(m, n)
        BY <2>1, <3>1, <1>1, <1>t, BehindKept
    <3> QED BY <3>1, <3>2, <2>1, <1>3 DEF OpenInv, OneAnswer
  <2>2. CASE n = Len(messages) + 1
    <3>1. m = Len(messages) + 1
      <4>1. n \notin (m + 1)..n
          BY <2>2, <1>2, <1>3 DEF Behind
      <4> QED BY <4>1, <2>2, <1>3
    <3>2. use \in ToSet(new) /\ block \in ToSet(new)
        BY <3>1, <2>2, <1>2, <1>3
    <3>3. use.call[1] = Len(said) + 1 /\ block.call[1] = Len(said) + 1
        BY <3>2 DEF ToSet
    <3> QED BY <3>3
  <2> QED BY <2>1, <2>2, <1>3
<1>9. OnlyLastOpen'
  <2> SUFFICES ASSUME NEW p \in Uses', Use(p)'.call \notin Answered'
               PROVE  Behind(p[1], Len(messages))'
      BY DEF OnlyLastOpen
  <2>1. p[1] = Len(messages) + 1
      BY <1>4, <1>5, <1>6
  <2> QED BY <2>1, <1>2, <1>3 DEF Behind
<1>10. ResultsLater'
  <2> SUFFICES ASSUME NEW p \in Uses', NEW n \in DOMAIN messages', messages'[n].role = "user",
                      NEW block \in ToSet(messages'[n].content), block.call = Use(p)'.call
               PROVE  p[1] < n
      BY DEF ResultsLater
  <2>1. n \in DOMAIN messages /\ messages'[n] = messages[n]
      BY <1>2, <1>3
  <2>2. block.call[1] # Len(said) + 1
    <3>1. PICK i \in DOMAIN messages[n].content : block = messages[n].content[i]
        BY <2>1 DEF ToSet
    <3>2. block \in Blocks
        BY <2>1, <3>1, <1>t, MessageTyped DEF TypeOK
    <3>3. block.type \in {"text", "tool_result"} /\ (block.type = "text" => block.call[1] = 0)
      <4>1. block.type \in {"text", "tool_use", "tool_result"}
          BY <3>2 DEF Blocks
      <4> QED BY <4>1, <2>1 DEF OpenInv, UserSpeaks
    <3>4. block.type = "tool_result" => block.call[1] \in DOMAIN said
        BY <2>1, <3>1 DEF CallInv, MessagesLinked, Linked, Placed
    <3> QED BY <3>3, <3>4, <1>t
  <2>3. p \in Uses /\ Use(p)' = Use(p)
      BY <2>2, <1>4
  <2> QED BY <2>1, <2>3 DEF OpenInv, ResultsLater
<1>11. NoneOpen'
    BY <1>1 DEF NoneOpen
<1> QED BY <1>7, <1>8, <1>9, <1>10, <1>11 DEF OpenInv

\* The caller forgets messages only when every call has its result, and of the calls
\* that are left the results are left as well.
LEMMA OpenForget ==
    ASSUME CallInv, OpenInv, NEW n \in 1..MaxMessages, Forget(n)
    PROVE  OpenInv'
<1>1. messages \in Seq(Messages) /\ Len(messages) \in Nat /\ TypeOK
    BY DEF CallInv, TypeOK, TranslationTypeOK
<1>2. /\ n \in Nat /\ n < Len(messages) /\ messages' = SubSeq(messages, n + 1, Len(messages))
      /\ Unanswered = {} /\ pc' = "caller"
    BY <1>1 DEF Forget, Ready
<1>3. /\ DOMAIN messages = 1..Len(messages)
      /\ DOMAIN messages' = 1..(Len(messages) - n)
      /\ \A m \in DOMAIN messages' : messages'[m] = messages[n + m] /\ n + m \in DOMAIN messages
    BY <1>1, <1>2
<1>4. ASSUME NEW p \in Uses'
      PROVE  <<n + p[1], p[2]>> \in Uses /\ Use(p)' = Use(<<n + p[1], p[2]>>)
             /\ p[1] \in DOMAIN messages'
  <2>1. /\ p[1] \in DOMAIN messages' /\ p[2] \in DOMAIN messages'[p[1]].content
        /\ messages'[p[1]].content[p[2]].type = "tool_use"
      BY DEF Uses
  <2>2. messages'[p[1]] = messages[n + p[1]] /\ n + p[1] \in DOMAIN messages
      BY <2>1, <1>3
  <2> DEFINE q == <<n + p[1], p[2]>>
  <2>3. q[1] = n + p[1] /\ q[2] = p[2] /\ q = <<q[1], q[2]>>
      OBVIOUS
  <2> HIDE DEF q
  <2>4. q \in Uses /\ Use(p)' = Use(q)
      BY <2>1, <2>2, <2>3, UsesAre DEF Use
  <2> QED BY <2>1, <2>4 DEF q
<1>5. ASSUME NEW p \in Uses' PROVE Use(p)'.call \in Answered'
  <2> DEFINE q == <<n + p[1], p[2]>>
  <2>1. q \in Uses /\ Use(p)' = Use(q) /\ q[1] = n + p[1] /\ p[1] \in DOMAIN messages'
      BY <1>4
  <2> HIDE DEF q
  <2>2. Use(q).call \in Answered
      BY <2>1, <1>2 DEF Unanswered
  <2>3. PICK m \in DOMAIN messages : /\ messages[m].role = "user"
                                     /\ \E i \in DOMAIN messages[m].content :
                                            messages[m].content[i].call = Use(q).call
      BY <2>2, AnsweredAre
  <2>i. PICK i \in DOMAIN messages[m].content : messages[m].content[i].call = Use(q).call
      BY <2>3
  <2>4. messages[m].content[i] \in ToSet(messages[m].content)
      BY DEF ToSet
  <2>5. q[1] < m
      BY <2>1, <2>3, <2>i, <2>4 DEF OpenInv, ResultsLater
  <2>6. m - n \in DOMAIN messages' /\ messages'[m - n] = messages[m]
    <3>1. m - n \in DOMAIN messages' /\ n + (m - n) = m
        BY <2>1, <2>5, <1>1, <1>2, <1>3
    <3> QED BY <3>1, <1>3
  <2> QED BY <2>1, <2>3, <2>i, <2>6 DEF Answered
<1>6. UserSpeaks'
    BY <1>3 DEF OpenInv, UserSpeaks
<1>7. OneAnswer'
  <2> SUFFICES ASSUME NEW m \in DOMAIN messages', NEW k \in DOMAIN messages', Behind(m, k)',
                      NEW use \in ToSet(messages'[m].content),
                      NEW block \in ToSet(messages'[k].content),
                      use.type = "tool_use", block.type # "text"
               PROVE  block.call[1] = use.call[1]
      BY DEF OneAnswer
  <2>1. /\ messages'[m] = messages[n + m] /\ n + m \in DOMAIN messages
        /\ messages'[k] = messages[n + k] /\ n + k \in DOMAIN messages
      BY <1>3
  <2>2. Behind(n + m, n + k)
    <3>1. messages[n + m].role = "assistant" /\ n + m <= n + k
        BY <2>1, <1>1, <1>2, <1>3 DEF Behind
    <3>2. ASSUME NEW j \in (n + m + 1)..(n + k) PROVE messages[j].role # "assistant"
      <4>1. j - n \in (m + 1)..k /\ j - n \in DOMAIN messages' /\ n + (j - n) = j
          BY <1>1, <1>2, <1>3
      <4>2. messages'[j - n].role # "assistant"
          BY <4>1 DEF Behind
      <4> QED BY <4>1, <4>2, <1>3
    <3> QED BY <3>1, <3>2 DEF Behind
  <2> QED BY <2>1, <2>2 DEF OpenInv, OneAnswer
<1>8. OnlyLastOpen'
    BY <1>5 DEF OnlyLastOpen
<1>9. ResultsLater'
  <2> SUFFICES ASSUME NEW p \in Uses', NEW k \in DOMAIN messages', messages'[k].role = "user",
                      NEW block \in ToSet(messages'[k].content), block.call = Use(p)'.call
               PROVE  p[1] < k
      BY DEF ResultsLater
  <2> DEFINE q == <<n + p[1], p[2]>>
  <2>1. q \in Uses /\ Use(p)' = Use(q) /\ q[1] = n + p[1] /\ p[1] \in DOMAIN messages'
      BY <1>4
  <2> HIDE DEF q
  <2>2. messages'[k] = messages[n + k] /\ n + k \in DOMAIN messages
      BY <1>3
  <2>3. q[1] < n + k
      BY <2>1, <2>2 DEF OpenInv, ResultsLater
  <2> QED BY <2>1, <2>3, <1>1, <1>2, <1>3
<1>10. NoneOpen'
    BY <1>2 DEF NoneOpen
<1> QED BY <1>6, <1>7, <1>8, <1>9, <1>10 DEF OpenInv

\* Nothing opens but by what is in the messages.
LEMMA OpenFrame ==
    ASSUME OpenInv, messages' = messages, pc' # "caller" => pc # "caller" \/ Unanswered = {}
    PROVE  OpenInv'
<1>1. /\ \A p : p \in Uses' <=> p \in Uses
      /\ \A p : Use(p)' = Use(p)
      /\ \A call : call \in Answered' <=> call \in Answered
      /\ \A m, n : Behind(m, n)' <=> Behind(m, n)
    BY DEF Uses, Use, Answered, Behind
<1>2. UserSpeaks' /\ OneAnswer' /\ ResultsLater'
    BY <1>1 DEF OpenInv, UserSpeaks, OneAnswer, ResultsLater
<1>3. OnlyLastOpen'
    BY <1>1 DEF OpenInv, OnlyLastOpen
<1>4. NoneOpen'
    BY <1>1 DEF OpenInv, NoneOpen, Unanswered
<1> QED BY <1>2, <1>3, <1>4 DEF OpenInv

-----------------------------------------------------------------------------
(***************************************************************************)
(* The turns of a request, for the wires that keep the ids.                *)
(***************************************************************************)
\* What the loop has put aside is in the message that it is at.
Aside == wire = "openai" =>
    \A block \in ToSet(parts) \cup ToSet(tool_calls) \cup ToSet(results) :
        /\ done + 1 \in DOMAIN messages
        /\ block \in ToSet(messages[done + 1].content)

\* How many of the messages the turns are made of.
Covered == IF wire = "anthropic" THEN Len(messages) ELSE done

\* Every turn is made of one message, in their order, and no answer is left out.
MadeOf(from) ==
    /\ \A s, t \in DOMAIN body : s < t => from[s] <= from[t]
    /\ \A t \in DOMAIN body :
          /\ body[t].role = "assistant" <=> messages[from[t]].role = "assistant"
          /\ ToSet(body[t].parts) \subseteq ToSet(messages[from[t]].content)
    /\ \A m \in 1..Covered : messages[m].role = "assistant" =>
          \E t \in DOMAIN body : from[t] = m

FromMessages == wire \in {"openai", "anthropic"} =>
    /\ Covered <= Len(messages)
    /\ \E from \in [DOMAIN body -> 1..Covered] : MadeOf(from)

BodyInv == Aside /\ FromMessages /\ (wire = "none" => pc = "caller")

\* A step that leaves the request alone.
LEMMA BodyFrame ==
    ASSUME BodyInv, UNCHANGED <<wire, messages, parts, tool_calls, results, done, body>>,
           wire = "none" => pc' = "caller"
    PROVE  BodyInv'
<1>1. \A from : MadeOf(from) => MadeOf(from)'
    BY DEF MadeOf, Covered
<1>2. Covered' = Covered
    BY DEF Covered
<1>3. FromMessages'
    BY <1>1, <1>2 DEF BodyInv, FromMessages
<1>4. Aside'
    BY DEF BodyInv, Aside
<1> QED BY <1>3, <1>4 DEF BodyInv

\* The request begins, for the Anthropic wire with all of its turns.
LEMMA BodyAsk ==
    ASSUME CallInv, BodyInv, NEW w \in {"openai", "anthropic", "gemini"}, Ask(w)
    PROVE  BodyInv'
<1>1. /\ wire' = w /\ done' = 0 /\ parts' = <<>> /\ tool_calls' = <<>> /\ results' = <<>>
      /\ messages' = messages
    BY DEF Ask, Build
<1>2. messages \in Seq(Messages) /\ Len(messages) \in Nat /\ DOMAIN messages = 1..Len(messages)
    BY DEF CallInv, TypeOK, TranslationTypeOK
<1>3. Aside'
    BY <1>1 DEF Aside, ToSet
<1>4. CASE w = "anthropic"
  <2>1. body' = [m \in DOMAIN messages |-> [role |-> messages[m].role,
                                            parts |-> messages[m].content]]
      BY <1>4 DEF Ask, Build
  <2>2. /\ DOMAIN body' = 1..Len(messages)
        /\ \A m \in 1..Len(messages) : /\ body'[m].role = messages[m].role
                                       /\ body'[m].parts = messages[m].content
      BY <2>1, <1>2
  <2>3. PICK from \in [1..Len(messages) -> 1..Len(messages)] :
            \A m \in 1..Len(messages) : from[m] = m
    <3> WITNESS [m \in 1..Len(messages) |-> m] \in [1..Len(messages) -> 1..Len(messages)]
    <3> QED OBVIOUS
  <2>4. Covered' = Len(messages)
      BY <1>1, <1>4 DEF Covered
  <2>5. MadeOf(from)'
      BY <1>1, <2>2, <2>3, <2>4 DEF MadeOf
  <2>6. from \in [DOMAIN body' -> 1..Covered'] /\ Covered' <= Len(messages')
      BY <1>1, <1>2, <2>2, <2>3, <2>4
  <2>7. FromMessages'
      BY <2>5, <2>6 DEF FromMessages
  <2> QED BY <2>7, <1>1, <1>3 DEF BodyInv
<1>5. CASE w = "openai"
  <2>1. body' = <<>> /\ Covered' = 0
      BY <1>1, <1>5 DEF Ask, Build, Covered
  <2> DEFINE from == [m \in {} |-> 0]
  <2>2. DOMAIN body' = {}
      BY <2>1
  <2>3. from \in [DOMAIN body' -> 1..Covered']
      BY <2>2
  <2> HIDE DEF from
  <2>4. MadeOf(from)' /\ Covered' <= Len(messages')
      BY <2>1, <2>2, <1>1, <1>2 DEF MadeOf
  <2>5. FromMessages'
      BY <2>3, <2>4 DEF FromMessages
  <2> QED BY <2>5, <1>1, <1>3, <1>5 DEF BodyInv
<1>6. CASE w = "gemini"
    BY <1>1, <1>3, <1>6 DEF BodyInv, FromMessages
<1> QED BY <1>4, <1>5, <1>6

\* What the loop puts aside.
LEMMA BodyTake ==
    ASSUME CallInv, BodyInv, pc' = pc, TakePart \/ TakeCall \/ TakeResult
    PROVE  BodyInv'
<1> DEFINE block == Content[at + 1]
<1>1. NextBlock
    BY DEF TakePart, TakeCall, TakeResult
<1>2. /\ done + 1 \in DOMAIN messages /\ block \in ToSet(messages[done + 1].content)
      /\ UNCHANGED <<wire, messages, body, done>>
  <2>1. /\ done + 1 \in DOMAIN messages /\ at + 1 \in DOMAIN messages[done + 1].content
        /\ Content = messages[done + 1].content
      BY <1>1, BlockTaken
  <2> QED BY <2>1, <1>1 DEF NextBlock, ToSet
<1>t. parts \in Seq(Blocks) /\ tool_calls \in Seq(Blocks) /\ results \in Seq(Blocks)
    BY DEF CallInv, TypeOK, TranslationTypeOK
<1>3. wire = "openai" => \/ parts' = Append(parts, block) /\ UNCHANGED <<tool_calls, results>>
                         \/ tool_calls' = Append(tool_calls, block) /\ UNCHANGED <<parts, results>>
                         \/ results' = Append(results, block) /\ UNCHANGED <<parts, tool_calls>>
    BY DEF TakePart, TakeCall, TakeResult
<1> HIDE DEF block
<1>4. \A seq \in Seq(Blocks) : ToSet(Append(seq, block)) \subseteq ToSet(seq) \cup {block}
    BY DEF ToSet
<1>5. Aside'
  <2> SUFFICES ASSUME wire = "openai",
                      NEW b \in ToSet(parts') \cup ToSet(tool_calls') \cup ToSet(results')
               PROVE  b \in ToSet(messages[done + 1].content)
      BY <1>2 DEF Aside
  <2>1. b \in ToSet(parts) \cup ToSet(tool_calls) \cup ToSet(results) \cup {block}
      BY <1>3, <1>4, <1>t
  <2> QED BY <2>1, <1>2 DEF BodyInv, Aside
<1>6. \A from : MadeOf(from) => MadeOf(from)'
    BY <1>2 DEF MadeOf, Covered
<1>7. Covered' = Covered
    BY <1>2 DEF Covered
<1>8. FromMessages'
    BY <1>2, <1>6, <1>7 DEF BodyInv, FromMessages
<1> QED BY <1>2, <1>5, <1>8 DEF BodyInv

\* Every turn that a message adds is made of it, and an answer adds one.
LEMMA OpenAIAdds ==
    ASSUME CallInv, BodyInv, to_openai_messages
    PROVE  \E added \in Seq(Turns) :
               /\ body' = body \o added
               /\ messages[done + 1].role = "assistant" => added # <<>>
               /\ \A k \in DOMAIN added :
                     /\ added[k].role = "assistant" <=> messages[done + 1].role = "assistant"
                     /\ ToSet(added[k].parts) \subseteq ToSet(messages[done + 1].content)
<1>1. /\ parts \in Seq(Blocks) /\ tool_calls \in Seq(Blocks)
      /\ results \in Seq(Blocks) /\ Len(results) \in Nat /\ DOMAIN results = 1..Len(results)
    BY DEF CallInv, TypeOK, TranslationTypeOK
<1> DEFINE all == ToSet(messages[done + 1].content)
<1>2. /\ ToSet(parts) \subseteq all /\ ToSet(tool_calls) \subseteq all
      /\ \A i \in DOMAIN results : results[i] \in all
    BY DEF to_openai_messages, BodyInv, Aside, ToSet
<1> HIDE DEF all
<1> DEFINE Good(turn) == /\ turn \in Turns
                         /\ turn.role = "assistant" <=> messages[done + 1].role = "assistant"
                         /\ ToSet(turn.parts) \subseteq all
           Goal(added) == /\ added \in Seq(Turns)
                          /\ body' = body \o added
                          /\ messages[done + 1].role = "assistant" => added # <<>>
                          /\ \A k \in DOMAIN added : Good(added[k])
<1>3. \A role \in {"user", "assistant", "tool"} : \A bs \in Seq(Blocks) :
          /\ Turn(role, bs) \in Turns
          /\ Turn(role, bs).role = role /\ Turn(role, bs).parts = bs
    BY DEF Turn, Turns
<1>4. CASE messages[done + 1].role = "assistant"
  <2> DEFINE turn == Turn("assistant", parts \o tool_calls)
  <2>1. body' = body \o <<turn>>
      BY <1>4 DEF to_openai_messages
  <2>2. parts \o tool_calls \in Seq(Blocks) /\ ToSet(parts \o tool_calls) \subseteq all
    <3>1. ToSet(parts \o tool_calls) \subseteq ToSet(parts) \cup ToSet(tool_calls)
        BY <1>1 DEF ToSet
    <3> QED BY <3>1, <1>1, <1>2
  <2>3. Good(turn)
      BY <2>2, <1>3, <1>4
  <2> HIDE DEF turn, Good
  <2>4. turn \in Turns
      BY <2>3 DEF Good
  <2>5. Goal(<<turn>>)
      BY <2>1, <2>3, <2>4
  <2> QED BY <2>5 DEF Good, all
<1>5. CASE messages[done + 1].role # "assistant"
  <2> DEFINE answers == [i \in DOMAIN results |-> Turn("tool", <<results[i]>>)]
             last == Turn("user", parts)
             rest == IF parts # <<>> \/ results = <<>> THEN <<last>> ELSE <<>>
  <2>1. body' = body \o (answers \o rest)
      BY <1>5 DEF to_openai_messages
  <2>2. DOMAIN answers = 1..Len(results) /\ \A i \in 1..Len(results) : Good(answers[i])
    <3>1. DOMAIN answers = 1..Len(results)
        BY <1>1
    <3>2. ASSUME NEW i \in 1..Len(results) PROVE Good(answers[i])
      <4> DEFINE one == <<results[i]>>
      <4>1. one \in Seq(Blocks) /\ ToSet(one) \subseteq all
          BY <1>1, <1>2 DEF ToSet
      <4>2. answers[i] = Turn("tool", one)
          BY <1>1
      <4> HIDE DEF one, answers
      <4>3. answers[i] \in Turns /\ answers[i].role = "tool" /\ answers[i].parts = one
          BY <4>1, <4>2, <1>3
      <4> QED BY <4>1, <4>3, <1>5
    <3> QED BY <3>1, <3>2
  <2>3. Good(last)
      BY <1>1, <1>2, <1>3, <1>5
  <2> HIDE DEF answers, last, Good
  <2>4. answers \in Seq(Turns)
    <3>1. answers \in [1..Len(results) -> Turns]
      <4>1. \A i \in 1..Len(results) : answers[i] \in Turns
          BY <2>2 DEF Good
      <4>2. answers = [i \in 1..Len(results) |-> answers[i]]
          BY <1>1 DEF answers
      <4> QED BY <4>1, <4>2
    <3> QED BY <3>1, <1>1
  <2>5. rest \in Seq(Turns) /\ \A k \in DOMAIN rest : Good(rest[k])
    <3>1. last \in Turns
        BY <2>3 DEF Good
    <3> QED BY <3>1, <2>3
  <2> HIDE DEF rest
  <2>6. answers \o rest \in Seq(Turns) /\ \A k \in DOMAIN (answers \o rest) : Good((answers \o rest)[k])
    <3>1. /\ DOMAIN (answers \o rest) = 1..(Len(answers) + Len(rest))
          /\ Len(answers) \in Nat /\ Len(rest) \in Nat
          /\ DOMAIN answers = 1..Len(answers) /\ DOMAIN rest = 1..Len(rest)
        BY <2>4, <2>5
    <3>2. ASSUME NEW k \in DOMAIN (answers \o rest) PROVE Good((answers \o rest)[k])
      <4>1. CASE k \in DOMAIN answers
        <5>1. (answers \o rest)[k] = answers[k]
            BY <4>1, <3>1, <2>4, <2>5
        <5> QED BY <5>1, <4>1, <2>2
      <4>2. CASE k \notin DOMAIN answers
        <5>1. (answers \o rest)[k] = rest[k - Len(answers)] /\ k - Len(answers) \in DOMAIN rest
            BY <4>2, <3>1, <2>4, <2>5
        <5> QED BY <5>1, <2>5
      <4> QED BY <4>1, <4>2
    <3> QED BY <3>2, <2>4, <2>5
  <2>7. Goal(answers \o rest)
      BY <2>1, <2>6, <1>5
  <2> QED BY <2>7 DEF Good, all
<1> QED BY <1>4, <1>5

\* A message becomes turns for OpenAI, behind those of the messages before it.
LEMMA BodyOpenAI ==
    ASSUME CallInv, BodyInv, pc' = pc, to_openai_messages
    PROVE  BodyInv'
<1>1. /\ wire = "openai" /\ wire' = wire /\ messages' = messages
      /\ done' = done + 1 /\ done < Len(messages)
      /\ parts' = <<>> /\ tool_calls' = <<>> /\ results' = <<>>
    BY DEF to_openai_messages, EndOfMessage
<1>t. /\ messages \in Seq(Messages) /\ Len(messages) \in Nat /\ done \in Nat
      /\ body \in Seq(Turns) /\ Len(body) \in Nat /\ DOMAIN body = 1..Len(body)
    BY DEF CallInv, TypeOK, TranslationTypeOK
<1>2. PICK added \in Seq(Turns) :
          /\ body' = body \o added
          /\ messages[done + 1].role = "assistant" => added # <<>>
          /\ \A k \in DOMAIN added :
                /\ added[k].role = "assistant" <=> messages[done + 1].role = "assistant"
                /\ ToSet(added[k].parts) \subseteq ToSet(messages[done + 1].content)
    BY OpenAIAdds
<1>3. PICK from \in [DOMAIN body -> 1..done] : MadeOf(from)
    BY <1>1 DEF BodyInv, FromMessages, Covered
<1>4. PICK longer : longer = [t \in DOMAIN body' |-> IF t \in DOMAIN body THEN from[t] ELSE done + 1]
    OBVIOUS
<1>5. /\ Len(added) \in Nat /\ DOMAIN added = 1..Len(added)
      /\ DOMAIN body' = 1..(Len(body) + Len(added))
      /\ \A t \in DOMAIN body : t \in DOMAIN body' /\ body'[t] = body[t]
    BY <1>2, <1>t
<1>6. ASSUME NEW t \in DOMAIN body', t \notin DOMAIN body
      PROVE  t - Len(body) \in DOMAIN added /\ body'[t] = added[t - Len(body)]
    BY <1>2, <1>5, <1>6, <1>t
<1>7. /\ \A t \in DOMAIN body : longer[t] = from[t] /\ longer[t] \in 1..done
      /\ \A t \in DOMAIN body' : t \notin DOMAIN body => longer[t] = done + 1
    BY <1>4, <1>5
<1>8. longer \in [DOMAIN body' -> 1..(done + 1)]
    BY <1>4, <1>7, <1>t
<1>9. Covered' = done + 1 /\ Covered' <= Len(messages')
    BY <1>1, <1>t DEF Covered
<1>c. Covered = done
    BY <1>1 DEF Covered
<1>10. MadeOf(longer)'
  <2>1. ASSUME NEW s \in DOMAIN body', NEW t \in DOMAIN body', s < t
        PROVE  longer[s] <= longer[t]
    <3>1. CASE t \in DOMAIN body
      <4>1. s \in DOMAIN body
          BY <2>1, <3>1, <1>5, <1>t
      <4> QED BY <2>1, <3>1, <4>1, <1>3, <1>7 DEF MadeOf
    <3>2. CASE t \notin DOMAIN body
      <4>1. longer[t] = done + 1 /\ longer[s] \in 1..(done + 1)
          BY <3>2, <1>7, <1>8
      <4> QED BY <4>1, <1>t
    <3> QED BY <3>1, <3>2
  <2>2. ASSUME NEW t \in DOMAIN body'
        PROVE  /\ body'[t].role = "assistant" <=> messages[longer[t]].role = "assistant"
               /\ ToSet(body'[t].parts) \subseteq ToSet(messages[longer[t]].content)
    <3>1. CASE t \in DOMAIN body
        BY <3>1, <1>3, <1>5, <1>7 DEF MadeOf
    <3>2. CASE t \notin DOMAIN body
        BY <3>2, <1>2, <1>6, <1>7
    <3> QED BY <3>1, <3>2
  <2>3. ASSUME NEW m \in 1..(done + 1), messages[m].role = "assistant"
        PROVE  \E t \in DOMAIN body' : longer[t] = m
    <3>1. CASE m \in 1..done
        BY <3>1, <2>3, <1>3, <1>5, <1>7, <1>c DEF MadeOf
    <3>2. CASE m = done + 1
      <4>1. Len(added) # 0
          BY <3>2, <2>3, <1>2, <1>5
      <4>2. Len(body) + 1 \in DOMAIN body' /\ Len(body) + 1 \notin DOMAIN body
          BY <4>1, <1>5, <1>t
      <4> QED BY <3>2, <4>2, <1>7
    <3> QED BY <3>1, <3>2, <1>t
  <2> QED BY <2>1, <2>2, <2>3, <1>1, <1>9 DEF MadeOf
<1>11. FromMessages'
    BY <1>8, <1>9, <1>10 DEF FromMessages
<1>12. Aside'
    BY <1>1 DEF Aside, ToSet
<1> QED BY <1>1, <1>11, <1>12 DEF BodyInv

\* A step of either loop.
LEMMA BodyTranslating ==
    ASSUME CallInv, BodyInv, Translating
    PROVE  BodyInv'
<1>1. Translate /\ pc' = pc /\ pc = "request" /\ wire # "none"
    BY DEF Translating, BodyInv
<1>2. CASE TakePart \/ TakeCall \/ TakeResult
    BY <1>1, <1>2, BodyTake
<1>3. CASE to_contents
  <2>1. /\ wire' = "gemini" /\ parts' = <<>> /\ tool_calls' = <<>> /\ results' = <<>>
      BY <1>3 DEF to_contents, EndOfMessage
  <2> QED BY <2>1 DEF BodyInv, Aside, FromMessages
<1>4. CASE to_openai_messages
    BY <1>1, <1>4, BodyOpenAI
<1>5. CASE EndOfMessages
  <2>1. UNCHANGED <<wire, messages, parts, tool_calls, results, done, body>>
      BY <1>5 DEF EndOfMessages
  <2> QED BY <2>1, <1>1, BodyFrame
<1> QED BY <1>1, <1>2, <1>3, <1>4, <1>5 DEF Translate

-----------------------------------------------------------------------------
(***************************************************************************)
(* PairedById.                                                             *)
(***************************************************************************)
PairInv == SaidDistinct /\ Numbered /\ OpenInv /\ BodyInv

\* Before the first message.
LEMMA PairInit == Init => PairInv
<1> SUFFICES ASSUME Init PROVE PairInv OBVIOUS
<1>1. /\ wire = "none" /\ messages = <<>> /\ pc = "caller" /\ said = <<>>
      /\ parts = <<>> /\ tool_calls = <<>> /\ results = <<>> /\ blocks = <<>>
    BY DEF Init, Idle, Stream!Init
<1>2. SaidDistinct /\ Numbered
    BY <1>1 DEF SaidDistinct, Numbered
<1>3. DOMAIN messages = {} /\ Uses = {}
    BY <1>1 DEF Uses
<1>4. OpenInv
    BY <1>1, <1>3 DEF OpenInv, UserSpeaks, OneAnswer, OnlyLastOpen, ResultsLater, NoneOpen
<1>5. BodyInv
    BY <1>1 DEF BodyInv, Aside, FromMessages
<1> QED BY <1>2, <1>4, <1>5 DEF PairInv

\* Between requests the caller's steps touch the messages only.
LEMMA CallerBody ==
    ASSUME CallInv, BodyInv, pc = "caller", UNCHANGED <<wire, loop, pc, said, stream>>
    PROVE  BodyInv' /\ SaidDistinct' = SaidDistinct /\ Numbered' = Numbered
<1>1. wire' = "none" /\ pc' = "caller"
    BY DEF CallInv, AtRest
<1>2. BodyInv'
    BY <1>1 DEF BodyInv, Aside, FromMessages
<1>3. SaidDistinct' = SaidDistinct /\ Numbered' = Numbered
    BY DEF SaidDistinct, DistinctIds, Numbered, stream
<1> QED BY <1>2, <1>3

\* After a call there is nothing of it.
LEMMA DoneBody ==
    ASSUME Done
    PROVE  BodyInv' /\ Numbered'
<1>1. wire' = "none" /\ pc' = "caller" /\ answer' = None
    BY DEF Done, Goto, Stream!New
<1> QED BY <1>1 DEF BodyInv, Aside, FromMessages, Numbered

\* The caller takes an answer whose calls have different ids.
LEMMA PairReceive ==
    ASSUME CallInv, PairInv, pc # "caller", NEW content \in Seq(Stream!ContentBlocks),
           IsNamed(content), DistinctIds(content), Receive(content)
    PROVE  PairInv'
<1> DEFINE new == Received(content)
<1>1. /\ new \in Seq(Blocks) /\ DOMAIN new = DOMAIN content
      /\ \A i \in DOMAIN new : /\ new[i].type # "tool_result"
                               /\ new[i].call = <<Len(said) + 1, i>>
    BY ReceivedTyped
<1>2. DistinctIds(new)
    BY ReceivedDistinct
<1>3. /\ said' = Append(said, new)
      /\ messages' = Append(messages, [role |-> "assistant", content |-> new])
      /\ Done /\ pc' = "caller"
    BY DEF Receive, Done, Goto
<1> HIDE DEF new
<1>4. OpenInv'
    BY <1>1, <1>3, OpenReceive DEF PairInv
<1>5. SaidDistinct'
  <2>1. /\ DOMAIN said' = 1..(Len(said) + 1) /\ Len(said) \in Nat /\ DOMAIN said = 1..Len(said)
        /\ said'[Len(said) + 1] = new /\ \A s \in DOMAIN said : said'[s] = said[s]
      BY <1>3 DEF CallInv, TypeOK
  <2>2. \A s \in DOMAIN said' : s \in DOMAIN said \/ s = Len(said) + 1
      BY <2>1
  <2>3. \A s \in DOMAIN said : DistinctIds(said[s])
      BY DEF PairInv, SaidDistinct
  <2>4. \A s \in DOMAIN said' : DistinctIds(said'[s])
      BY <2>1, <2>2, <2>3, <1>2
  <2> QED BY <2>4 DEF SaidDistinct, DistinctIds
<1> QED BY <1>3, <1>4, <1>5, DoneBody DEF PairInv

\* Every step keeps the invariant.
LEMMA PairStep ==
    ASSUME CallInv, PairInv, [Next]_vars
    PROVE  PairInv'
<1>t. TypeOK
    BY DEF CallInv
<1>1. CASE UNCHANGED vars
  <2>1. UNCHANGED <<wire, messages, pc, said, parts, tool_calls, results, done, body,
                    answer, taken, blocks>>
      BY <1>1 DEF vars, loop, stream
  <2>2. OpenInv' /\ BodyInv'
      BY <2>1, OpenFrame, BodyFrame DEF PairInv, BodyInv
  <2> QED BY <2>1, <2>2 DEF PairInv, SaidDistinct, Numbered
<1>2. CASE Say
  <2> DEFINE content == <<Text>>
  <2>1. content \in Seq(Blocks) /\ \A i \in DOMAIN content : content[i] = Text
      BY TextTyped
  <2>2. Says(content) /\ Text.type = "text" /\ Text.call[1] = 0
      BY <1>2 DEF Say, Text
  <2>3. OpenInv'
      BY <2>1, <2>2, OpenSays DEF PairInv
  <2>4. pc = "caller" /\ UNCHANGED <<wire, loop, pc, said, stream>>
      BY <2>2 DEF Says
  <2> QED BY <2>3, <2>4, CallerBody DEF PairInv
<1>3. CASE Reply
  <2>1. PICK n \in 1..Len(said[Len(said)]) : \E order \in [1..n -> Unanswered] :
            LET content == [i \in 1..n |-> ResultOf(order[i])]
            IN  Says(content) \/ Says(<<Text>> \o content)
      BY <1>3 DEF Reply
  <2>2. PICK order \in [1..n -> Unanswered] :
            LET content == [i \in 1..n |-> ResultOf(order[i])]
            IN  Says(content) \/ Says(<<Text>> \o content)
      BY <2>1
  <2> DEFINE content == [i \in 1..n |-> ResultOf(order[i])]
             Fit(block) == \/ block.type = "text" /\ block.call[1] = 0
                           \/ block.type = "tool_result" /\ block.call \in Unanswered
  <2>3. Says(content) \/ Says(<<Text>> \o content)
      BY <2>2
  <2>4. \A i \in 1..n : content[i] \in Blocks /\ Fit(content[i])
    <3> TAKE i \in 1..n
    <3>1. content[i] = ResultOf(order[i]) /\ order[i] \in Unanswered
        OBVIOUS
    <3> QED BY <3>1, ResultTyped DEF ResultOf
  <2>5. content \in Seq(Blocks) /\ Len(content) = n /\ n \in Nat
      BY <2>4
  <2> HIDE DEF content
  <2>6. Text \in Blocks /\ Fit(Text)
      BY TextTyped DEF Text
  <2> HIDE DEF Fit
  <2>7. <<Text>> \o content \in Seq(Blocks)
      BY <2>5, <2>6
  <2>8. ASSUME NEW i \in DOMAIN (<<Text>> \o content) PROVE Fit((<<Text>> \o content)[i])
    <3>1. DOMAIN (<<Text>> \o content) = 1..(1 + n)
        BY <2>5, <2>6
    <3>2. CASE i = 1
        BY <3>2, <2>5, <2>6
    <3>3. CASE i \in 2..(1 + n)
      <4>1. (<<Text>> \o content)[i] = content[i - 1] /\ i - 1 \in 1..n
          BY <3>3, <2>5, <2>6
      <4> QED BY <4>1, <2>4
    <3> QED BY <3>1, <3>2, <3>3, <2>5
  <2>9. \A i \in DOMAIN content : Fit(content[i])
      BY <2>4, <2>5
  <2>10. PICK words \in Seq(Blocks) : Says(words) /\ \A i \in DOMAIN words : Fit(words[i])
      BY <2>3, <2>5, <2>7, <2>8, <2>9
  <2>11. OpenInv'
      BY <2>10, OpenSays DEF PairInv, Fit
  <2>12. pc = "caller" /\ UNCHANGED <<wire, loop, pc, said, stream>>
      BY <2>10 DEF Says
  <2> QED BY <2>11, <2>12, CallerBody DEF PairInv
<1>4. ASSUME NEW w \in {"openai", "anthropic", "gemini"}, Ask(w) PROVE PairInv'
  <2>1. BodyInv'
      BY <1>4, BodyAsk DEF PairInv
  <2>2. messages' = messages /\ Unanswered = {} /\ UNCHANGED <<said, stream>>
      BY <1>4 DEF Ask, Ready
  <2>3. OpenInv'
      BY <2>2, OpenFrame DEF PairInv
  <2> QED BY <2>1, <2>2, <2>3 DEF PairInv, SaidDistinct, Numbered, stream
<1>5. ASSUME NEW n \in 1..MaxMessages, Forget(n) PROVE PairInv'
  <2>1. OpenInv'
      BY <1>5, OpenForget DEF PairInv
  <2>2. pc = "caller" /\ UNCHANGED <<wire, loop, pc, said, stream>>
      BY <1>5 DEF Forget, Ready
  <2> QED BY <2>1, <2>2, CallerBody DEF PairInv
<1>6. CASE Translating
  <2>1. BodyInv'
      BY <1>6, BodyTranslating DEF PairInv
  <2>2. messages' = messages /\ pc' = pc /\ UNCHANGED <<said, stream>>
      BY <1>6 DEF Translating, Translate, TakePart, TakeCall, TakeResult, NextBlock,
                  to_contents, to_openai_messages, EndOfMessage, EndOfMessages
  <2>3. OpenInv'
      BY <2>2, OpenFrame DEF PairInv
  <2> QED BY <2>1, <2>2, <2>3 DEF PairInv, SaidDistinct, Numbered, stream
<1>7. ASSUME NEW a \in Answers, Respond(a) PROVE PairInv'
  <2>1. /\ pc = "request" /\ UNCHANGED <<wire, messages, loop, said>>
        /\ blocks' = <<>>
      BY <1>7 DEF Respond, Stream!New
  <2>2. OpenInv'
      BY <2>1, OpenFrame DEF PairInv
  <2>3. BodyInv'
      BY <2>1, BodyFrame DEF PairInv, BodyInv, loop
  <2>4. SaidDistinct' /\ Numbered'
      BY <2>1 DEF PairInv, SaidDistinct, Numbered
  <2> QED BY <2>2, <2>3, <2>4 DEF PairInv
<1>8. CASE Parsing \/ Streaming
  <2>1. /\ pc \in {"complete", "stream"} /\ Stream!Next
        /\ UNCHANGED <<wire, messages, loop, pc, said>>
      BY <1>8 DEF Parsing, Streaming, Stream!Next
  <2>2. answer \in Answers
      BY <2>1 DEF CallInv, AtRest, TypeOK, Stream!TypeOK
  <2>3. Numbered'
      BY <2>1, <2>2, <1>t, NumberedStep DEF TypeOK, PairInv
  <2>4. OpenInv'
      BY <2>1, OpenFrame DEF PairInv
  <2>5. BodyInv'
      BY <2>1, BodyFrame DEF PairInv, BodyInv, loop
  <2> QED BY <2>1, <2>3, <2>4, <2>5 DEF PairInv, SaidDistinct
<1>9. CASE Complete
  <2>1. Receive(blocks) /\ pc = "complete"
      BY <1>9 DEF Complete, Stream!complete
  <2>2. blocks \in Seq(Stream!ContentBlocks) /\ IsNamed(blocks) /\ answer # None
      BY <2>1 DEF CallInv, TypeOK, Stream!TypeOK, BlocksNamed, IsNamed, AtRest
  <2>3. DistinctIds(blocks)
      BY <2>2 DEF PairInv, Numbered, DistinctIds
  <2> QED BY <2>1, <2>2, <2>3, PairReceive
<1>10. CASE FinalMessage
  <2>1. Receive(Stream!get_final_message.content) /\ pc = "stream"
      BY <1>10 DEF FinalMessage
  <2>2. answer \in Answers
      BY <2>1 DEF CallInv, AtRest, TypeOK, Stream!TypeOK
  <2> QED BY <2>1, <2>2, FinalTyped, FinalDistinct, PairReceive
<1>11. CASE Fail
  <2>1. Done /\ messages' = messages /\ said' = said /\ pc' = "caller"
      BY <1>11 DEF Fail, Done, Goto
  <2>2. OpenInv'
      BY <2>1, OpenFrame DEF PairInv
  <2>3. BodyInv' /\ Numbered'
      BY <2>1, DoneBody
  <2> QED BY <2>1, <2>2, <2>3 DEF PairInv, SaidDistinct
<1> QED BY <1>1, <1>2, <1>3, <1>4, <1>5, <1>6, <1>7, <1>8, <1>9, <1>10, <1>11 DEF Next

\* The turns between two turns are of the messages between theirs.
LEMMA TurnsBehind ==
    ASSUME CallInv, NEW from \in [DOMAIN body -> 1..Covered], MadeOf(from),
           Covered <= Len(messages),
           NEW s \in DOMAIN body, NEW t \in DOMAIN body, s < t, body[s].role = "assistant",
           \A between \in (s + 1)..t : body[between].role # "assistant"
    PROVE  /\ from[s] \in DOMAIN messages /\ from[t] \in DOMAIN messages
           /\ Behind(from[s], from[t])
<1>t. /\ Len(messages) \in Nat /\ DOMAIN messages = 1..Len(messages) /\ Covered \in Nat
      /\ Len(body) \in Nat /\ DOMAIN body = 1..Len(body)
    BY DEF CallInv, TypeOK, TranslationTypeOK, Covered
<1>1. from[s] \in DOMAIN messages /\ from[t] \in DOMAIN messages /\ from[s] <= from[t]
    BY <1>t DEF MadeOf
<1>2. messages[from[s]].role = "assistant"
    BY DEF MadeOf
<1>3. ASSUME NEW k \in (from[s] + 1)..from[t], messages[k].role = "assistant" PROVE FALSE
  <2>1. k \in 1..Covered /\ from[s] < k /\ k <= from[t]
      BY <1>t
  <2>2. PICK u \in DOMAIN body : from[u] = k
      BY <2>1, <1>3 DEF MadeOf
  <2>3. body[u].role = "assistant"
      BY <2>2, <1>3 DEF MadeOf
  <2>4. s < u
    <3>1. u < s => from[u] <= from[s]
        BY DEF MadeOf
    <3> QED BY <3>1, <2>1, <2>2, <1>t
  <2>5. t < u
      BY <2>3, <2>4, <1>t
  <2>6. from[t] = k
    <3>1. from[t] <= from[u]
        BY <2>5 DEF MadeOf
    <3> QED BY <3>1, <2>1, <2>2, <1>t
  <2>7. body[t].role = "assistant"
      BY <2>6, <1>3 DEF MadeOf
  <2>8. t \in (s + 1)..t
      BY <1>t
  <2> QED BY <2>7, <2>8
<1> QED BY <1>1, <1>2, <1>3 DEF Behind

\* The invariant pairs results with calls.
LEMMA Paired == CallInv /\ PairInv => PairedById
<1> SUFFICES ASSUME CallInv, PairInv, pc = "request", wire # "gemini",
                    NEW s \in DOMAIN body, NEW t \in DOMAIN body,
                    s < t, body[s].role = "assistant",
                    \A between \in (s + 1)..t : body[between].role # "assistant",
                    NEW use \in ToSet(body[s].parts), NEW result \in ToSet(body[t].parts),
                    use.type = "tool_use", result.type = "tool_result"
             PROVE  use.id = result.id <=> use.call = result.call
    BY DEF PairedById
<1>1. wire \in {"openai", "anthropic"}
    BY DEF CallInv, TypeOK, TranslationTypeOK, PairInv, BodyInv
<1>2. PICK from \in [DOMAIN body -> 1..Covered] : MadeOf(from) /\ Covered <= Len(messages)
    BY <1>1 DEF PairInv, BodyInv, FromMessages
<1> DEFINE m == from[s]
           n == from[t]
<1>3. m \in DOMAIN messages /\ n \in DOMAIN messages /\ Behind(m, n)
    BY <1>2, TurnsBehind
<1>4. use \in ToSet(messages[m].content) /\ result \in ToSet(messages[n].content)
    BY <1>2 DEF MadeOf
<1> HIDE DEF m, n
<1>5. result.call[1] = use.call[1]
    BY <1>3, <1>4 DEF PairInv, OpenInv, OneAnswer
<1>6. use \in Blocks /\ Linked(use) /\ result \in Blocks /\ Linked(result)
  <2>1. PICK i \in DOMAIN messages[m].content : use = messages[m].content[i]
      BY <1>4 DEF ToSet
  <2>2. PICK j \in DOMAIN messages[n].content : result = messages[n].content[j]
      BY <1>4 DEF ToSet
  <2> QED BY <2>1, <2>2, <1>3, MessageTyped DEF CallInv, TypeOK, MessagesLinked
<1>7. /\ Placed(use.call) /\ use = Said(use.call)
      /\ Placed(result.call) /\ Said(result.call).type = "tool_use"
      /\ result.id = Said(result.call).id
    BY <1>6 DEF Linked
<1>8. use.call \in Nat \X Nat /\ result.call \in Nat \X Nat
    BY <1>6 DEF Blocks
<1>9. ASSUME use.id = result.id PROVE use.call = result.call
  <2>1. DistinctIds(said[use.call[1]])
      BY <1>7 DEF PairInv, SaidDistinct, Placed
  <2>2. use.call[2] = result.call[2]
      BY <2>1, <1>5, <1>7, <1>9 DEF DistinctIds, Placed, Said
  <2> QED BY <2>2, <1>5, <1>8
<1>10. ASSUME use.call = result.call PROVE use.id = result.id
    BY <1>7, <1>10
<1> QED BY <1>9, <1>10

\* However long the conversation, whichever wires answered in it, however its ids
\* recur and whatever the caller has forgotten: on the wires that pair results with
\* calls by id, a result pairs with the call that it answers and with no other.
THEOREM ResultsPaired == Spec => []PairedById
<1> QED BY PairInit, PairStep, Paired, Calls, PTL DEF Spec
=============================================================================
