-------------------- MODULE ConversationRenderingProofs --------------------
(***************************************************************************)
(* AnsweredAtOnce and NothingLost of Conversation, for any tools, any      *)
(* answers of any length, and conversations of any length on the wires     *)
(* that rewrite the messages.                                              *)
(*                                                                         *)
(* In the messages, all that stands behind a call and is no result of the  *)
(* same answer stands behind the call's result (AnsweredFirst).  Of the    *)
(* message a loop is in, the lists set aside hold the blocks of their      *)
(* kinds, in their order (AsideInv); of the messages it has dealt with,    *)
(* the turns render every block once, message by message (RenderInv).      *)
(***************************************************************************)
EXTENDS ConversationProofs, FiniteSetTheorems

(***************************************************************************)
(* Where the results stand.                                                *)
(***************************************************************************)
LEMMA PlacesAre ==
    ASSUME NEW lists
    PROVE  \A p : p \in Places(lists) <=> /\ p = <<p[1], p[2]>>
                                          /\ p[1] \in DOMAIN lists /\ p[2] \in DOMAIN lists[p[1]]
BY DEF Places

\* The places of the messages.
LEMMA ContentsAre ==
    /\ DOMAIN Contents = DOMAIN messages
    /\ \A m \in DOMAIN messages : Contents[m] = messages[m].content
    /\ \A p : p \in Places(Contents) <=> /\ p = <<p[1], p[2]>> /\ p[1] \in DOMAIN messages
                                         /\ p[2] \in DOMAIN messages[p[1]].content
    /\ \A p \in Places(Contents) : BlockAt(Contents, p) = messages[p[1]].content[p[2]]
<1>1. DOMAIN Contents = DOMAIN messages /\ \A m \in DOMAIN messages : Contents[m] = messages[m].content
    BY DEF Contents
<1>2. \A p : p \in Places(Contents) <=> /\ p = <<p[1], p[2]>> /\ p[1] \in DOMAIN Contents
                                        /\ p[2] \in DOMAIN Contents[p[1]]
    BY PlacesAre
<1>3. \A p : p \in Places(Contents) <=> /\ p = <<p[1], p[2]>> /\ p[1] \in DOMAIN messages
                                        /\ p[2] \in DOMAIN messages[p[1]].content
    BY <1>1, <1>2
<1> QED BY <1>1, <1>3 DEF BlockAt

ResultPlaces == OfType(Contents, "tool_result")
CallAt(p) == BlockAt(Contents, p).call

\* No call has two results.
ResultsOnce == \A p, q \in ResultPlaces : CallAt(p) = CallAt(q) => p = q

\* The messages of the model are its answers as they came.
WholeAnswers == \A m \in DOMAIN messages : messages[m].role = "assistant" =>
                    \E s \in DOMAIN said : messages[m].content = said[s]

\* Of what stands behind a call, all but the results of the same answer's calls comes
\* after its result; text may stand in front of it in the same message.
AnsweredFirst ==
    \A p \in Uses, q \in Places(Contents) :
        /\ p[1] < q[1]
        /\ ~(q \in ResultPlaces /\ CallAt(q)[1] = Use(p).call[1])
        => \E r \in ResultPlaces : /\ CallAt(r) = Use(p).call /\ p[1] < r[1]
                                   /\ r[1] < q[1] \/ (r[1] = q[1] /\ q \in OfType(Contents, "text"))

AtOnceInv == ResultsOnce /\ WholeAnswers /\ AnsweredFirst

\* A block of the messages, by its place.
LEMMA PlaceTyped ==
    ASSUME TypeOK, NEW p \in Places(Contents)
    PROVE  /\ p = <<p[1], p[2]>> /\ p[1] \in DOMAIN messages /\ p[2] \in DOMAIN messages[p[1]].content
           /\ p[1] \in Nat /\ p[2] \in Nat /\ p \in Nat \X Nat
           /\ BlockAt(Contents, p) = messages[p[1]].content[p[2]]
           /\ BlockAt(Contents, p) \in ToSet(messages[p[1]].content)
           /\ BlockAt(Contents, p) \in Blocks
           /\ messages[p[1]].role \in {"user", "assistant"}
<1>1. /\ p = <<p[1], p[2]>> /\ p[1] \in DOMAIN messages /\ p[2] \in DOMAIN messages[p[1]].content
      /\ BlockAt(Contents, p) = messages[p[1]].content[p[2]]
    BY ContentsAre
<1>2. /\ messages[p[1]] \in Messages /\ messages[p[1]].content[p[2]] \in Blocks
      /\ DOMAIN messages[p[1]].content = 1..Len(messages[p[1]].content)
    BY <1>1, MessageTyped DEF TypeOK
<1>3. messages \in Seq(Messages) /\ DOMAIN messages = 1..Len(messages)
    BY DEF TypeOK, TranslationTypeOK
<1>4. p[1] \in Nat /\ p[2] \in Nat
    BY <1>1, <1>2, <1>3
<1>5. p \in Nat \X Nat
    BY <1>1, <1>4
<1> QED BY <1>1, <1>2, <1>4, <1>5 DEF ToSet, Messages

\* Who says what: calls stand in answers, results in messages of the user.
LEMMA WhoSays ==
    ASSUME CallInv, OpenInv, WholeAnswers, NEW p \in Places(Contents)
    PROVE  /\ BlockAt(Contents, p).type \in {"text", "tool_use", "tool_result"}
           /\ BlockAt(Contents, p).type = "tool_use" => messages[p[1]].role = "assistant"
           /\ BlockAt(Contents, p).type = "tool_result" => messages[p[1]].role = "user"
           /\ Linked(BlockAt(Contents, p))
<1>t. /\ p[1] \in DOMAIN messages /\ p[2] \in DOMAIN messages[p[1]].content
      /\ BlockAt(Contents, p) = messages[p[1]].content[p[2]]
      /\ BlockAt(Contents, p) \in ToSet(messages[p[1]].content)
      /\ BlockAt(Contents, p) \in Blocks
      /\ messages[p[1]].role \in {"user", "assistant"}
    BY PlaceTyped DEF CallInv
<1>1. BlockAt(Contents, p).type \in {"text", "tool_use", "tool_result"}
    BY <1>t DEF Blocks
<1>2. messages[p[1]].role = "user" => BlockAt(Contents, p).type # "tool_use"
    BY <1>t DEF OpenInv, UserSpeaks
<1>3. ASSUME messages[p[1]].role = "assistant" PROVE BlockAt(Contents, p).type # "tool_result"
  <2>1. PICK s \in DOMAIN said : messages[p[1]].content = said[s]
      BY <1>t, <1>3 DEF WholeAnswers
  <2> QED BY <1>t, <2>1 DEF CallInv, SaidLinked
<1>4. Linked(BlockAt(Contents, p))
    BY <1>t DEF CallInv, MessagesLinked
<1> QED BY <1>t, <1>1, <1>2, <1>3, <1>4

\* A use is a place.
LEMMA UsePlace ==
    ASSUME TypeOK, NEW p \in Uses
    PROVE  /\ p \in OfType(Contents, "tool_use") /\ p \in Places(Contents)
           /\ BlockAt(Contents, p) = Use(p) /\ p[1] \in DOMAIN messages /\ p[1] \in Nat
<1>1. /\ p = <<p[1], p[2]>> /\ p[1] \in DOMAIN messages /\ p[2] \in DOMAIN messages[p[1]].content
      /\ messages[p[1]].content[p[2]].type = "tool_use"
    BY UsesAre
<1>2. p \in Places(Contents) /\ BlockAt(Contents, p) = Use(p)
    BY <1>1, ContentsAre DEF Use
<1>3. p \in OfType(Contents, "tool_use")
    BY <1>1, <1>2 DEF OfType, Use
<1> QED BY <1>1, <1>2, <1>3, PlaceTyped

\* The result of an answered call stands behind it.
LEMMA AnsweredBy ==
    ASSUME CallInv, OpenInv, NEW p \in Uses, Use(p).call \in Answered
    PROVE  \E r \in ResultPlaces : CallAt(r) = Use(p).call /\ p[1] < r[1]
<1>1. PICK m \in DOMAIN messages : /\ messages[m].role = "user"
                                   /\ \E i \in DOMAIN messages[m].content :
                                          messages[m].content[i].call = Use(p).call
    BY AnsweredAre
<1>2. PICK i \in DOMAIN messages[m].content : messages[m].content[i].call = Use(p).call
    BY <1>1
<1> DEFINE r == <<m, i>>
<1>3. r[1] = m /\ r[2] = i /\ r = <<r[1], r[2]>>
    OBVIOUS
<1> HIDE DEF r
<1>4. r \in Places(Contents) /\ BlockAt(Contents, r) = messages[m].content[i]
    BY <1>3, ContentsAre
<1>5. /\ messages[m].content[i] \in ToSet(messages[m].content)
      /\ messages[m].content[i] \in Blocks
    BY <1>3, <1>4, PlaceTyped DEF CallInv
<1>6. p[1] < m
    BY <1>1, <1>2, <1>5 DEF OpenInv, ResultsLater
<1>7. Linked(Use(p)) /\ Use(p).type = "tool_use"
  <2>1. /\ p[1] \in DOMAIN messages /\ p[2] \in DOMAIN messages[p[1]].content
        /\ Use(p) = messages[p[1]].content[p[2]] /\ Use(p).type = "tool_use"
      BY UseTyped DEF CallInv, TypeOK
  <2> QED BY <2>1 DEF CallInv, MessagesLinked
<1>8. Use(p).call[1] # 0
  <2>1. said \in Seq(Seq(Blocks))
      BY DEF CallInv, TypeOK
  <2> QED BY <1>7, <2>1 DEF Linked, Placed
<1>9. messages[m].content[i].type = "tool_result"
    BY <1>1, <1>2, <1>5, <1>8 DEF OpenInv, UserSpeaks, Blocks
<1>10. r \in ResultPlaces /\ CallAt(r) = Use(p).call
    BY <1>2, <1>4, <1>9 DEF ResultPlaces, OfType, CallAt
<1> QED BY <1>3, <1>6, <1>10

\* The calls without results are of one answer.
LEMMA OpenOfOne ==
    ASSUME CallInv, OpenInv, NEW call \in Unanswered, NEW other \in Unanswered
    PROVE  call[1] = other[1]
<1>1. PICK p \in Uses : Use(p).call = call /\ Behind(p[1], Len(messages))
    BY OpenAtTheEnd DEF OpenInv
<1>2. PICK q \in Uses : Use(q).call = other /\ Behind(q[1], Len(messages))
    BY OpenAtTheEnd DEF OpenInv
<1>3. /\ p[1] \in DOMAIN messages /\ p[2] \in DOMAIN messages[p[1]].content
      /\ Use(p) = messages[p[1]].content[p[2]] /\ Use(p).type = "tool_use"
    BY UseTyped DEF CallInv, TypeOK
<1>4. /\ q[1] \in DOMAIN messages /\ q[2] \in DOMAIN messages[q[1]].content
      /\ Use(q) = messages[q[1]].content[q[2]] /\ Use(q).type = "tool_use"
    BY UseTyped DEF CallInv, TypeOK
<1>5. Len(messages) \in Nat /\ DOMAIN messages = 1..Len(messages)
    BY DEF CallInv, TypeOK, TranslationTypeOK
<1>6. p[1] = q[1]
  <2> DEFINE m == p[1]
             n == q[1]
  <2>a. /\ messages[m].role = "assistant" /\ messages[n].role = "assistant"
        /\ \A k \in (m + 1)..Len(messages) : messages[k].role # "assistant"
        /\ \A k \in (n + 1)..Len(messages) : messages[k].role # "assistant"
      BY <1>1, <1>2 DEF Behind
  <2>b. m \in 1..Len(messages) /\ n \in 1..Len(messages)
      BY <1>3, <1>4, <1>5
  <2> HIDE DEF m, n
  <2>1. ~(m < n)
      BY <2>a, <2>b, <1>5
  <2>2. ~(n < m)
      BY <2>a, <2>b, <1>5
  <2>3. m = n
      BY <2>1, <2>2, <2>b, <1>5
  <2> QED BY <2>3 DEF m, n
<1>7. Behind(p[1], p[1])
    BY <1>1, <1>3, <1>5 DEF Behind
<1>8. Use(p) \in ToSet(messages[p[1]].content) /\ Use(q) \in ToSet(messages[p[1]].content)
    BY <1>3, <1>4, <1>6 DEF ToSet
<1>9. Use(q).call[1] = Use(p).call[1]
    BY <1>3, <1>4, <1>7, <1>8 DEF OpenInv, OneAnswer
<1> QED BY <1>1, <1>2, <1>9

\* The places of a conversation that grows.
LEMMA PlacesAppended ==
    ASSUME TypeOK, NEW message, messages' = Append(messages, message)
    PROVE  /\ \A p : p \in Places(Contents)' <=>
                  \/ p \in Places(Contents)
                  \/ p = <<Len(messages) + 1, p[2]>> /\ p[2] \in DOMAIN message.content
           /\ \A p \in Places(Contents) : /\ BlockAt(Contents, p)' = BlockAt(Contents, p)
                                          /\ p[1] \in DOMAIN messages /\ p[1] <= Len(messages)
           /\ \A k \in DOMAIN message.content :
                  BlockAt(Contents', <<Len(messages) + 1, k>>) = message.content[k]
<1>1. /\ Len(messages) \in Nat /\ DOMAIN messages = 1..Len(messages)
      /\ DOMAIN messages' = 1..(Len(messages) + 1)
      /\ messages'[Len(messages) + 1] = message
      /\ \A m \in DOMAIN messages : messages'[m] = messages[m]
      /\ \A m \in DOMAIN messages' : m \in DOMAIN messages \/ m = Len(messages) + 1
    BY Appended
<1>2. DOMAIN Contents' = DOMAIN messages' /\ \A m \in DOMAIN messages' : Contents'[m] = messages'[m].content
    BY DEF Contents
<1>3. \A p : p \in Places(Contents') <=> /\ p = <<p[1], p[2]>> /\ p[1] \in DOMAIN messages'
                                         /\ p[2] \in DOMAIN messages'[p[1]].content
    BY <1>2, PlacesAre
<1>4. \A p : p \in Places(Contents) <=> /\ p = <<p[1], p[2]>> /\ p[1] \in DOMAIN messages
                                        /\ p[2] \in DOMAIN messages[p[1]].content
    BY ContentsAre
<1>5. \A p : p \in Places(Contents') <=>
                  \/ p \in Places(Contents)
                  \/ p = <<Len(messages) + 1, p[2]>> /\ p[2] \in DOMAIN message.content
  <2> TAKE p
  <2> DEFINE m == p[1]
             L == Len(messages) + 1
  <2>1. p = <<L, p[2]>> <=> p = <<m, p[2]>> /\ m = L
      OBVIOUS
  <2>2. L \in DOMAIN messages' /\ L \notin DOMAIN messages
      BY <1>1
  <2>3. \A k \in DOMAIN messages : k \in DOMAIN messages'
      BY <1>1
  <2> HIDE DEF m, L
  <2>4. messages'[L] = message
      BY <1>1 DEF L
  <2>5. m \in DOMAIN messages' => m \in DOMAIN messages \/ m = L
      BY <1>1 DEF m, L
  <2>6. m \in DOMAIN messages => messages'[m] = messages[m]
      BY <1>1
  <2>7. p \in Places(Contents') <=> p = <<m, p[2]>> /\ m \in DOMAIN messages' /\ p[2] \in DOMAIN messages'[m].content
      BY <1>3 DEF m
  <2>8. p \in Places(Contents) <=> p = <<m, p[2]>> /\ m \in DOMAIN messages /\ p[2] \in DOMAIN messages[m].content
      BY <1>4 DEF m
  <2> QED BY <2>1, <2>2, <2>3, <2>4, <2>5, <2>6, <2>7, <2>8 DEF L
<1>6. ASSUME NEW p \in Places(Contents)
      PROVE  /\ BlockAt(Contents', p) = BlockAt(Contents, p)
             /\ p[1] \in DOMAIN messages /\ p[1] <= Len(messages)
  <2>1. p[1] \in DOMAIN messages /\ p[1] \in DOMAIN messages' /\ p[1] <= Len(messages)
      BY <1>1, <1>4
  <2>2. Contents'[p[1]] = Contents[p[1]]
      BY <1>1, <1>2, <2>1, ContentsAre
  <2> QED BY <2>1, <2>2 DEF BlockAt
<1>7. ASSUME NEW k \in DOMAIN message.content
      PROVE  BlockAt(Contents', <<Len(messages) + 1, k>>) = message.content[k]
  <2>1. Contents'[Len(messages) + 1] = message.content
      BY <1>1, <1>2
  <2> QED BY <2>1 DEF BlockAt
<1> QED BY <1>5, <1>6, <1>7

\* And of one cut off.
LEMMA PlacesForgotten ==
    ASSUME TypeOK, NEW n \in Nat, n < Len(messages),
           messages' = SubSeq(messages, n + 1, Len(messages))
    PROVE  /\ \A p \in Places(Contents)' :
                  /\ <<n + p[1], p[2]>> \in Places(Contents) /\ p[1] \in Nat
                  /\ p = <<p[1], p[2]>>
                  /\ BlockAt(Contents, p)' = BlockAt(Contents, <<n + p[1], p[2]>>)
           /\ \A q \in Places(Contents) : n < q[1] =>
                  /\ <<q[1] - n, q[2]>> \in Places(Contents)'
                  /\ BlockAt(Contents, <<q[1] - n, q[2]>>)' = BlockAt(Contents, q)
<1>1. messages \in Seq(Messages) /\ Len(messages) \in Nat /\ DOMAIN messages = 1..Len(messages)
    BY DEF TypeOK, TranslationTypeOK
<1>2. /\ DOMAIN messages' = 1..(Len(messages) - n)
      /\ \A m \in DOMAIN messages' : messages'[m] = messages[n + m] /\ n + m \in DOMAIN messages
    BY <1>1
<1>3. DOMAIN Contents' = DOMAIN messages' /\ \A m \in DOMAIN messages' : Contents'[m] = messages'[m].content
    BY DEF Contents
<1>4. \A p : p \in Places(Contents') <=> /\ p = <<p[1], p[2]>> /\ p[1] \in DOMAIN messages'
                                         /\ p[2] \in DOMAIN messages'[p[1]].content
    BY <1>3, PlacesAre
<1>5. \A i : \A m \in DOMAIN messages' : /\ <<m, i>> \in Places(Contents') <=> <<n + m, i>> \in Places(Contents)
                                         /\ <<n + m, i>> \in Places(Contents) =>
                                              BlockAt(Contents', <<m, i>>) = BlockAt(Contents, <<n + m, i>>)
  <2> TAKE i
  <2> TAKE m \in DOMAIN messages'
  <2> DEFINE p == <<m, i>>
             q == <<n + m, i>>
  <2>1. p[1] = m /\ p[2] = i /\ q[1] = n + m /\ q[2] = i /\ p = <<p[1], p[2]>> /\ q = <<q[1], q[2]>>
      OBVIOUS
  <2> HIDE DEF p, q
  <2>2. messages'[m] = messages[n + m] /\ n + m \in DOMAIN messages
      BY <1>2
  <2>3. p \in Places(Contents') <=> i \in DOMAIN messages'[m].content
      BY <1>4, <2>1
  <2>4. q \in Places(Contents) <=> i \in DOMAIN messages[n + m].content
      BY <2>1, <2>2, ContentsAre
  <2>5. q \in Places(Contents) => BlockAt(Contents', p) = BlockAt(Contents, q)
    <3>1. BlockAt(Contents', p) = messages'[m].content[i]
        BY <1>3, <2>1 DEF BlockAt
    <3> QED BY <3>1, <2>1, <2>2, ContentsAre
  <2> QED BY <2>2, <2>3, <2>4, <2>5 DEF p, q
<1>6. ASSUME NEW p \in Places(Contents')
      PROVE  /\ <<n + p[1], p[2]>> \in Places(Contents) /\ p[1] \in Nat
             /\ p = <<p[1], p[2]>>
             /\ BlockAt(Contents', p) = BlockAt(Contents, <<n + p[1], p[2]>>)
    BY <1>2, <1>4, <1>5
<1>7. ASSUME NEW q \in Places(Contents), n < q[1]
      PROVE  /\ <<q[1] - n, q[2]>> \in Places(Contents')
             /\ BlockAt(Contents', <<q[1] - n, q[2]>>) = BlockAt(Contents, q)
  <2>1. q = <<q[1], q[2]>> /\ q[1] \in DOMAIN messages
      BY ContentsAre
  <2>2. q[1] - n \in DOMAIN messages' /\ n + (q[1] - n) = q[1]
      BY <2>1, <1>1, <1>2, <1>7
  <2>3. /\ <<q[1] - n, q[2]>> \in Places(Contents') <=> <<n + (q[1] - n), q[2]>> \in Places(Contents)
        /\ <<n + (q[1] - n), q[2]>> \in Places(Contents) =>
              BlockAt(Contents', <<q[1] - n, q[2]>>) = BlockAt(Contents, <<n + (q[1] - n), q[2]>>)
      BY <1>5, <2>2
  <2> QED BY <2>1, <2>2, <2>3
<1> QED BY <1>6, <1>7

\* Users answer each call once, and all that are open before they write.
LEMMA AtOnceSays ==
    ASSUME CallInv, OpenInv, AtOnceInv, NEW content \in Seq(Blocks), Says(content),
           \A i \in DOMAIN content : \/ content[i].type = "text"
                                     \/ /\ content[i].type = "tool_result"
                                        /\ content[i].call \in Unanswered,
           \A i, j \in DOMAIN content :
               content[i].type = "tool_result" /\ content[j].type = "tool_result"
                   /\ content[i].call = content[j].call => i = j,
           \A i \in DOMAIN content : content[i].type = "text" =>
               \A call \in Unanswered : \E j \in DOMAIN content :
                   content[j].type = "tool_result" /\ content[j].call = call
    PROVE  AtOnceInv'
<1> DEFINE message == [role |-> "user", content |-> content]
           last == Len(messages) + 1
<1>1. messages' = Append(messages, message) /\ said' = said
    BY DEF Says
<1>2. message.role = "user" /\ message.content = content
    OBVIOUS
<1>t. TypeOK /\ OnlyLastOpen /\ AnsweredFirst /\ ResultsOnce /\ WholeAnswers
    BY DEF CallInv, OpenInv, AtOnceInv
<1> HIDE DEF message
<1>3. /\ Len(messages) \in Nat /\ DOMAIN messages = 1..Len(messages)
      /\ DOMAIN messages' = 1..(Len(messages) + 1)
      /\ messages'[Len(messages) + 1] = message
      /\ \A m \in DOMAIN messages : messages'[m] = messages[m]
      /\ \A m \in DOMAIN messages' : m \in DOMAIN messages \/ m = Len(messages) + 1
    BY <1>1, <1>t, Appended
<1>4. /\ \A p : p \in Places(Contents') <=> \/ p \in Places(Contents)
                                            \/ p = <<last, p[2]>> /\ p[2] \in DOMAIN content
      /\ \A p \in Places(Contents) : /\ BlockAt(Contents', p) = BlockAt(Contents, p)
                                     /\ p[1] \in DOMAIN messages /\ p[1] < last
      /\ \A k \in DOMAIN content : BlockAt(Contents', <<last, k>>) = content[k]
  <2>1. /\ \A p : p \in Places(Contents)' <=>
                  \/ p \in Places(Contents)
                  \/ p = <<last, p[2]>> /\ p[2] \in DOMAIN message.content
        /\ \A p \in Places(Contents) : /\ BlockAt(Contents, p)' = BlockAt(Contents, p)
                                       /\ p[1] \in DOMAIN messages /\ p[1] <= Len(messages)
        /\ \A k \in DOMAIN message.content : BlockAt(Contents', <<last, k>>) = message.content[k]
      BY <1>1, <1>t, PlacesAppended, Zenon
  <2>2. \A m \in DOMAIN messages : m < last
      BY <1>3
  <2> HIDE DEF last
  <2> QED BY <2>1, <2>2, <1>2
<1> HIDE DEF last
<1>5. ASSUME NEW p \in Uses' PROVE p \in Uses /\ Use(p)' = Use(p)
  <2>1. /\ p = <<p[1], p[2]>>
        /\ p[1] \in DOMAIN messages' /\ p[2] \in DOMAIN messages'[p[1]].content
        /\ messages'[p[1]].content[p[2]].type = "tool_use"
      BY DEF Uses
  <2>2. p[1] # Len(messages) + 1
      BY <2>1, <1>2, <1>3
  <2>3. p[1] \in DOMAIN messages /\ messages'[p[1]] = messages[p[1]]
      BY <2>1, <2>2, <1>3
  <2> QED BY <2>1, <2>3, UsesAre DEF Use
<1>6. \A r \in ResultPlaces : r \in ResultPlaces' /\ CallAt(r)' = CallAt(r) /\ r[1] < last
  <2> TAKE r \in ResultPlaces
  <2>1. r \in Places(Contents) /\ BlockAt(Contents, r).type = "tool_result"
      BY DEF ResultPlaces, OfType
  <2>2. r \in Places(Contents') /\ BlockAt(Contents', r) = BlockAt(Contents, r) /\ r[1] < last
      BY <2>1, <1>4
  <2> QED BY <2>1, <2>2 DEF ResultPlaces, OfType, CallAt
<1>7. ASSUME NEW r \in ResultPlaces'
      PROVE  \/ r \in ResultPlaces /\ CallAt(r)' = CallAt(r)
             \/ /\ r = <<last, r[2]>> /\ r[2] \in DOMAIN content
                /\ content[r[2]].type = "tool_result" /\ CallAt(r)' = content[r[2]].call
  <2>1. r \in Places(Contents') /\ BlockAt(Contents', r).type = "tool_result"
      BY DEF ResultPlaces, OfType
  <2>2. CASE r \in Places(Contents)
    <3>1. BlockAt(Contents', r) = BlockAt(Contents, r)
        BY <2>2, <1>4
    <3> QED BY <2>1, <2>2, <3>1 DEF ResultPlaces, OfType, CallAt
  <2>3. CASE r = <<last, r[2]>> /\ r[2] \in DOMAIN content
    <3>1. BlockAt(Contents', r) = content[r[2]]
        BY <2>3, <1>4
    <3> QED BY <2>1, <2>3, <3>1 DEF CallAt
  <2> QED BY <2>1, <2>2, <2>3, <1>4
<1>8. \A r \in ResultPlaces : CallAt(r) \in Answered
  <2> TAKE r \in ResultPlaces
  <2>1. r \in Places(Contents) /\ BlockAt(Contents, r).type = "tool_result"
      BY DEF ResultPlaces, OfType
  <2>2. /\ messages[r[1]].role = "user" /\ r[1] \in DOMAIN messages
        /\ r[2] \in DOMAIN messages[r[1]].content
        /\ BlockAt(Contents, r) = messages[r[1]].content[r[2]]
      BY <2>1, <1>t, WhoSays, ContentsAre
  <2> QED BY <2>2, AnsweredAre DEF CallAt
<1>9. ResultsOnce'
  <2> SUFFICES ASSUME NEW p \in ResultPlaces', NEW q \in ResultPlaces', CallAt(p)' = CallAt(q)'
               PROVE  p = q
      BY DEF ResultsOnce
  <2>1. CASE p \in ResultPlaces /\ q \in ResultPlaces
      BY <2>1, <1>6, <1>t DEF ResultsOnce
  <2>2. CASE p \notin ResultPlaces /\ q \notin ResultPlaces
    <3>1. p[2] = q[2] /\ p = <<last, p[2]>> /\ q = <<last, q[2]>>
        BY <2>2, <1>7
    <3> QED BY <3>1
  <2>3. CASE p \in ResultPlaces /\ q \notin ResultPlaces
    <3>1. CallAt(p)' \in Answered /\ CallAt(q)' \in Unanswered
        BY <2>3, <1>6, <1>7, <1>8
    <3> QED BY <3>1 DEF Unanswered
  <2>4. CASE p \notin ResultPlaces /\ q \in ResultPlaces
    <3>1. CallAt(q)' \in Answered /\ CallAt(p)' \in Unanswered
        BY <2>4, <1>6, <1>7, <1>8
    <3> QED BY <3>1 DEF Unanswered
  <2> QED BY <2>1, <2>2, <2>3, <2>4
<1>10. WholeAnswers'
  <2> SUFFICES ASSUME NEW m \in DOMAIN messages', messages'[m].role = "assistant"
               PROVE  \E s \in DOMAIN said : messages'[m].content = said[s]
      BY <1>1 DEF WholeAnswers
  <2>1. m \in DOMAIN messages
      BY <1>2, <1>3
  <2> QED BY <2>1, <1>3, <1>t DEF WholeAnswers
<1>11. AnsweredFirst'
  <2> SUFFICES ASSUME NEW p \in Uses', NEW q \in Places(Contents'), p[1] < q[1],
                      ~(q \in ResultPlaces' /\ CallAt(q)'[1] = Use(p)'.call[1])
               PROVE  \E r \in ResultPlaces' :
                          /\ CallAt(r)' = Use(p)'.call /\ p[1] < r[1]
                          /\ r[1] < q[1] \/ (r[1] = q[1] /\ q \in OfType(Contents', "text"))
      BY DEF AnsweredFirst
  <2>1. p \in Uses /\ Use(p)' = Use(p) /\ p[1] \in DOMAIN messages /\ p[1] < last
      BY <1>4, <1>5, <1>t, UsePlace
  <2>2. CASE q \in Places(Contents)
    <3>1. BlockAt(Contents', q) = BlockAt(Contents, q)
        BY <2>2, <1>4
    <3>2. ~(q \in ResultPlaces /\ CallAt(q)[1] = Use(p).call[1])
        BY <2>1, <1>6
    <3>3. PICK r \in ResultPlaces :
              /\ CallAt(r) = Use(p).call /\ p[1] < r[1]
              /\ r[1] < q[1] \/ (r[1] = q[1] /\ q \in OfType(Contents, "text"))
        BY <2>1, <2>2, <3>2, <1>t DEF AnsweredFirst
    <3>4. q \in OfType(Contents, "text") => q \in OfType(Contents', "text")
        BY <3>1 DEF OfType
    <3> QED BY <2>1, <3>3, <3>4, <1>6
  <2>3. CASE q = <<last, q[2]>> /\ q[2] \in DOMAIN content
    <3>0. q[1] = last /\ BlockAt(Contents', q) = content[q[2]]
        BY <2>3, <1>4
    <3>1. CASE Use(p).call \in Answered
      <4>1. PICK r \in ResultPlaces : CallAt(r) = Use(p).call /\ p[1] < r[1]
          BY <2>1, <3>1, AnsweredBy
      <4> QED BY <2>1, <3>0, <4>1, <1>6
    <3>2. CASE Use(p).call \notin Answered
      <4>1. Use(p).call \in Unanswered
          BY <2>1, <3>2 DEF Unanswered
      <4>2. content[q[2]].type = "text"
        <5>1. ASSUME content[q[2]].type = "tool_result", content[q[2]].call \in Unanswered
              PROVE  FALSE
          <6>1. content[q[2]].call[1] = Use(p).call[1]
              BY <4>1, <5>1, OpenOfOne
          <6>2. q \in ResultPlaces' /\ CallAt(q)' = content[q[2]].call
              BY <3>0, <5>1 DEF ResultPlaces, OfType, CallAt
          <6> QED BY <2>1, <6>1, <6>2
        <5> QED BY <2>3, <5>1
      <4>3. PICK j \in DOMAIN content : /\ content[j].type = "tool_result"
                                        /\ content[j].call = Use(p).call
          BY <2>3, <4>1, <4>2
      <4>r. PICK r : r = <<last, j>>
          OBVIOUS
      <4>4. r[1] = last /\ r[2] = j /\ r = <<last, r[2]>>
          BY <4>r
      <4>5. r \in Places(Contents') /\ BlockAt(Contents', r) = content[j]
          BY <4>4, <1>4
      <4>6. r \in ResultPlaces' /\ CallAt(r)' = Use(p).call
          BY <4>3, <4>5 DEF ResultPlaces, OfType, CallAt
      <4>7. q \in OfType(Contents', "text")
          BY <3>0, <4>2 DEF OfType
      <4> QED BY <2>1, <3>0, <4>4, <4>6, <4>7
    <3> QED BY <3>1, <3>2
  <2> QED BY <2>2, <2>3, <1>4
<1> QED BY <1>9, <1>10, <1>11 DEF AtOnceInv

\* An answer is taken into the messages when every call before it has its result.
LEMMA AtOnceReceive ==
    ASSUME CallInv, OpenInv, AtOnceInv, pc # "caller", NEW new \in Seq(Blocks),
           \A i \in DOMAIN new : new[i].type # "tool_result",
           messages' = Append(messages, [role |-> "assistant", content |-> new]),
           said' = Append(said, new)
    PROVE  AtOnceInv'
<1> DEFINE message == [role |-> "assistant", content |-> new]
           last == Len(messages) + 1
<1>1. messages' = Append(messages, message)
    OBVIOUS
<1>2. message.role = "assistant" /\ message.content = new
    OBVIOUS
<1>t. TypeOK /\ AnsweredFirst /\ ResultsOnce /\ WholeAnswers
    BY DEF CallInv, AtOnceInv
<1> HIDE DEF message
<1>3. /\ Len(messages) \in Nat /\ DOMAIN messages = 1..Len(messages)
      /\ DOMAIN messages' = 1..(Len(messages) + 1)
      /\ messages'[Len(messages) + 1] = message
      /\ \A m \in DOMAIN messages : messages'[m] = messages[m]
      /\ \A m \in DOMAIN messages' : m \in DOMAIN messages \/ m = Len(messages) + 1
    BY <1>1, <1>t, Appended
<1>4. /\ \A p : p \in Places(Contents') <=> \/ p \in Places(Contents)
                                            \/ p = <<last, p[2]>> /\ p[2] \in DOMAIN new
      /\ \A p \in Places(Contents) : /\ BlockAt(Contents', p) = BlockAt(Contents, p)
                                     /\ p[1] \in DOMAIN messages /\ p[1] < last
      /\ \A k \in DOMAIN new : BlockAt(Contents', <<last, k>>) = new[k]
  <2>1. /\ \A p : p \in Places(Contents)' <=>
                  \/ p \in Places(Contents)
                  \/ p = <<last, p[2]>> /\ p[2] \in DOMAIN message.content
        /\ \A p \in Places(Contents) : /\ BlockAt(Contents, p)' = BlockAt(Contents, p)
                                       /\ p[1] \in DOMAIN messages /\ p[1] <= Len(messages)
        /\ \A k \in DOMAIN message.content : BlockAt(Contents', <<last, k>>) = message.content[k]
      BY <1>1, <1>t, PlacesAppended, Zenon
  <2>2. \A m \in DOMAIN messages : m < last
      BY <1>3
  <2> HIDE DEF last
  <2> QED BY <2>1, <2>2, <1>2
<1>5. last \in Nat
    BY <1>3
<1> HIDE DEF last
<1>6. \A r : r \in ResultPlaces' <=> r \in ResultPlaces
  <2> TAKE r
  <2>1. CASE r \in Places(Contents)
      BY <2>1, <1>4 DEF ResultPlaces, OfType
  <2>2. CASE r = <<last, r[2]>> /\ r[2] \in DOMAIN new
    <3>1. r \notin ResultPlaces'
        BY <2>2, <1>4 DEF ResultPlaces, OfType
    <3>2. r \notin Places(Contents)
        BY <2>2, <1>4, <1>5
    <3> QED BY <3>1, <3>2 DEF ResultPlaces, OfType
  <2>3. r \in ResultPlaces' => r \in Places(Contents')
      BY DEF ResultPlaces, OfType
  <2>4. r \in ResultPlaces => r \in Places(Contents)
      BY DEF ResultPlaces, OfType
  <2> QED BY <2>1, <2>2, <2>3, <2>4, <1>4
<1>7. \A r \in ResultPlaces : CallAt(r)' = CallAt(r) /\ r[1] < last
    BY <1>4 DEF ResultPlaces, OfType, CallAt
<1>8. ResultsOnce'
    BY <1>6, <1>7, <1>t DEF ResultsOnce
<1>9. WholeAnswers'
  <2>1. /\ DOMAIN said' = 1..(Len(said) + 1) /\ Len(said) \in Nat /\ DOMAIN said = 1..Len(said)
        /\ said'[Len(said) + 1] = new /\ \A s \in DOMAIN said : said'[s] = said[s]
      BY DEF CallInv, TypeOK
  <2>2. \A s \in DOMAIN said : s \in DOMAIN said'
      BY <2>1
  <2>3. ASSUME NEW m \in DOMAIN messages', messages'[m].role = "assistant"
        PROVE  \E s \in DOMAIN said' : messages'[m].content = said'[s]
    <3>1. CASE m \in DOMAIN messages
        BY <3>1, <2>1, <2>2, <2>3, <1>3, <1>t DEF WholeAnswers
    <3>2. CASE m = Len(messages) + 1
        BY <3>2, <2>1, <1>2, <1>3
    <3> QED BY <3>1, <3>2, <1>3
  <2> QED BY <2>3 DEF WholeAnswers
<1>10. AnsweredFirst'
  <2> SUFFICES ASSUME NEW p \in Uses', NEW q \in Places(Contents'), p[1] < q[1],
                      ~(q \in ResultPlaces' /\ CallAt(q)'[1] = Use(p)'.call[1])
               PROVE  \E r \in ResultPlaces' :
                          /\ CallAt(r)' = Use(p)'.call /\ p[1] < r[1]
                          /\ r[1] < q[1] \/ (r[1] = q[1] /\ q \in OfType(Contents', "text"))
      BY DEF AnsweredFirst
  <2>1. /\ p = <<p[1], p[2]>>
        /\ p[1] \in DOMAIN messages' /\ p[2] \in DOMAIN messages'[p[1]].content
        /\ messages'[p[1]].content[p[2]].type = "tool_use"
      BY DEF Uses
  <2>2. q[1] \in DOMAIN messages' /\ q[1] <= last
    <3>1. CASE q \in Places(Contents)
      <4>1. q[1] \in DOMAIN messages /\ q[1] < last
          BY <3>1, <1>4
      <4>2. q[1] \in Nat
          BY <4>1, <1>3
      <4>3. q[1] <= last
          BY <4>1, <4>2, <1>5
      <4>4. q[1] \in DOMAIN messages'
          BY <4>1, <1>3
      <4> QED BY <4>3, <4>4
    <3>2. CASE q = <<last, q[2]>>
      <4>1. q[1] = last
          BY <3>2
      <4>2. last \in DOMAIN messages'
          BY <1>3 DEF last
      <4> QED BY <4>1, <4>2, <1>5
    <3> QED BY <3>1, <3>2, <1>4
  <2>3. p[1] \in DOMAIN messages
      BY <2>1, <2>2, <1>3 DEF last
  <2>4. p \in Uses /\ Use(p)' = Use(p)
      BY <2>1, <2>3, <1>3, UsesAre DEF Use
  <2>5. CASE q \in Places(Contents)
    <3>1. BlockAt(Contents', q) = BlockAt(Contents, q)
        BY <2>5, <1>4
    <3>2. ~(q \in ResultPlaces /\ CallAt(q)[1] = Use(p).call[1])
        BY <2>4, <1>6, <1>7
    <3>3. PICK r \in ResultPlaces :
              /\ CallAt(r) = Use(p).call /\ p[1] < r[1]
              /\ r[1] < q[1] \/ (r[1] = q[1] /\ q \in OfType(Contents, "text"))
        BY <2>4, <2>5, <3>2, <1>t DEF AnsweredFirst
    <3>4. q \in OfType(Contents, "text") => q \in OfType(Contents', "text")
        BY <2>5, <3>1, <1>4 DEF OfType
    <3> QED BY <2>4, <3>3, <3>4, <1>6, <1>7
  <2>6. CASE q = <<last, q[2]>>
    <3>1. Use(p).call \in Answered
        BY <2>4 DEF OpenInv, NoneOpen, Unanswered
    <3>2. PICK r \in ResultPlaces : CallAt(r) = Use(p).call /\ p[1] < r[1]
        BY <2>4, <3>1, AnsweredBy
    <3>3. q[1] = last
        BY <2>6
    <3> QED BY <2>4, <3>2, <3>3, <1>6, <1>7
  <2> QED BY <2>5, <2>6, <1>4
<1> QED BY <1>8, <1>9, <1>10 DEF AtOnceInv

\* What is left of a conversation is as it was.
LEMMA AtOnceForget ==
    ASSUME CallInv, AtOnceInv, NEW n \in 1..MaxMessages, Forget(n)
    PROVE  AtOnceInv'
<1>1. messages \in Seq(Messages) /\ Len(messages) \in Nat /\ TypeOK
    BY DEF CallInv, TypeOK, TranslationTypeOK
<1>2. /\ n \in Nat /\ n < Len(messages) /\ messages' = SubSeq(messages, n + 1, Len(messages))
      /\ said' = said
    BY <1>1 DEF Forget
<1>3. /\ DOMAIN messages = 1..Len(messages)
      /\ DOMAIN messages' = 1..(Len(messages) - n)
      /\ \A m \in DOMAIN messages' : messages'[m] = messages[n + m] /\ n + m \in DOMAIN messages
    BY <1>1, <1>2
<1>4. /\ \A p \in Places(Contents') :
            /\ <<n + p[1], p[2]>> \in Places(Contents) /\ p[1] \in Nat /\ p = <<p[1], p[2]>>
            /\ BlockAt(Contents', p) = BlockAt(Contents, <<n + p[1], p[2]>>)
      /\ \A q \in Places(Contents) : n < q[1] =>
            /\ <<q[1] - n, q[2]>> \in Places(Contents')
            /\ BlockAt(Contents', <<q[1] - n, q[2]>>) = BlockAt(Contents, q)
    BY <1>1, <1>2, PlacesForgotten
<1>5. ASSUME NEW p \in ResultPlaces'
      PROVE  /\ <<n + p[1], p[2]>> \in ResultPlaces /\ CallAt(p)' = CallAt(<<n + p[1], p[2]>>)
             /\ p[1] \in Nat /\ p = <<p[1], p[2]>>
    BY <1>4 DEF ResultPlaces, OfType, CallAt
<1>6. ASSUME NEW q \in ResultPlaces, n < q[1]
      PROVE  /\ <<q[1] - n, q[2]>> \in ResultPlaces'
             /\ CallAt(<<q[1] - n, q[2]>>)' = CallAt(q)
  <2>1. q \in Places(Contents) /\ BlockAt(Contents, q).type = "tool_result"
      BY DEF ResultPlaces, OfType
  <2> DEFINE r == <<q[1] - n, q[2]>>
  <2>2. r \in Places(Contents') /\ BlockAt(Contents', r) = BlockAt(Contents, q)
      BY <2>1, <1>4, <1>6
  <2> HIDE DEF r
  <2>3. r \in ResultPlaces' /\ CallAt(r)' = CallAt(q)
      BY <2>1, <2>2 DEF ResultPlaces, OfType, CallAt
  <2> QED BY <2>3 DEF r
<1>7. ResultsOnce'
  <2> SUFFICES ASSUME NEW p \in ResultPlaces', NEW q \in ResultPlaces', CallAt(p)' = CallAt(q)'
               PROVE  p = q
      BY DEF ResultsOnce
  <2> DEFINE u == <<n + p[1], p[2]>>
             v == <<n + q[1], q[2]>>
  <2>1. u \in ResultPlaces /\ v \in ResultPlaces /\ CallAt(u) = CallAt(v)
      BY <1>5
  <2>2. u[1] = n + p[1] /\ u[2] = p[2] /\ v[1] = n + q[1] /\ v[2] = q[2]
      OBVIOUS
  <2> HIDE DEF u, v
  <2>3. u = v
      BY <2>1 DEF AtOnceInv, ResultsOnce
  <2>4. /\ p[1] \in Nat /\ q[1] \in Nat
        /\ p = <<p[1], p[2]>> /\ q = <<q[1], q[2]>>
      BY <1>5
  <2>5. p[1] = q[1] /\ p[2] = q[2]
      BY <2>2, <2>3, <2>4, <1>2
  <2> QED BY <2>4, <2>5
<1>8. WholeAnswers'
    BY <1>2, <1>3 DEF AtOnceInv, WholeAnswers
<1>9. AnsweredFirst'
  <2> SUFFICES ASSUME NEW p \in Uses', NEW q \in Places(Contents'), p[1] < q[1],
                      ~(q \in ResultPlaces' /\ CallAt(q)'[1] = Use(p)'.call[1])
               PROVE  \E r \in ResultPlaces' :
                          /\ CallAt(r)' = Use(p)'.call /\ p[1] < r[1]
                          /\ r[1] < q[1] \/ (r[1] = q[1] /\ q \in OfType(Contents', "text"))
      BY DEF AnsweredFirst
  <2> DEFINE u == <<n + p[1], p[2]>>
             v == <<n + q[1], q[2]>>
  <2>1. /\ p[1] \in DOMAIN messages' /\ p[2] \in DOMAIN messages'[p[1]].content
        /\ messages'[p[1]].content[p[2]].type = "tool_use"
      BY DEF Uses
  <2>2. messages'[p[1]] = messages[n + p[1]] /\ n + p[1] \in DOMAIN messages /\ p[1] \in Nat
      BY <2>1, <1>3
  <2>3. /\ u[1] = n + p[1] /\ u[2] = p[2] /\ u = <<u[1], u[2]>>
        /\ v[1] = n + q[1] /\ v[2] = q[2] /\ v = <<v[1], v[2]>>
      OBVIOUS
  <2>4. /\ v \in Places(Contents) /\ q[1] \in Nat /\ q = <<q[1], q[2]>>
        /\ BlockAt(Contents', q) = BlockAt(Contents, v)
      BY <1>4
  <2> HIDE DEF u, v
  <2>5. u \in Uses /\ Use(p)' = Use(u)
      BY <2>1, <2>2, <2>3, UsesAre DEF Use
  <2>6. u[1] < v[1]
      BY <2>2, <2>3, <2>4, <1>2
  <2>7. ~(v \in ResultPlaces /\ CallAt(v)[1] = Use(u).call[1])
      BY <2>4, <2>5 DEF ResultPlaces, OfType, CallAt
  <2>8. PICK w \in ResultPlaces :
            /\ CallAt(w) = Use(u).call /\ u[1] < w[1]
            /\ w[1] < v[1] \/ (w[1] = v[1] /\ v \in OfType(Contents, "text"))
      BY <2>4, <2>5, <2>6, <2>7 DEF AtOnceInv, AnsweredFirst
  <2>9. w[1] \in Nat
      BY <1>1, PlaceTyped DEF ResultPlaces, OfType
  <2>10. n < w[1]
      BY <2>2, <2>3, <2>8, <2>9, <1>2
  <2> DEFINE r == <<w[1] - n, w[2]>>
  <2>11. r \in ResultPlaces' /\ CallAt(r)' = CallAt(w) /\ r[1] = w[1] - n
      BY <2>10, <1>6
  <2> HIDE DEF r
  <2>12. v \in OfType(Contents, "text") => q \in OfType(Contents', "text")
      BY <2>4 DEF OfType
  <2>13. p[1] < r[1]
      BY <2>2, <2>3, <2>8, <2>9, <2>11, <1>2
  <2>14. r[1] < q[1] \/ (r[1] = q[1] /\ q \in OfType(Contents', "text"))
      BY <2>3, <2>4, <2>8, <2>9, <2>11, <2>12, <1>2
  <2> QED BY <2>5, <2>8, <2>11, <2>13, <2>14
<1> QED BY <1>7, <1>8, <1>9 DEF AtOnceInv

\* The requests leave the messages as they are.
LEMMA AtOnceFrame ==
    ASSUME AtOnceInv, messages' = messages, said' = said
    PROVE  AtOnceInv'
<1>1. Contents' = Contents
    BY DEF Contents
<1>2. /\ \A p : p \in Uses' <=> p \in Uses
      /\ \A p : Use(p)' = Use(p)
      /\ \A p : p \in ResultPlaces' <=> p \in ResultPlaces
      /\ \A p : CallAt(p)' = CallAt(p)
    BY <1>1 DEF Uses, Use, ResultPlaces, CallAt
<1>3. ResultsOnce' /\ WholeAnswers'
    BY <1>2 DEF AtOnceInv, ResultsOnce, WholeAnswers
<1>4. AnsweredFirst'
    BY <1>1, <1>2 DEF AtOnceInv, AnsweredFirst
<1> QED BY <1>3, <1>4 DEF AtOnceInv

-----------------------------------------------------------------------------
(***************************************************************************)
(* What the loops have set aside of a message.                             *)
(***************************************************************************)
\* h says which block of a content each block of a list is: in their order, and
\* those of T all.
LaidBy(h, list, content, T) ==
    /\ h \in [DOMAIN list -> T]
    /\ \A k, l \in DOMAIN list : k < l => h[k] < h[l]
    /\ \A i \in T : \E k \in DOMAIN list : h[k] = i
    /\ \A k \in DOMAIN list : /\ list[k].type = content[h[k]].type
                              /\ list[k].call = content[h[k]].call
Laid(list, content, T) == \E h \in [DOMAIN list -> T] : LaidBy(h, list, content, T)

\* An empty list holds nothing.
LEMMA LaidNone == \A content : Laid(<<>>, content, {})
<1> TAKE content
<1>1. DOMAIN <<>> = {}
    OBVIOUS
<1>2. <<>> \in [DOMAIN <<>> -> {}]
    BY <1>1
<1>3. LaidBy(<<>>, <<>>, content, {})
    BY <1>1, <1>2 DEF LaidBy
<1> QED BY <1>2, <1>3 DEF Laid

\* A list takes the next block of its kinds.
LEMMA LaidTakes ==
    ASSUME NEW list \in Seq(Blocks), NEW content, NEW T \in SUBSET Nat, NEW new \in Nat,
           \A i \in T : i < new, NEW block \in Blocks,
           block.type = content[new].type, block.call = content[new].call,
           Laid(list, content, T)
    PROVE  Laid(Append(list, block), content, T \cup {new})
<1>1. PICK h \in [DOMAIN list -> T] : LaidBy(h, list, content, T)
    BY DEF Laid
<1> DEFINE longer == Append(list, block)
           n == Len(list)
<1>2. /\ n \in Nat /\ DOMAIN list = 1..n /\ DOMAIN longer = 1..(n + 1)
      /\ longer[n + 1] = block
      /\ \A k \in 1..n : longer[k] = list[k]
    OBVIOUS
<1>3. \A k \in 1..(n + 1) : k = n + 1 \/ (k \in 1..n /\ k < n + 1)
    BY <1>2
<1>4. n + 1 \in 1..(n + 1) /\ n + 1 \notin 1..n /\ \A k \in 1..n : k \in 1..(n + 1) /\ k # n + 1 /\ ~(n + 1 < k)
    BY <1>2
<1> DEFINE g == [k \in DOMAIN longer |-> IF k = n + 1 THEN new ELSE h[k]]
<1> HIDE DEF longer
<1>5. \A k \in 1..n : h[k] \in T /\ h[k] < new
    BY <1>1, <1>2
<1>6. g[n + 1] = new /\ \A k \in 1..n : g[k] = h[k]
    BY <1>2, <1>4
<1>7. g \in [DOMAIN longer -> T \cup {new}]
    BY <1>2, <1>3, <1>5
<1> HIDE DEF g, n
<1>8. \A k, l \in DOMAIN longer : k < l => g[k] < g[l]
  <2> SUFFICES ASSUME NEW k \in DOMAIN longer, NEW l \in DOMAIN longer, k < l PROVE g[k] < g[l]
      OBVIOUS
  <2>1. k \in 1..n
      BY <1>2, <1>3, <1>4
  <2>2. CASE l = n + 1
      BY <2>1, <2>2, <1>5, <1>6
  <2>3. CASE l \in 1..n
      BY <2>1, <2>3, <1>1, <1>2, <1>6 DEF LaidBy
  <2> QED BY <2>2, <2>3, <1>2, <1>3
<1>9. \A i \in T \cup {new} : \E k \in DOMAIN longer : g[k] = i
    BY <1>1, <1>2, <1>4, <1>6 DEF LaidBy
<1>10. ASSUME NEW k \in DOMAIN longer
       PROVE  longer[k].type = content[g[k]].type /\ longer[k].call = content[g[k]].call
  <2>1. CASE k = n + 1
      BY <2>1, <1>2, <1>6
  <2>2. CASE k \in 1..n
      BY <2>2, <1>1, <1>2, <1>6 DEF LaidBy
  <2> QED BY <2>1, <2>2, <1>2, <1>3
<1>11. LaidBy(g, longer, content, T \cup {new})
    BY <1>7, <1>8, <1>9, <1>10 DEF LaidBy
<1> QED BY <1>7, <1>11 DEF Laid, longer

SetAside(kinds) == {i \in 1..at : Content[i].type \in kinds}

PartKinds == IF wire = "gemini" THEN {"text", "tool_use"} ELSE {"text"}
CallKinds == IF wire = "gemini" THEN {} ELSE {"tool_use"}

AsideInv == wire \in {"openai", "gemini"} =>
    /\ Laid(parts, Content, SetAside(PartKinds))
    /\ Laid(tool_calls, Content, SetAside(CallKinds))
    /\ Laid(results, Content, SetAside({"tool_result"}))

\* The block a loop looks at goes where its kind goes.
LEMMA AsideTakes ==
    ASSUME TypeOK, NextBlock, NEW kinds
    PROVE  /\ Content[at + 1].type \in kinds => SetAside(kinds)' = SetAside(kinds) \cup {at + 1}
           /\ Content[at + 1].type \notin kinds => SetAside(kinds)' = SetAside(kinds)
           /\ Content' = Content /\ at + 1 \in Nat
           /\ SetAside(kinds) \in SUBSET Nat /\ \A i \in SetAside(kinds) : i < at + 1
           /\ Content[at + 1] \in Blocks /\ at + 1 \in DOMAIN Content
<1>1. /\ Content' = Content /\ at' = at + 1
    BY DEF NextBlock, Content
<1>2. at \in Nat /\ done \in Nat /\ messages \in Seq(Messages) /\ done < Len(messages) /\ at < Len(Content)
    BY DEF TypeOK, TranslationTypeOK, NextBlock
<1>3. done + 1 \in DOMAIN messages
    BY <1>2
<1>4. at + 1 \in DOMAIN Content /\ Content[at + 1] \in Blocks
    BY <1>2, <1>3, MessageTyped DEF TypeOK, Content
<1>5. \A i : i \in 1..(at + 1) <=> i \in 1..at \/ i = at + 1
    BY <1>2
<1>6. SetAside(kinds)' = {i \in 1..(at + 1) : Content[i].type \in kinds}
    BY <1>1 DEF SetAside
<1>7. Content[at + 1].type \in kinds => SetAside(kinds)' = SetAside(kinds) \cup {at + 1}
    BY <1>5, <1>6 DEF SetAside
<1>8. Content[at + 1].type \notin kinds => SetAside(kinds)' = SetAside(kinds)
    BY <1>5, <1>6 DEF SetAside
<1>9. SetAside(kinds) \in SUBSET Nat /\ \A i \in SetAside(kinds) : i < at + 1
    BY <1>2 DEF SetAside
<1> QED BY <1>1, <1>2, <1>4, <1>7, <1>8, <1>9

\* Each step of the loops sets a block aside.
LEMMA AsideTake ==
    ASSUME TypeOK, AsideInv, TakePart \/ TakeCall \/ TakeResult
    PROVE  AsideInv'
<1> SUFFICES ASSUME wire' \in {"openai", "gemini"}
             PROVE  /\ Laid(parts, Content, SetAside(PartKinds))'
                    /\ Laid(tool_calls, Content, SetAside(CallKinds))'
                    /\ Laid(results, Content, SetAside({"tool_result"}))'
    BY DEF AsideInv
<1> DEFINE block == Content[at + 1]
<1>1. NextBlock /\ wire' = wire
    BY DEF TakePart, TakeCall, TakeResult, NextBlock
<1>2. PICK pk : pk = PartKinds
    OBVIOUS
<1>3. PICK ck : ck = CallKinds
    OBVIOUS
<1>4. pk = PartKinds' /\ ck = CallKinds'
    BY <1>1, <1>2, <1>3 DEF PartKinds, CallKinds
<1>5. PICK sp : sp = SetAside(pk)
    OBVIOUS
<1>6. PICK sc : sc = SetAside(ck)
    OBVIOUS
<1>7. PICK sr : sr = SetAside({"tool_result"})
    OBVIOUS
<1>8. Laid(parts, Content, sp) /\ Laid(tool_calls, Content, sc) /\ Laid(results, Content, sr)
    BY <1>1, <1>2, <1>3, <1>5, <1>6, <1>7 DEF AsideInv
<1>9. /\ SetAside(PartKinds)' = IF block.type \in pk THEN sp \cup {at + 1} ELSE sp
      /\ SetAside(CallKinds)' = IF block.type \in ck THEN sc \cup {at + 1} ELSE sc
      /\ SetAside({"tool_result"})' = IF block.type = "tool_result" THEN sr \cup {at + 1} ELSE sr
  <2>1. SetAside(PartKinds)' = SetAside(pk)' /\ SetAside(CallKinds)' = SetAside(ck)'
      BY <1>4 DEF SetAside
  <2>2. SetAside(pk)' = IF block.type \in pk THEN sp \cup {at + 1} ELSE sp
      BY <1>1, <1>5, AsideTakes
  <2>3. SetAside(ck)' = IF block.type \in ck THEN sc \cup {at + 1} ELSE sc
      BY <1>1, <1>6, AsideTakes
  <2>4. SetAside({"tool_result"})' = IF block.type = "tool_result" THEN sr \cup {at + 1} ELSE sr
      BY <1>1, <1>7, AsideTakes
  <2> QED BY <2>1, <2>2, <2>3, <2>4
<1>10. /\ Content' = Content /\ at + 1 \in Nat /\ block \in Blocks
       /\ sp \in SUBSET Nat /\ (\A i \in sp : i < at + 1)
       /\ sc \in SUBSET Nat /\ (\A i \in sc : i < at + 1)
       /\ sr \in SUBSET Nat /\ (\A i \in sr : i < at + 1)
    BY <1>1, <1>5, <1>6, <1>7, AsideTakes
<1>11. parts \in Seq(Blocks) /\ tool_calls \in Seq(Blocks) /\ results \in Seq(Blocks)
    BY DEF TypeOK, TranslationTypeOK
<1>12. pk = (IF wire = "gemini" THEN {"text", "tool_use"} ELSE {"text"})
       /\ ck = (IF wire = "gemini" THEN {} ELSE {"tool_use"})
    BY <1>2, <1>3 DEF PartKinds, CallKinds
<1>13. CASE TakePart
  <2>1. block.type \in pk /\ block.type \notin ck /\ block.type # "tool_result"
      BY <1>1, <1>12, <1>13 DEF TakePart
  <2>2. parts' = Append(parts, block) /\ tool_calls' = tool_calls /\ results' = results
      BY <1>13 DEF TakePart
  <2> HIDE DEF block
  <2>3. Laid(Append(parts, block), Content, sp \cup {at + 1})
      BY <1>8, <1>10, <1>11, LaidTakes DEF block
  <2> QED BY <2>1, <2>2, <2>3, <1>8, <1>9, <1>10
<1>14. CASE TakeCall
  <2>1. block.type \notin pk /\ block.type \in ck /\ block.type # "tool_result"
      BY <1>1, <1>12, <1>14 DEF TakeCall
  <2>2. parts' = parts /\ tool_calls' = Append(tool_calls, block) /\ results' = results
      BY <1>14 DEF TakeCall
  <2> HIDE DEF block
  <2>3. Laid(Append(tool_calls, block), Content, sc \cup {at + 1})
      BY <1>8, <1>10, <1>11, LaidTakes DEF block
  <2> QED BY <2>1, <2>2, <2>3, <1>8, <1>9, <1>10
<1>15. CASE TakeResult
  <2>1. block.type \notin pk /\ block.type \notin ck /\ block.type = "tool_result"
      BY <1>1, <1>12, <1>15 DEF TakeResult
  <2>2. PICK laid : laid = IF wire = "openai" THEN block
                           ELSE [block EXCEPT !.name = resolve_tool_name(block.id)]
      OBVIOUS
  <2>3. parts' = parts /\ tool_calls' = tool_calls /\ results' = Append(results, laid)
      BY <1>15, <2>2 DEF TakeResult
  <2>4. laid \in Blocks /\ laid.type = block.type /\ laid.call = block.call
    <3>1. resolve_tool_name(block.id) \in Names \cup {NoName}
        BY <1>10, ResolveTyped DEF TypeOK, Blocks
    <3> QED BY <3>1, <2>2, <1>10 DEF Blocks
  <2> HIDE DEF block
  <2>5. Laid(Append(results, laid), Content, sr \cup {at + 1})
      BY <2>4, <1>8, <1>10, <1>11, LaidTakes DEF block
  <2> QED BY <2>1, <2>3, <2>5, <1>8, <1>9, <1>10
<1> QED BY <1>13, <1>14, <1>15

\* Between two messages nothing is set aside.
LEMMA AsideNone ==
    ASSUME at' = 0, parts' = <<>>, tool_calls' = <<>>, results' = <<>>
    PROVE  AsideInv'
<1>1. \A kinds : SetAside(kinds)' = {}
    BY DEF SetAside
<1>2. SetAside(PartKinds)' = {} /\ SetAside(CallKinds)' = {} /\ SetAside({"tool_result"})' = {}
    BY DEF SetAside
<1> QED BY <1>2, LaidNone DEF AsideInv

\* Steps beside the loops leave what is set aside.
LEMMA AsideFrame ==
    ASSUME AsideInv, UNCHANGED <<wire, messages, done, at, parts, tool_calls, results>>
    PROVE  AsideInv'
<1>1. Content' = Content /\ PartKinds' = PartKinds /\ CallKinds' = CallKinds
    BY DEF Content, PartKinds, CallKinds
<1>2. /\ SetAside(PartKinds)' = SetAside(PartKinds)
      /\ SetAside(CallKinds)' = SetAside(CallKinds)
      /\ SetAside({"tool_result"})' = SetAside({"tool_result"})
    BY <1>1 DEF SetAside
<1> QED BY <1>1, <1>2 DEF AsideInv

-----------------------------------------------------------------------------
(***************************************************************************)
(* What the turns of a request render.                                     *)
(***************************************************************************)
PartsOf(turns) == [t \in DOMAIN turns |-> turns[t].parts]
ContentsOf(msgs) == [m \in DOMAIN msgs |-> msgs[m].content]
Answering == {"assistant", "model"}

\* F says which block of the messages each block of the turns is: of those at S,
\* each is rendered once; blocks are written message by message, those of a kind in
\* their order, and a message's results before its text; an answer is one turn.
Rendering(msgs, turns, S, F) ==
    LET W == PartsOf(turns)
        V == ContentsOf(msgs)
        P == Places(W)
    IN  /\ F \in [P -> S]
        /\ \A q \in S : \E p \in P : F[p] = q
        /\ \A p \in P : /\ BlockAt(W, p).type = BlockAt(V, F[p]).type
                        /\ BlockAt(W, p).call = BlockAt(V, F[p]).call
                        /\ turns[p[1]].role \in Answering <=> msgs[F[p][1]].role = "assistant"
        /\ \A p, q \in P : Precedes(p, q) =>
              /\ F[p][1] <= F[q][1]
              /\ BlockAt(W, p).type = BlockAt(W, q).type => Precedes(F[p], F[q])
              /\ BlockAt(W, p).type = "text" /\ BlockAt(W, q).type = "tool_result" =>
                     F[p][1] # F[q][1]
        /\ \A p, q \in P : F[p][1] = F[q][1] /\ msgs[F[p][1]].role = "assistant" => p[1] = q[1]

Upto(msgs, n) == {q \in Places(ContentsOf(msgs)) : q[1] <= n}

RenderInv == wire \in {"openai", "gemini"} =>
    /\ done <= Len(messages) /\ (~translating => done = Len(messages))
    /\ \E F : Rendering(messages, body, Upto(messages, done), F)

\* The turns grow by new blocks, which stand at g.
Extends(old, fresh, role, new, g) ==
    LET P == Places(PartsOf(old))
        Q == Places(PartsOf(fresh))
    IN  /\ g \in [DOMAIN new -> Q]
        /\ \A p \in P : /\ p \in Q /\ BlockAt(PartsOf(fresh), p) = BlockAt(PartsOf(old), p)
                        /\ fresh[p[1]].role = old[p[1]].role
        /\ \A p \in Q : p \in P \/ \E k \in DOMAIN new : p = g[k]
        /\ \A k \in DOMAIN new : /\ BlockAt(PartsOf(fresh), g[k]) = new[k]
                                 /\ fresh[g[k][1]].role = role
                                 /\ \A p \in P : Precedes(p, g[k])
        /\ \A k, l \in DOMAIN new : k < l => Precedes(g[k], g[l])
        /\ role \in Answering => \A k, l \in DOMAIN new : g[k][1] = g[l][1]

\* h says which block of a content each of the new ones is; those of T all.
GatheredBy(h, new, content, T) ==
    /\ h \in [DOMAIN new -> T]
    /\ \A i \in T : \E k \in DOMAIN new : h[k] = i
    /\ \A k \in DOMAIN new : /\ new[k].type = content[h[k]].type
                             /\ new[k].call = content[h[k]].call
    /\ \A k, l \in DOMAIN new : k < l =>
          /\ new[k].type = new[l].type => h[k] < h[l]
          /\ ~(new[k].type = "text" /\ new[l].type = "tool_result")
Gathered(new, content, T) == \E h : GatheredBy(h, new, content, T)

\* The places of the turns.
LEMMA TurnPlaces ==
    ASSUME NEW turns \in Seq(Turns)
    PROVE  /\ \A p : p \in Places(PartsOf(turns)) <=>
                        /\ p = <<p[1], p[2]>> /\ p[1] \in DOMAIN turns
                        /\ p[2] \in DOMAIN turns[p[1]].parts
           /\ \A p \in Places(PartsOf(turns)) :
                  BlockAt(PartsOf(turns), p) = turns[p[1]].parts[p[2]]
           /\ \A p \in Places(PartsOf(turns)) : p \in Nat \X Nat
<1>1. /\ DOMAIN PartsOf(turns) = DOMAIN turns
      /\ \A t \in DOMAIN turns : PartsOf(turns)[t] = turns[t].parts
    BY DEF PartsOf
<1>2. \A p : p \in Places(PartsOf(turns)) <=>
                        /\ p = <<p[1], p[2]>> /\ p[1] \in DOMAIN PartsOf(turns)
                        /\ p[2] \in DOMAIN PartsOf(turns)[p[1]]
    BY PlacesAre
<1>3. \A p : p \in Places(PartsOf(turns)) <=>
                        /\ p = <<p[1], p[2]>> /\ p[1] \in DOMAIN turns
                        /\ p[2] \in DOMAIN turns[p[1]].parts
    BY <1>1, <1>2
<1>4. \A p \in Places(PartsOf(turns)) :
                  BlockAt(PartsOf(turns), p) = turns[p[1]].parts[p[2]]
    BY <1>1, <1>3 DEF BlockAt
<1>5. \A t \in DOMAIN turns : t \in Nat /\ \A i \in DOMAIN turns[t].parts : i \in Nat
  <2> TAKE t \in DOMAIN turns
  <2>1. turns[t] \in Turns /\ t \in Nat
      OBVIOUS
  <2>2. turns[t].parts \in Seq(Blocks)
      BY <2>1 DEF Turns
  <2> QED BY <2>1, <2>2
<1>6. \A p \in Places(PartsOf(turns)) : p \in Nat \X Nat
  <2> TAKE p \in Places(PartsOf(turns))
  <2>1. p = <<p[1], p[2]>> /\ p[1] \in Nat /\ p[2] \in Nat
      BY <1>3, <1>5
  <2> QED BY <2>1
<1> QED BY <1>3, <1>4, <1>6

\* Places in the n-th message.
PlacesIn(n, T) == {<<n, i>> : i \in T}

\* When those at S are rendered, the blocks at T of the n-th message may be, as new
\* blocks in that role: they are behind S, but for its results.
MayFollow(msgs, S, n, T, role, new) ==
    /\ S \in SUBSET (Nat \X Nat) /\ T \in SUBSET Nat
    /\ n \in Nat /\ n \in DOMAIN msgs
    /\ new \in Seq(Blocks) /\ Gathered(new, msgs[n].content, T)
    /\ new # <<>> => (role \in Answering <=> msgs[n].role = "assistant")
    /\ \A q \in S : \/ q[1] < n
                    \/ /\ q[1] = n /\ msgs[n].role # "assistant"
                       /\ BlockAt(ContentsOf(msgs), q).type = "tool_result"
                       /\ \A k \in DOMAIN new : new[k].type # "tool_result"

\* The new blocks are rendered behind the old ones.
LEMMA Grow ==
    ASSUME NEW msgs, NEW old \in Seq(Turns), NEW fresh \in Seq(Turns),
           NEW S, NEW F, Rendering(msgs, old, S, F),
           NEW role, NEW new, NEW g, Extends(old, fresh, role, new, g),
           NEW n, NEW T, MayFollow(msgs, S, n, T, role, new)
    PROVE  \E G : Rendering(msgs, fresh, S \cup PlacesIn(n, T), G)
<1>0. /\ S \in SUBSET (Nat \X Nat) /\ T \in SUBSET Nat
      /\ n \in Nat /\ n \in DOMAIN msgs
      /\ new \in Seq(Blocks) /\ Gathered(new, msgs[n].content, T)
      /\ new # <<>> => (role \in Answering <=> msgs[n].role = "assistant")
      /\ \A q \in S : \/ q[1] < n
                      \/ /\ q[1] = n /\ msgs[n].role # "assistant"
                         /\ BlockAt(ContentsOf(msgs), q).type = "tool_result"
                         /\ \A k \in DOMAIN new : new[k].type # "tool_result"
    BY DEF MayFollow
<1> USE <1>0
<1>1. PICK h : GatheredBy(h, new, msgs[n].content, T)
    BY DEF Gathered
<1>2. PICK W : W = PartsOf(old)
    OBVIOUS
<1>3. PICK X : X = PartsOf(fresh)
    OBVIOUS
<1>4. PICK V : V = ContentsOf(msgs)
    OBVIOUS
<1>5. PICK P : P = Places(W)
    OBVIOUS
<1>6. PICK Q : Q = Places(X)
    OBVIOUS
<1>7. (\A p \in P : p \in Nat \X Nat) /\ (\A p \in Q : p \in Nat \X Nat)
    BY <1>2, <1>3, <1>5, <1>6, TurnPlaces
<1>8. /\ F \in [P -> S]
      /\ \A q \in S : \E p \in P : F[p] = q
      /\ \A p \in P : /\ BlockAt(W, p).type = BlockAt(V, F[p]).type
                      /\ BlockAt(W, p).call = BlockAt(V, F[p]).call
                      /\ old[p[1]].role \in Answering <=> msgs[F[p][1]].role = "assistant"
      /\ \A p, q \in P : Precedes(p, q) =>
              /\ F[p][1] <= F[q][1]
              /\ BlockAt(W, p).type = BlockAt(W, q).type => Precedes(F[p], F[q])
              /\ BlockAt(W, p).type = "text" /\ BlockAt(W, q).type = "tool_result" =>
                     F[p][1] # F[q][1]
      /\ \A p, q \in P : F[p][1] = F[q][1] /\ msgs[F[p][1]].role = "assistant" => p[1] = q[1]
    BY <1>2, <1>4, <1>5 DEF Rendering
<1>9. /\ g \in [DOMAIN new -> Q]
      /\ \A p \in P : p \in Q /\ BlockAt(X, p) = BlockAt(W, p) /\ fresh[p[1]].role = old[p[1]].role
      /\ \A p \in Q : p \in P \/ \E k \in DOMAIN new : p = g[k]
      /\ \A k \in DOMAIN new : /\ BlockAt(X, g[k]) = new[k]
                               /\ fresh[g[k][1]].role = role
                               /\ \A p \in P : Precedes(p, g[k])
      /\ \A k, l \in DOMAIN new : k < l => Precedes(g[k], g[l])
      /\ role \in Answering => \A k, l \in DOMAIN new : g[k][1] = g[l][1]
    BY <1>2, <1>3, <1>5, <1>6 DEF Extends
<1>10. /\ h \in [DOMAIN new -> T]
       /\ \A i \in T : \E k \in DOMAIN new : h[k] = i
       /\ \A k \in DOMAIN new : /\ new[k].type = msgs[n].content[h[k]].type
                                /\ new[k].call = msgs[n].content[h[k]].call
       /\ \A k, l \in DOMAIN new : k < l =>
              /\ new[k].type = new[l].type => h[k] < h[l]
              /\ ~(new[k].type = "text" /\ new[l].type = "tool_result")
    BY <1>1 DEF GatheredBy
<1>11. DOMAIN new \subseteq Nat
    OBVIOUS
<1>12. \A p, q \in Nat \X Nat : ~(Precedes(p, q) /\ Precedes(q, p)) /\ ~Precedes(p, p)
    BY DEF Precedes
<1>13. \A k \in DOMAIN new : g[k] \in Q /\ g[k] \notin P
    BY <1>7, <1>9, <1>12
<1>14. \A k, l \in DOMAIN new : g[k] = g[l] => k = l
  <2> SUFFICES ASSUME NEW k \in DOMAIN new, NEW l \in DOMAIN new, g[k] = g[l], k # l PROVE FALSE
      OBVIOUS
  <2>1. ~Precedes(g[k], g[l]) /\ ~Precedes(g[l], g[k])
      BY <1>7, <1>12, <1>13
  <2>2. ~(k < l) /\ ~(l < k)
      BY <2>1, <1>9
  <2> QED BY <2>2, <1>11
<1> DEFINE Mark(k) == <<n, h[k]>>
           G == [p \in Q |-> IF p \in P THEN F[p] ELSE Mark(CHOOSE k \in DOMAIN new : g[k] = p)]
           R == S \cup {<<n, i>> : i \in T}
<1>15. \A p \in P : G[p] = F[p] /\ F[p] \in S /\ F[p][1] \in Nat /\ F[p][2] \in Nat
  <2> TAKE p \in P
  <2>1. p \in Q /\ F[p] \in S
      BY <1>8, <1>9
  <2>2. G[p] = F[p]
      BY <2>1
  <2>3. F[p] \in Nat \X Nat
      BY <2>1
  <2> QED BY <2>1, <2>2, <2>3
<1>16. \A k \in DOMAIN new : G[g[k]] = Mark(k)
  <2> TAKE k \in DOMAIN new
  <2>1. g[k] \in Q /\ g[k] \notin P
      BY <1>13
  <2>2. G[g[k]] = Mark(CHOOSE l \in DOMAIN new : g[l] = g[k])
      BY <2>1
  <2>3. (CHOOSE l \in DOMAIN new : g[l] = g[k]) = k
      BY <1>14
  <2> QED BY <2>2, <2>3
<1>17. \A k \in DOMAIN new : /\ Mark(k)[1] = n /\ Mark(k)[2] = h[k] /\ h[k] \in T /\ h[k] \in Nat
                             /\ Mark(k) \in R
    BY <1>10
<1>18. ASSUME NEW p \in Q PROVE p \in P \/ \E k \in DOMAIN new : p = g[k]
    BY <1>9
<1>19. DOMAIN G = Q
    OBVIOUS
<1>20. \A k \in DOMAIN new : BlockAt(V, Mark(k)) = msgs[n].content[h[k]]
    BY <1>4 DEF BlockAt, ContentsOf
<1>21. \A q \in S : q \in R
    OBVIOUS
<1>22. \A q \in R : q \in S \/ \E i \in T : q = <<n, i>>
    OBVIOUS
<1>g. PICK H : H = G
    OBVIOUS
<1>r. PICK U : U = R
    OBVIOUS
<1>23. /\ DOMAIN H = Q
       /\ \A p \in P : H[p] = F[p]
       /\ \A k \in DOMAIN new : H[g[k]] = Mark(k) /\ Mark(k) \in U
       /\ \A q \in S : q \in U
       /\ \A q \in U : q \in S \/ \E i \in T : q = <<n, i>>
    BY <1>g, <1>r, <1>15, <1>16, <1>17, <1>19, <1>21, <1>22
<1>f. H = [p \in DOMAIN H |-> H[p]]
    BY <1>g
<1>24. \A k \in DOMAIN new : \A i \in T : h[k] = i => Mark(k) = <<n, i>>
    OBVIOUS
<1> HIDE DEF Mark, G, R
<1>25. \A p \in Q : H[p] \in U
    BY <1>15, <1>18, <1>23
<1>26. H \in [Q -> U]
    BY <1>23, <1>25, <1>f
<1>27. \A q \in U : \E p \in Q : H[p] = q
  <2> TAKE q \in U
  <2>1. CASE q \in S
      BY <2>1, <1>8, <1>9, <1>23
  <2>2. CASE q \notin S
    <3>1. PICK i \in T : q = <<n, i>>
        BY <2>2, <1>23
    <3>2. PICK k \in DOMAIN new : h[k] = i
        BY <1>10
    <3> QED BY <3>1, <3>2, <1>13, <1>23, <1>24
  <2> QED BY <2>1, <2>2
<1>28. ASSUME NEW p \in Q
       PROVE  /\ BlockAt(X, p).type = BlockAt(V, H[p]).type
              /\ BlockAt(X, p).call = BlockAt(V, H[p]).call
              /\ fresh[p[1]].role \in Answering <=> msgs[H[p][1]].role = "assistant"
  <2>1. CASE p \in P
    <3>1. BlockAt(X, p) = BlockAt(W, p) /\ fresh[p[1]].role = old[p[1]].role /\ H[p] = F[p]
        BY <2>1, <1>9, <1>23
    <3>2. /\ BlockAt(W, p).type = BlockAt(V, F[p]).type
          /\ BlockAt(W, p).call = BlockAt(V, F[p]).call
          /\ old[p[1]].role \in Answering <=> msgs[F[p][1]].role = "assistant"
        BY <2>1, <1>8
    <3> QED BY <3>1, <3>2
  <2>2. ASSUME NEW k \in DOMAIN new, p = g[k]
        PROVE  /\ BlockAt(X, p).type = BlockAt(V, H[p]).type
               /\ BlockAt(X, p).call = BlockAt(V, H[p]).call
               /\ fresh[p[1]].role \in Answering <=> msgs[H[p][1]].role = "assistant"
    <3>1. BlockAt(X, p) = new[k] /\ fresh[p[1]].role = role
        BY <2>2, <1>9
    <3>2. H[p] = Mark(k) /\ H[p][1] = n
        BY <2>2, <1>17, <1>23
    <3>3. BlockAt(V, H[p]) = msgs[n].content[h[k]]
        BY <3>2, <1>20
    <3>4. new # <<>>
        BY <2>2
    <3> QED BY <3>1, <3>2, <3>3, <3>4, <1>10
  <2> QED BY <2>1, <2>2, <1>18
<1>29. ASSUME NEW p \in Q, NEW q \in Q, Precedes(p, q)
       PROVE  /\ H[p][1] <= H[q][1]
              /\ BlockAt(X, p).type = BlockAt(X, q).type => Precedes(H[p], H[q])
              /\ BlockAt(X, p).type = "text" /\ BlockAt(X, q).type = "tool_result" =>
                     H[p][1] # H[q][1]
  <2>1. CASE p \in P /\ q \in P
    <3>1. /\ BlockAt(X, p) = BlockAt(W, p) /\ H[p] = F[p]
          /\ BlockAt(X, q) = BlockAt(W, q) /\ H[q] = F[q]
        BY <2>1, <1>9, <1>23
    <3> QED BY <3>1, <2>1, <1>29, <1>8
  <2>2. ASSUME p \in P, NEW l \in DOMAIN new, q = g[l]
        PROVE  /\ H[p][1] <= H[q][1]
               /\ BlockAt(X, p).type = BlockAt(X, q).type => Precedes(H[p], H[q])
               /\ BlockAt(X, p).type = "text" /\ BlockAt(X, q).type = "tool_result" =>
                     H[p][1] # H[q][1]
    <3>1. H[q] = Mark(l) /\ H[q][1] = n /\ BlockAt(X, q) = new[l]
        BY <2>2, <1>9, <1>17, <1>23
    <3>2. /\ BlockAt(X, p) = BlockAt(W, p) /\ H[p] = F[p] /\ F[p] \in S /\ F[p][1] \in Nat
          /\ BlockAt(W, p).type = BlockAt(V, F[p]).type
        BY <2>2, <1>8, <1>9, <1>15, <1>23
    <3>3. CASE F[p][1] < n
        BY <3>1, <3>2, <3>3 DEF Precedes
    <3>4. CASE ~(F[p][1] < n)
      <4>1. F[p][1] = n /\ BlockAt(X, p).type = "tool_result" /\ BlockAt(X, q).type # "tool_result"
          BY <1>4, <3>1, <3>2, <3>4
      <4> QED BY <4>1, <3>1, <3>2
    <3> QED BY <3>3, <3>4
  <2>3. ASSUME q \in P, NEW k \in DOMAIN new, p = g[k] PROVE FALSE
    <3>1. Precedes(q, p)
        BY <2>3, <1>9
    <3> QED BY <3>1, <1>7, <1>12, <1>29
  <2>4. ASSUME NEW k \in DOMAIN new, NEW l \in DOMAIN new, p = g[k], q = g[l]
        PROVE  /\ H[p][1] <= H[q][1]
               /\ BlockAt(X, p).type = BlockAt(X, q).type => Precedes(H[p], H[q])
               /\ BlockAt(X, p).type = "text" /\ BlockAt(X, q).type = "tool_result" =>
                     H[p][1] # H[q][1]
    <3>1. /\ H[p] = Mark(k) /\ H[p][1] = n /\ H[p][2] = h[k] /\ BlockAt(X, p) = new[k]
          /\ H[q] = Mark(l) /\ H[q][1] = n /\ H[q][2] = h[l] /\ BlockAt(X, q) = new[l]
        BY <2>4, <1>9, <1>17, <1>23
    <3>2. k < l
      <4>1. ~(l < k)
        <5>1. l < k => Precedes(q, p)
            BY <2>4, <1>9
        <5> QED BY <5>1, <1>7, <1>12, <1>29
      <4>2. k # l
          BY <2>4, <1>7, <1>12, <1>29
      <4> QED BY <4>1, <4>2, <1>11
    <3> QED BY <3>1, <3>2, <1>10 DEF Precedes
  <2> QED BY <2>1, <2>2, <2>3, <2>4, <1>18
<1>30. ASSUME NEW p \in Q, NEW q \in Q, H[p][1] = H[q][1], msgs[H[p][1]].role = "assistant"
       PROVE  p[1] = q[1]
  <2>1. CASE p \in P /\ q \in P
    <3>1. H[p] = F[p] /\ H[q] = F[q]
        BY <2>1, <1>23
    <3> QED BY <3>1, <2>1, <1>30, <1>8
  <2>2. ASSUME NEW r \in P, NEW l \in DOMAIN new, H[r][1] = H[g[l]][1], msgs[H[r][1]].role = "assistant"
        PROVE  FALSE
    <3>1. H[r][1] = n /\ H[r] \in S
        BY <2>2, <1>15, <1>17, <1>23
    <3> QED BY <3>1, <2>2
  <2>3. ASSUME NEW k \in DOMAIN new, NEW l \in DOMAIN new, p = g[k], q = g[l]
        PROVE  p[1] = q[1]
    <3>1. H[p][1] = n
        BY <2>3, <1>17, <1>23
    <3>2. new # <<>>
        BY <2>3
    <3>3. role \in Answering
        BY <3>1, <3>2, <1>30
    <3> QED BY <2>3, <3>3, <1>9
  <2>4. p \in P \/ \E k \in DOMAIN new : p = g[k]
      BY <1>18
  <2>5. q \in P \/ \E k \in DOMAIN new : q = g[k]
      BY <1>18
  <2> QED BY <2>1, <2>2, <2>3, <2>4, <2>5, <1>30
<1>31. Rendering(msgs, fresh, U, H)
    BY <1>3, <1>4, <1>6, <1>26, <1>27, <1>28, <1>29, <1>30 DEF Rendering
<1> QED BY <1>31, <1>r DEF R, PlacesIn

\* A turn behind the others.
LEMMA TurnExtends ==
    ASSUME NEW old \in Seq(Turns), NEW role \in {"user", "assistant", "model", "tool"},
           NEW new \in Seq(Blocks)
    PROVE  /\ Append(old, Turn(role, new)) \in Seq(Turns)
           /\ \E g : Extends(old, Append(old, Turn(role, new)), role, new, g)
<1> DEFINE turn == Turn(role, new)
           fresh == Append(old, turn)
           n == Len(old) + 1
           g == [k \in DOMAIN new |-> <<n, k>>]
<1>1. turn \in Turns /\ turn.role = role /\ turn.parts = new
    BY DEF Turn, Turns
<1> HIDE DEF turn
<1>2. /\ fresh \in Seq(Turns) /\ n \in Nat /\ DOMAIN old = 1..Len(old) /\ Len(old) \in Nat
      /\ DOMAIN fresh = 1..n /\ fresh[n] = turn
      /\ \A t \in DOMAIN old : fresh[t] = old[t]
    BY <1>1
<1>3. \A t : t \in DOMAIN fresh <=> t \in DOMAIN old \/ t = n
    BY <1>2
<1>4. \A t \in DOMAIN old : t < n
    BY <1>2
<1>5. \A k \in DOMAIN new : k \in Nat
    OBVIOUS
<1>6. /\ DOMAIN g = DOMAIN new
      /\ \A k \in DOMAIN new : g[k] = <<n, k>> /\ g[k][1] = n /\ g[k][2] = k
      /\ \A P : (\A k \in DOMAIN new : g[k] \in P) => g \in [DOMAIN new -> P]
    OBVIOUS
<1> HIDE DEF fresh, n, g
<1>7. PICK P : P = Places(PartsOf(old))
    OBVIOUS
<1>8. PICK Q : Q = Places(PartsOf(fresh))
    OBVIOUS
<1>9. /\ \A p : p \in P <=> p = <<p[1], p[2]>> /\ p[1] \in DOMAIN old /\ p[2] \in DOMAIN old[p[1]].parts
      /\ \A p \in P : BlockAt(PartsOf(old), p) = old[p[1]].parts[p[2]]
    BY <1>7, TurnPlaces
<1>10. /\ \A p : p \in Q <=> p = <<p[1], p[2]>> /\ p[1] \in DOMAIN fresh /\ p[2] \in DOMAIN fresh[p[1]].parts
       /\ \A p \in Q : BlockAt(PartsOf(fresh), p) = fresh[p[1]].parts[p[2]]
    BY <1>2, <1>8, TurnPlaces
<1>11. \A k \in DOMAIN new : /\ g[k] \in Q /\ BlockAt(PartsOf(fresh), g[k]) = new[k]
                             /\ fresh[g[k][1]].role = role
                             /\ \A p \in P : Precedes(p, g[k])
  <2> TAKE k \in DOMAIN new
  <2>1. g[k] = <<g[k][1], g[k][2]>> /\ g[k][1] = n /\ g[k][2] = k /\ fresh[n].parts = new /\ n \in DOMAIN fresh
      BY <1>1, <1>2, <1>3, <1>6
  <2>2. g[k] \in Q
      BY <2>1, <1>10
  <2>3. BlockAt(PartsOf(fresh), g[k]) = new[k]
      BY <2>1, <2>2, <1>10
  <2>4. \A p \in P : Precedes(p, g[k])
      BY <2>1, <1>4, <1>9 DEF Precedes
  <2> QED BY <2>1, <2>2, <2>3, <2>4, <1>1, <1>2
<1>12. \A p \in P : /\ p \in Q /\ BlockAt(PartsOf(fresh), p) = BlockAt(PartsOf(old), p)
                    /\ fresh[p[1]].role = old[p[1]].role
    BY <1>2, <1>3, <1>9, <1>10
<1>13. ASSUME NEW p \in Q PROVE p \in P \/ \E k \in DOMAIN new : p = g[k]
  <2>1. p = <<p[1], p[2]>> /\ p[1] \in DOMAIN fresh /\ p[2] \in DOMAIN fresh[p[1]].parts
      BY <1>10
  <2>2. CASE p[1] \in DOMAIN old
      BY <2>1, <2>2, <1>2, <1>9
  <2>3. CASE p[1] = n
    <3>1. p[2] \in DOMAIN new
        BY <2>1, <2>3, <1>1, <1>2
    <3> QED BY <2>1, <2>3, <3>1, <1>6
  <2> QED BY <2>1, <2>2, <2>3, <1>3
<1>14. \A k, l \in DOMAIN new : /\ k < l => Precedes(g[k], g[l])
                                /\ g[k][1] = g[l][1]
    BY <1>6 DEF Precedes
<1>15. g \in [DOMAIN new -> Q]
    BY <1>6, <1>11
<1>16. Extends(old, fresh, role, new, g)
    BY <1>7, <1>8, <1>11, <1>12, <1>13, <1>14, <1>15 DEF Extends
<1> QED BY <1>2, <1>16 DEF fresh, turn

\* Turns of one result each, behind the others.
LEMMA ResultsExtend ==
    ASSUME NEW old \in Seq(Turns), NEW new \in Seq(Blocks), NEW fresh,
           fresh = old \o [i \in DOMAIN new |-> Turn("tool", <<new[i]>>)]
    PROVE  /\ fresh \in Seq(Turns)
           /\ \E g : Extends(old, fresh, "tool", new, g)
<1> DEFINE added == [i \in DOMAIN new |-> Turn("tool", <<new[i]>>)]
           l == Len(old)
           g == [k \in DOMAIN new |-> <<l + k, 1>>]
<1>1. /\ DOMAIN new = 1..Len(new) /\ Len(new) \in Nat
      /\ \A k \in DOMAIN new : new[k] \in Blocks
    OBVIOUS
<1>2. \A k \in DOMAIN new : /\ added[k] \in Turns /\ added[k].role = "tool"
                            /\ added[k].parts = <<new[k]>>
  <2> TAKE k \in DOMAIN new
  <2>1. added[k] = [role |-> "tool", parts |-> <<new[k]>>]
      BY DEF Turn
  <2> HIDE DEF added
  <2>2. <<new[k]>> \in Seq(Blocks)
      BY <1>1
  <2>3. added[k].role = "tool" /\ added[k].parts = <<new[k]>>
      BY <2>1
  <2>4. PICK one : one = <<new[k]>>
      OBVIOUS
  <2>5. added[k] = [role |-> "tool", parts |-> one] /\ one \in Seq(Blocks)
      BY <2>1, <2>2, <2>4
  <2>6. added[k] \in Turns
      BY <2>5 DEF Turns
  <2> QED BY <2>3, <2>6
<1>3. added \in Seq(Turns) /\ Len(added) = Len(new) /\ DOMAIN added = DOMAIN new
    BY <1>1, <1>2
<1>0. fresh = old \o added
    OBVIOUS
<1> HIDE DEF added
<1>4. /\ fresh \in Seq(Turns) /\ l \in Nat /\ DOMAIN old = 1..l
      /\ DOMAIN fresh = 1..(l + Len(new))
      /\ \A t \in DOMAIN old : fresh[t] = old[t]
      /\ \A k \in DOMAIN new : fresh[l + k] = added[k]
    BY <1>0, <1>1, <1>3
<1>5. \A t : t \in DOMAIN fresh <=> t \in DOMAIN old \/ \E k \in DOMAIN new : t = l + k
  <2>1. \A t \in 1..(l + Len(new)) : t \in 1..l \/ (t - l \in 1..Len(new) /\ t = l + (t - l))
      BY <1>1, <1>4
  <2>2. \A k \in 1..Len(new) : l + k \in 1..(l + Len(new))
      BY <1>1, <1>4
  <2>3. \A t \in 1..l : t \in 1..(l + Len(new))
      BY <1>1, <1>4
  <2> QED BY <2>1, <2>2, <2>3, <1>1, <1>4
<1>6. \A t \in DOMAIN old : \A k \in DOMAIN new : t < l + k
    BY <1>1, <1>4
<1>7. /\ DOMAIN g = DOMAIN new
      /\ \A k \in DOMAIN new : g[k] = <<l + k, 1>> /\ g[k][1] = l + k /\ g[k][2] = 1
      /\ \A P : (\A k \in DOMAIN new : g[k] \in P) => g \in [DOMAIN new -> P]
    OBVIOUS
<1>8. \A i, k \in DOMAIN new : i < k => l + i < l + k
    BY <1>1, <1>4
<1> HIDE DEF g, l
<1>9. PICK P : P = Places(PartsOf(old))
    OBVIOUS
<1>10. PICK Q : Q = Places(PartsOf(fresh))
    OBVIOUS
<1>11. /\ \A p : p \in P <=> p = <<p[1], p[2]>> /\ p[1] \in DOMAIN old /\ p[2] \in DOMAIN old[p[1]].parts
       /\ \A p \in P : BlockAt(PartsOf(old), p) = old[p[1]].parts[p[2]]
    BY <1>9, TurnPlaces
<1>12. /\ \A p : p \in Q <=> p = <<p[1], p[2]>> /\ p[1] \in DOMAIN fresh /\ p[2] \in DOMAIN fresh[p[1]].parts
       /\ \A p \in Q : BlockAt(PartsOf(fresh), p) = fresh[p[1]].parts[p[2]]
    BY <1>4, <1>10, TurnPlaces
<1>13. \A k \in DOMAIN new : /\ l + k \in DOMAIN fresh /\ fresh[l + k].role = "tool"
                             /\ DOMAIN fresh[l + k].parts = {1} /\ fresh[l + k].parts[1] = new[k]
  <2> TAKE k \in DOMAIN new
  <2>1. l + k \in DOMAIN fresh /\ fresh[l + k].role = "tool" /\ fresh[l + k].parts = <<new[k]>>
      BY <1>2, <1>4, <1>5
  <2>2. DOMAIN <<new[k]>> = {1} /\ <<new[k]>>[1] = new[k]
      OBVIOUS
  <2> QED BY <2>1, <2>2
<1>14. \A k \in DOMAIN new : /\ g[k] \in Q /\ BlockAt(PartsOf(fresh), g[k]) = new[k]
                             /\ fresh[g[k][1]].role = "tool"
                             /\ \A p \in P : Precedes(p, g[k])
  <2> TAKE k \in DOMAIN new
  <2>1. g[k] = <<g[k][1], g[k][2]>> /\ g[k][1] = l + k /\ g[k][2] = 1
      BY <1>7
  <2>2. g[k] \in Q
      BY <2>1, <1>12, <1>13
  <2>3. BlockAt(PartsOf(fresh), g[k]) = new[k]
    <3>1. BlockAt(PartsOf(fresh), g[k]) = fresh[g[k][1]].parts[g[k][2]]
        BY <2>2, <1>12
    <3> QED BY <2>1, <3>1, <1>13
  <2>4. \A p \in P : Precedes(p, g[k])
      BY <2>1, <1>6, <1>11 DEF Precedes
  <2> QED BY <2>1, <2>2, <2>3, <2>4, <1>13
<1>15. \A p \in P : /\ p \in Q /\ BlockAt(PartsOf(fresh), p) = BlockAt(PartsOf(old), p)
                    /\ fresh[p[1]].role = old[p[1]].role
  <2> TAKE p \in P
  <2>1. /\ p = <<p[1], p[2]>> /\ p[1] \in DOMAIN old /\ p[2] \in DOMAIN old[p[1]].parts
        /\ BlockAt(PartsOf(old), p) = old[p[1]].parts[p[2]]
      BY <1>11
  <2>2. fresh[p[1]] = old[p[1]] /\ p[1] \in DOMAIN fresh
      BY <2>1, <1>4, <1>5
  <2>3. p \in Q
      BY <2>1, <2>2, <1>12
  <2>4. BlockAt(PartsOf(fresh), p) = fresh[p[1]].parts[p[2]]
      BY <2>3, <1>12
  <2> QED BY <2>1, <2>2, <2>3, <2>4
<1>16. ASSUME NEW p \in Q PROVE p \in P \/ \E k \in DOMAIN new : p = g[k]
  <2>1. p = <<p[1], p[2]>> /\ p[1] \in DOMAIN fresh /\ p[2] \in DOMAIN fresh[p[1]].parts
      BY <1>12
  <2>2. CASE p[1] \in DOMAIN old
      BY <2>1, <2>2, <1>4, <1>11
  <2>3. ASSUME NEW k \in DOMAIN new, p[1] = l + k PROVE p = g[k]
    <3>1. p[2] = 1
        BY <2>1, <2>3, <1>13
    <3> QED BY <2>1, <2>3, <3>1, <1>7
  <2> QED BY <2>1, <2>2, <2>3, <1>5
<1>17. \A i, k \in DOMAIN new : i < k => Precedes(g[i], g[k])
    BY <1>7, <1>8 DEF Precedes
<1>18. g \in [DOMAIN new -> Q]
    BY <1>7, <1>14
<1>19. Extends(old, fresh, "tool", new, g)
    BY <1>9, <1>10, <1>14, <1>15, <1>16, <1>17, <1>18 DEF Extends, Answering
<1> QED BY <1>4, <1>19

\* append, onto the last turn or behind it.
LEMMA AppendExtends ==
    ASSUME NEW old \in Seq(Turns), NEW role \in {"user", "assistant", "model", "tool"},
           NEW new \in Seq(Blocks)
    PROVE  /\ append(old, role, new) \in Seq(Turns)
           /\ \E g : Extends(old, append(old, role, new), role, new, g)
<1>1. CASE new = <<>>
  <2>1. append(old, role, new) = old
      BY <1>1 DEF append
  <2>2. DOMAIN new = {} /\ <<>> \in [DOMAIN new -> Places(PartsOf(old))]
      BY <1>1
  <2>3. Extends(old, old, role, new, <<>>)
      BY <2>2 DEF Extends
  <2> QED BY <2>1, <2>3
<1>2. CASE new # <<>> /\ ~(old # <<>> /\ old[Len(old)].role = role)
  <2>1. append(old, role, new) = Append(old, Turn(role, new))
      BY <1>2 DEF append, Turn
  <2> QED BY <2>1, TurnExtends
<1>3. CASE new # <<>> /\ old # <<>> /\ old[Len(old)].role = role
  <2> DEFINE n == Len(old)
             given == old[n].parts
             l == Len(given)
             longer == given \o new
             fresh == [old EXCEPT ![n].parts = @ \o new]
             g == [k \in DOMAIN new |-> <<n, l + k>>]
  <2>1. append(old, role, new) = fresh
      BY <1>3 DEF append
  <2>2. n \in Nat /\ DOMAIN old = 1..n /\ n \in DOMAIN old /\ old[n] \in Turns
      BY <1>3
  <2>3. given \in Seq(Blocks) /\ l \in Nat /\ DOMAIN given = 1..l
      BY <2>2 DEF Turns
  <2>4. /\ longer \in Seq(Blocks) /\ DOMAIN longer = 1..(l + Len(new)) /\ Len(new) \in Nat
        /\ DOMAIN new = 1..Len(new)
        /\ \A i \in DOMAIN given : longer[i] = given[i]
        /\ \A k \in DOMAIN new : longer[l + k] = new[k]
    <3> HIDE DEF given
    <3> QED BY <2>3
  <2>5. /\ DOMAIN fresh = DOMAIN old /\ fresh[n] = [old[n] EXCEPT !.parts = longer]
        /\ \A t \in DOMAIN old : t # n => fresh[t] = old[t]
      BY <2>2
  <2>6. fresh[n] \in Turns /\ fresh[n].parts = longer /\ fresh[n].role = old[n].role
    <3> HIDE DEF longer
    <3> QED BY <2>2, <2>4, <2>5 DEF Turns
  <2>7. fresh \in Seq(Turns)
    <3>1. \A t \in 1..n : fresh[t] \in Turns
        BY <2>2, <2>5, <2>6
    <3>2. fresh = [t \in 1..n |-> fresh[t]]
        BY <2>2
    <3> HIDE DEF fresh
    <3> QED BY <2>2, <3>1, <3>2
  <2>8. \A i : i \in DOMAIN longer <=> i \in DOMAIN given \/ \E k \in DOMAIN new : i = l + k
    <3> HIDE DEF l, given, longer
    <3>1. \A i \in 1..(l + Len(new)) : i \in 1..l \/ (i - l \in 1..Len(new) /\ i = l + (i - l))
        BY <2>3, <2>4
    <3>2. \A k \in 1..Len(new) : l + k \in 1..(l + Len(new))
        BY <2>3, <2>4
    <3>3. \A i \in 1..l : i \in 1..(l + Len(new))
        BY <2>3, <2>4
    <3> QED BY <3>1, <3>2, <3>3, <2>3, <2>4
  <2>9. \A i \in DOMAIN given : \A k \in DOMAIN new : i < l + k
    <3> HIDE DEF l, given, longer
    <3> QED BY <2>3, <2>4
  <2>10. \A i, k \in DOMAIN new : i < k => l + i < l + k
    <3> HIDE DEF l, given, longer
    <3> QED BY <2>3, <2>4
  <2>11. /\ DOMAIN g = DOMAIN new
         /\ \A k \in DOMAIN new : g[k] = <<n, l + k>> /\ g[k][1] = n /\ g[k][2] = l + k
         /\ \A P : (\A k \in DOMAIN new : g[k] \in P) => g \in [DOMAIN new -> P]
      OBVIOUS
  <2>12. old[n].parts = given
      OBVIOUS
  <2>13. \A t \in DOMAIN old : t = n \/ t < n
      BY <2>2
  <2> HIDE DEF fresh, longer, given, l, g, n
  <2>14. PICK P : P = Places(PartsOf(old))
      OBVIOUS
  <2>15. PICK Q : Q = Places(PartsOf(fresh))
      OBVIOUS
  <2>16. /\ \A p : p \in P <=> p = <<p[1], p[2]>> /\ p[1] \in DOMAIN old /\ p[2] \in DOMAIN old[p[1]].parts
         /\ \A p \in P : BlockAt(PartsOf(old), p) = old[p[1]].parts[p[2]]
      BY <2>14, TurnPlaces
  <2>17. /\ \A p : p \in Q <=> p = <<p[1], p[2]>> /\ p[1] \in DOMAIN fresh /\ p[2] \in DOMAIN fresh[p[1]].parts
         /\ \A p \in Q : BlockAt(PartsOf(fresh), p) = fresh[p[1]].parts[p[2]]
      BY <2>7, <2>15, TurnPlaces
  <2>18. \A k \in DOMAIN new : /\ g[k] \in Q /\ BlockAt(PartsOf(fresh), g[k]) = new[k]
                               /\ fresh[g[k][1]].role = role
                               /\ \A p \in P : Precedes(p, g[k])
    <3> TAKE k \in DOMAIN new
    <3>1. g[k] = <<g[k][1], g[k][2]>> /\ g[k][1] = n /\ g[k][2] = l + k
        BY <2>11
    <3>2. g[k] \in Q
        BY <3>1, <2>2, <2>5, <2>6, <2>8, <2>17
    <3>3. BlockAt(PartsOf(fresh), g[k]) = new[k]
        BY <3>1, <3>2, <2>4, <2>6, <2>17
    <3>4. \A p \in P : Precedes(p, g[k])
      <4> TAKE p \in P
      <4>1. p[1] = n \/ p[1] < n
          BY <2>13, <2>16
      <4>2. p[1] = n => p[2] < l + k
          BY <2>9, <2>12, <2>16
      <4> QED BY <3>1, <4>1, <4>2 DEF Precedes
    <3>5. fresh[g[k][1]].role = role
        BY <3>1, <2>6, <1>3 DEF n
    <3> QED BY <3>2, <3>3, <3>4, <3>5
  <2>19. ASSUME NEW p \in P
         PROVE  /\ p \in Q /\ BlockAt(PartsOf(fresh), p) = BlockAt(PartsOf(old), p)
                /\ fresh[p[1]].role = old[p[1]].role
    <3>1. CASE p[1] = n
      <4>1. p[2] \in DOMAIN given /\ p[2] \in DOMAIN longer /\ longer[p[2]] = given[p[2]]
          BY <3>1, <2>4, <2>8, <2>12, <2>16
      <4>2. p \in Q
          BY <3>1, <4>1, <2>2, <2>5, <2>6, <2>16, <2>17
      <4> QED BY <3>1, <4>1, <4>2, <2>6, <2>12, <2>16, <2>17
    <3>2. CASE p[1] # n
        BY <3>2, <2>5, <2>16, <2>17
    <3> QED BY <3>1, <3>2
  <2>20. ASSUME NEW p \in Q PROVE p \in P \/ \E k \in DOMAIN new : p = g[k]
    <3>1. p = <<p[1], p[2]>> /\ p[1] \in DOMAIN old /\ p[2] \in DOMAIN fresh[p[1]].parts
        BY <2>5, <2>17
    <3>2. CASE p[1] = n
        BY <3>1, <3>2, <2>6, <2>8, <2>11, <2>12, <2>16
    <3>3. CASE p[1] # n
        BY <3>1, <3>3, <2>5, <2>16
    <3> QED BY <3>2, <3>3
  <2>21. \A i, k \in DOMAIN new : i < k => Precedes(g[i], g[k])
      BY <2>10, <2>11 DEF Precedes
  <2>22. \A i, k \in DOMAIN new : g[i][1] = g[k][1]
      BY <2>11
  <2>23. g \in [DOMAIN new -> Q]
      BY <2>11, <2>18
  <2>24. Extends(old, fresh, role, new, g)
      BY <2>14, <2>15, <2>18, <2>19, <2>20, <2>21, <2>22, <2>23 DEF Extends
  <2> QED BY <2>1, <2>7, <2>24
<1> QED BY <1>1, <1>2, <1>3

\* What is set aside in one list can be written as it is, unless it has both results
\* and text.
LEMMA LaidGathers ==
    ASSUME NEW list \in Seq(Blocks), NEW content, NEW T \in SUBSET Nat, Laid(list, content, T),
           \/ \A i \in T : content[i].type # "tool_result"
           \/ \A i \in T : content[i].type # "text"
    PROVE  Gathered(list, content, T)
<1>1. PICK h \in [DOMAIN list -> T] : LaidBy(h, list, content, T)
    BY DEF Laid
<1>2. \A k \in DOMAIN list : h[k] \in T /\ list[k].type = content[h[k]].type
    BY <1>1 DEF LaidBy
<1>3. \/ \A k \in DOMAIN list : list[k].type # "tool_result"
      \/ \A k \in DOMAIN list : list[k].type # "text"
    BY <1>2
<1>4. GatheredBy(h, list, content, T)
    BY <1>1, <1>3 DEF LaidBy, GatheredBy
<1> QED BY <1>4 DEF Gathered

\* Two lists of different kinds, one behind the other.
LEMMA LaidTogether ==
    ASSUME NEW first \in Seq(Blocks), NEW second \in Seq(Blocks), NEW content,
           NEW A \in SUBSET Nat, NEW B \in SUBSET Nat,
           Laid(first, content, A), Laid(second, content, B),
           \A i \in A, j \in B : content[i].type # content[j].type,
           \A i \in A \cup B : content[i].type # "tool_result"
    PROVE  first \o second \in Seq(Blocks) /\ Gathered(first \o second, content, A \cup B)
<1>1. PICK f \in [DOMAIN first -> A] : LaidBy(f, first, content, A)
    BY DEF Laid
<1>2. PICK g \in [DOMAIN second -> B] : LaidBy(g, second, content, B)
    BY DEF Laid
<1> DEFINE list == first \o second
           n == Len(first)
           m == Len(second)
           h == [k \in 1..(n + m) |-> IF k \in 1..n THEN f[k] ELSE g[k - n]]
<1>3. /\ n \in Nat /\ m \in Nat /\ DOMAIN first = 1..n /\ DOMAIN second = 1..m
      /\ list \in Seq(Blocks) /\ DOMAIN list = 1..(n + m)
      /\ \A k \in 1..n : list[k] = first[k]
      /\ \A k \in 1..m : list[n + k] = second[k]
    OBVIOUS
<1> HIDE DEF list, n, m
<1>4. /\ \A k \in 1..(n + m) : k \in 1..n \/ (k - n \in 1..m /\ k = n + (k - n) /\ k \notin 1..n)
      /\ \A k \in 1..n : k \in 1..(n + m)
      /\ \A k \in 1..m : n + k \in 1..(n + m) /\ n + k \notin 1..n /\ (n + k) - n = k
    BY <1>3
<1>5. /\ \A k \in 1..n : h[k] = f[k] /\ f[k] \in A
      /\ \A k \in 1..m : h[n + k] = g[k] /\ g[k] \in B
    BY <1>1, <1>2, <1>3, <1>4
<1>6. \A k \in 1..(n + m) : k \in 1..n \/ \E l \in 1..m : k = n + l
    BY <1>4
<1>h. h = [k \in 1..(n + m) |-> h[k]]
    OBVIOUS
<1> HIDE DEF h
<1>7. h \in [DOMAIN list -> A \cup B]
  <2>1. ASSUME NEW k \in 1..(n + m) PROVE h[k] \in A \cup B
    <3>1. CASE k \in 1..n
        BY <3>1, <1>5
    <3>2. ASSUME NEW l \in 1..m, k = n + l PROVE h[k] \in B
        BY <3>2, <1>5
    <3> QED BY <3>1, <3>2, <1>6
  <2> QED BY <2>1, <1>3, <1>h
<1>8. /\ \A k, l \in 1..n : k < l => f[k] < f[l]
      /\ \A i \in A : \E k \in 1..n : f[k] = i
      /\ \A k \in 1..n : first[k].type = content[f[k]].type /\ first[k].call = content[f[k]].call
    BY <1>1, <1>3 DEF LaidBy
<1>9. /\ \A k, l \in 1..m : k < l => g[k] < g[l]
      /\ \A i \in B : \E k \in 1..m : g[k] = i
      /\ \A k \in 1..m : second[k].type = content[g[k]].type /\ second[k].call = content[g[k]].call
    BY <1>2, <1>3 DEF LaidBy
<1>10. \A i \in A \cup B : \E k \in DOMAIN list : h[k] = i
  <2>1. \A i \in A : \E k \in DOMAIN list : h[k] = i
    <3> TAKE i \in A
    <3>1. PICK k \in 1..n : f[k] = i
        BY <1>8
    <3> QED BY <3>1, <1>3, <1>4, <1>5
  <2>2. \A i \in B : \E k \in DOMAIN list : h[k] = i
    <3> TAKE i \in B
    <3>1. PICK k \in 1..m : g[k] = i
        BY <1>9
    <3> QED BY <3>1, <1>3, <1>4, <1>5
  <2> QED BY <2>1, <2>2
<1>12. ASSUME NEW k \in DOMAIN list
       PROVE  list[k].type = content[h[k]].type /\ list[k].call = content[h[k]].call
  <2>1. CASE k \in 1..n
    <3>1. list[k] = first[k] /\ h[k] = f[k]
        BY <2>1, <1>3, <1>5
    <3> QED BY <2>1, <3>1, <1>8
  <2>2. ASSUME NEW l \in 1..m, k = n + l
        PROVE  list[k].type = content[h[k]].type /\ list[k].call = content[h[k]].call
    <3>1. list[k] = second[l] /\ h[k] = g[l]
        BY <2>2, <1>3, <1>5
    <3> QED BY <3>1, <1>9
  <2>3. k \in 1..n \/ \E l \in 1..m : k = n + l
      BY <1>3, <1>6
  <2> QED BY <2>1, <2>2, <2>3
<1>13. \A k \in DOMAIN list : list[k].type # "tool_result"
  <2> TAKE k \in DOMAIN list
  <2>1. h[k] \in A \cup B /\ list[k].type = content[h[k]].type
      BY <1>7, <1>12
  <2> QED BY <2>1
<1>14. ASSUME NEW k \in DOMAIN list, NEW l \in DOMAIN list, k < l, list[k].type = list[l].type
       PROVE  h[k] < h[l]
  <2>1. CASE k \in 1..n /\ l \in 1..n
      BY <2>1, <1>5, <1>8, <1>14
  <2>2. ASSUME NEW i \in 1..m, NEW j \in 1..m, k = n + i, l = n + j PROVE h[k] < h[l]
    <3>1. i < j
        BY <2>2, <1>3, <1>14
    <3> QED BY <2>2, <3>1, <1>5, <1>9
  <2>3. ASSUME k \in 1..n, NEW j \in 1..m, l = n + j PROVE FALSE
    <3>0. h[k] \in A /\ h[l] \in B
        BY <2>3, <1>5
    <3>1. content[h[k]].type # content[h[l]].type
        BY <3>0
    <3> QED BY <3>1, <1>12, <1>14
  <2>4. ASSUME l \in 1..n, NEW i \in 1..m, k = n + i PROVE FALSE
      BY <2>4, <1>3, <1>14
  <2>5. k \in 1..n \/ \E i \in 1..m : k = n + i
      BY <1>3, <1>6
  <2>6. l \in 1..n \/ \E j \in 1..m : l = n + j
      BY <1>3, <1>6
  <2> QED BY <2>1, <2>2, <2>3, <2>4, <2>5, <2>6
<1>15. GatheredBy(h, list, content, A \cup B)
    BY <1>7, <1>10, <1>12, <1>13, <1>14 DEF GatheredBy
<1> QED BY <1>3, <1>15 DEF Gathered, list

OfKinds(kinds) == {i \in DOMAIN Content : Content[i].type \in kinds}

\* At the end of a message all of it is set aside.
LEMMA MessageEnds ==
    ASSUME CallInv, OpenInv, WholeAnswers, AsideInv, wire \in {"openai", "gemini"}, EndOfMessage
    PROVE  /\ done + 1 \in DOMAIN messages /\ done + 1 \in Nat /\ done + 1 <= Len(messages)
           /\ Content = messages[done + 1].content
           /\ parts \in Seq(Blocks) /\ tool_calls \in Seq(Blocks) /\ results \in Seq(Blocks)
           /\ messages[done + 1].role \in {"user", "assistant"}
           /\ \A i \in DOMAIN Content : Content[i].type \in {"text", "tool_use", "tool_result"}
           /\ Laid(parts, Content, OfKinds(PartKinds))
           /\ Laid(tool_calls, Content, OfKinds(CallKinds))
           /\ Laid(results, Content, OfKinds({"tool_result"}))
           /\ \A kinds : OfKinds(kinds) \in SUBSET Nat
           /\ OfKinds({"tool_result"}) # {} => messages[done + 1].role = "user"
           /\ OfKinds({"tool_use"}) # {} => messages[done + 1].role = "assistant"
           /\ Upto(messages, done) \in SUBSET (Nat \X Nat)
           /\ \A q \in Upto(messages, done) : q[1] < done + 1
           /\ \A i \in DOMAIN Content :
                  BlockAt(ContentsOf(messages), <<done + 1, i>>) = Content[i]
           /\ Upto(messages, done + 1) = Upto(messages, done) \cup
                  PlacesIn(done + 1, DOMAIN Content)
<1>t. TypeOK
    BY DEF CallInv
<1>1. /\ done \in Nat /\ at \in Nat /\ Len(messages) \in Nat /\ DOMAIN messages = 1..Len(messages)
      /\ parts \in Seq(Blocks) /\ tool_calls \in Seq(Blocks) /\ results \in Seq(Blocks)
      /\ done < Len(messages) /\ at = Len(Content)
    BY <1>t DEF TypeOK, TranslationTypeOK, EndOfMessage
<1>2. done + 1 \in DOMAIN messages /\ done + 1 \in Nat /\ done + 1 <= Len(messages)
    BY <1>1
<1>3. Content = messages[done + 1].content
    BY DEF Content
<1>4. /\ messages[done + 1] \in Messages /\ Content \in Seq(Blocks)
      /\ DOMAIN Content = 1..at /\ \A i \in DOMAIN Content : Content[i] \in Blocks /\ i \in Nat
  <2>1. /\ messages[done + 1] \in Messages /\ Content \in Seq(Blocks)
        /\ DOMAIN Content = 1..Len(Content) /\ \A i \in DOMAIN Content : Content[i] \in Blocks
      BY <1>2, <1>3, <1>t, MessageTyped DEF TypeOK
  <2>2. \A i \in 1..at : i \in Nat
      BY <1>1
  <2> QED BY <2>1, <2>2, <1>1
<1>5. \A kinds : OfKinds(kinds) = SetAside(kinds)
    BY <1>4 DEF OfKinds, SetAside
<1>6. /\ Laid(parts, Content, OfKinds(PartKinds))
      /\ Laid(tool_calls, Content, OfKinds(CallKinds))
      /\ Laid(results, Content, OfKinds({"tool_result"}))
    BY <1>5 DEF AsideInv
<1>7. \A kinds : OfKinds(kinds) \in SUBSET Nat
    BY <1>4 DEF OfKinds
<1>8. ContentsOf(messages) = Contents
    BY DEF ContentsOf, Contents
<1>9. ASSUME NEW i \in DOMAIN Content
      PROVE  /\ <<done + 1, i>> \in Places(Contents)
             /\ BlockAt(Contents, <<done + 1, i>>) = Content[i]
  <2>1. PICK p : p = <<done + 1, i>>
      OBVIOUS
  <2>2. p = <<p[1], p[2]>> /\ p[1] = done + 1 /\ p[2] = i
      BY <2>1
  <2> QED BY <2>1, <2>2, <1>2, <1>3, ContentsAre
<1>10. ASSUME NEW i \in DOMAIN Content
       PROVE  /\ Content[i].type = "tool_result" => messages[done + 1].role = "user"
              /\ Content[i].type = "tool_use" => messages[done + 1].role = "assistant"
  <2>1. PICK p : p = <<done + 1, i>>
      OBVIOUS
  <2>2. p[1] = done + 1 /\ p \in Places(Contents) /\ BlockAt(Contents, p) = Content[i]
      BY <2>1, <1>9
  <2> QED BY <2>2, WhoSays
<1>11. /\ OfKinds({"tool_result"}) # {} => messages[done + 1].role = "user"
       /\ OfKinds({"tool_use"}) # {} => messages[done + 1].role = "assistant"
    BY <1>10 DEF OfKinds
<1>12. \A q : q \in Upto(messages, done) <=> q \in Places(Contents) /\ q[1] <= done
    BY <1>8 DEF Upto
<1>13. \A q : q \in Upto(messages, done + 1) <=> q \in Places(Contents) /\ q[1] <= done + 1
    BY <1>8 DEF Upto
<1>14. \A q \in Places(Contents) : q \in Nat \X Nat /\ q[1] \in Nat /\ q = <<q[1], q[2]>>
    BY <1>t, PlaceTyped
<1>15. Upto(messages, done) \in SUBSET (Nat \X Nat)
    BY <1>12, <1>14
<1>16. \A q \in Upto(messages, done) : q[1] < done + 1
    BY <1>1, <1>12, <1>14
<1>17. ASSUME NEW q PROVE q \in Upto(messages, done + 1) <=>
                            \/ q \in Upto(messages, done)
                            \/ \E i \in DOMAIN Content : q = <<done + 1, i>>
  <2>1. ASSUME q \in Places(Contents), q[1] <= done + 1, ~(q[1] <= done)
        PROVE  \E i \in DOMAIN Content : q = <<done + 1, i>>
    <3>1. q[1] = done + 1 /\ q = <<q[1], q[2]>>
        BY <2>1, <1>1, <1>14
    <3>2. q[2] \in DOMAIN Content
        BY <2>1, <3>1, <1>3, ContentsAre
    <3> QED BY <3>1, <3>2
  <2>2. ASSUME NEW i \in DOMAIN Content, q = <<done + 1, i>>
        PROVE  q \in Places(Contents) /\ q[1] <= done + 1
      BY <2>2, <1>2, <1>9
  <2>3. q \in Places(Contents) /\ q[1] <= done => q[1] <= done + 1
      BY <1>1, <1>14
  <2> QED BY <2>1, <2>2, <2>3, <1>12, <1>13
<1>18. Upto(messages, done + 1) = Upto(messages, done) \cup PlacesIn(done + 1, DOMAIN Content)
    BY <1>17 DEF PlacesIn
<1>19. \A i \in DOMAIN Content : Content[i].type \in {"text", "tool_use", "tool_result"}
    BY <1>4 DEF Blocks
<1> QED BY <1>1, <1>2, <1>3, <1>4, <1>6, <1>7, <1>8, <1>9, <1>11, <1>15, <1>16, <1>18, <1>19 DEF Messages

\* A message's results are rendered behind all before it.
LEMMA ResultsGrow ==
    ASSUME CallInv, OpenInv, WholeAnswers, AsideInv, wire \in {"openai", "gemini"}, EndOfMessage,
           NEW F, Rendering(messages, body, Upto(messages, done), F),
           NEW fresh \in Seq(Turns), NEW role \in {"user", "tool"}, NEW g,
           Extends(body, fresh, role, results, g)
    PROVE  \E G : Rendering(messages, fresh, Upto(messages, done) \cup
                            PlacesIn(done + 1, OfKinds({"tool_result"})), G)
<1>1. PICK n : n = done + 1
    OBVIOUS
<1>2. PICK S : S = Upto(messages, done)
    OBVIOUS
<1>3. PICK T : T = OfKinds({"tool_result"})
    OBVIOUS
<1>4. /\ n \in DOMAIN messages /\ n \in Nat /\ results \in Seq(Blocks) /\ T \in SUBSET Nat
      /\ Laid(results, messages[n].content, T) /\ Content = messages[n].content
      /\ T # {} => messages[n].role = "user"
      /\ S \in SUBSET (Nat \X Nat) /\ \A q \in S : q[1] < n
    BY <1>1, <1>2, <1>3, MessageEnds
<1>5. Gathered(results, messages[n].content, T)
  <2>1. \A i \in T : messages[n].content[i].type # "text"
      BY <1>3, <1>4 DEF OfKinds
  <2> QED BY <2>1, <1>4, LaidGathers
<1>6. results # <<>> => (role \in Answering <=> messages[n].role = "assistant")
  <2>1. ASSUME results # <<>> PROVE T # {}
    <3>1. PICK h \in [DOMAIN results -> T] : TRUE
        BY <1>4 DEF Laid
    <3>2. 1 \in DOMAIN results
        BY <2>1, <1>4
    <3> QED BY <3>1, <3>2
  <2> QED BY <2>1, <1>4 DEF Answering
<1>7. body \in Seq(Turns) /\ Rendering(messages, body, S, F)
    BY <1>2 DEF CallInv, TypeOK, TranslationTypeOK
<1>9. \A q \in S : \/ q[1] < n
                    \/ /\ q[1] = n /\ messages[n].role # "assistant"
                       /\ BlockAt(ContentsOf(messages), q).type = "tool_result"
                       /\ \A k \in DOMAIN results : results[k].type # "tool_result"
    BY <1>4
<1>8. \E G : Rendering(messages, fresh, S \cup PlacesIn(n, T), G)
  <2>1. MayFollow(messages, S, n, T, role, results)
      BY <1>4, <1>5, <1>6, <1>9 DEF MayFollow
  <2> QED BY <2>1, <1>7, Grow
<1> QED BY <1>8, <1>1, <1>2, <1>3

\* And its other blocks behind them.
LEMMA OthersGrow ==
    ASSUME CallInv, OpenInv, WholeAnswers, AsideInv, wire \in {"openai", "gemini"}, EndOfMessage,
           NEW mid \in Seq(Turns), NEW F,
           Rendering(messages, mid, Upto(messages, done) \cup
                                    PlacesIn(done + 1, OfKinds({"tool_result"})), F),
           NEW fresh \in Seq(Turns), NEW new \in Seq(Blocks),
           Gathered(new, Content, OfKinds({"text", "tool_use"})),
           NEW role, role \in Answering <=> messages[done + 1].role = "assistant",
           NEW g, Extends(mid, fresh, role, new, g)
    PROVE  \E G : Rendering(messages, fresh, Upto(messages, done + 1), G)
<1>1. PICK n : n = done + 1
    OBVIOUS
<1>2. PICK S : S = Upto(messages, done) \cup PlacesIn(n, OfKinds({"tool_result"}))
    OBVIOUS
<1>3. PICK T : T = OfKinds({"text", "tool_use"})
    OBVIOUS
<1>4. /\ n \in DOMAIN messages /\ n \in Nat /\ T \in SUBSET Nat
      /\ Content = messages[n].content
      /\ OfKinds({"tool_result"}) # {} => messages[n].role = "user"
      /\ Upto(messages, done) \in SUBSET (Nat \X Nat) /\ \A q \in Upto(messages, done) : q[1] < n
      /\ OfKinds({"tool_result"}) \in SUBSET Nat
      /\ \A i \in DOMAIN Content : BlockAt(ContentsOf(messages), <<n, i>>) = Content[i]
      /\ \A i \in DOMAIN Content : Content[i].type \in {"text", "tool_use", "tool_result"}
      /\ Upto(messages, n) = Upto(messages, done) \cup PlacesIn(n, DOMAIN Content)
    BY <1>1, <1>2, <1>3, MessageEnds
<1>5. S \in SUBSET (Nat \X Nat)
    BY <1>2, <1>4 DEF PlacesIn
<1>6. \A k \in DOMAIN new : new[k].type # "tool_result"
  <2>1. PICK h : GatheredBy(h, new, Content, T)
      BY <1>3 DEF Gathered
  <2>2. \A k \in DOMAIN new : h[k] \in T /\ new[k].type = Content[h[k]].type
      BY <2>1 DEF GatheredBy
  <2> QED BY <2>2, <1>3 DEF OfKinds
<1>7. ASSUME NEW q \in S
      PROVE  \/ q[1] < n
             \/ /\ q[1] = n /\ messages[n].role # "assistant"
                /\ BlockAt(ContentsOf(messages), q).type = "tool_result"
                /\ \A k \in DOMAIN new : new[k].type # "tool_result"
  <2>1. CASE q \in Upto(messages, done)
      BY <2>1, <1>4
  <2>2. ASSUME NEW i \in OfKinds({"tool_result"}), q = <<n, i>>
        PROVE  /\ q[1] = n /\ messages[n].role # "assistant"
               /\ BlockAt(ContentsOf(messages), q).type = "tool_result"
    <3>1. i \in DOMAIN Content /\ Content[i].type = "tool_result"
        BY DEF OfKinds
    <3> QED BY <2>2, <3>1, <1>4
  <2> QED BY <2>1, <2>2, <1>2, <1>6 DEF PlacesIn
<1>8. Gathered(new, messages[n].content, T)
    BY <1>3, <1>4
<1>9. Rendering(messages, mid, S, F)
    BY <1>1, <1>2
<1>10. new # <<>> => (role \in Answering <=> messages[n].role = "assistant")
    BY <1>1
<1>q. \A q \in S : \/ q[1] < n
                    \/ /\ q[1] = n /\ messages[n].role # "assistant"
                       /\ BlockAt(ContentsOf(messages), q).type = "tool_result"
                       /\ \A k \in DOMAIN new : new[k].type # "tool_result"
    BY <1>7
<1>11. \E G : Rendering(messages, fresh, S \cup PlacesIn(n, T), G)
  <2>1. MayFollow(messages, S, n, T, role, new)
      BY <1>4, <1>5, <1>8, <1>10, <1>q DEF MayFollow
  <2> QED BY <2>1, <1>9, Grow
<1>12. S \cup PlacesIn(n, T) = Upto(messages, n)
  <2>1. \A i : i \in DOMAIN Content <=> i \in T \/ i \in OfKinds({"tool_result"})
      BY <1>3, <1>4 DEF OfKinds
  <2> QED BY <2>1, <1>2, <1>4 DEF PlacesIn
<1> QED BY <1>1, <1>11, <1>12

\* Blocks are no results unless they are results.
LEMMA PartsGather ==
    ASSUME CallInv, OpenInv, WholeAnswers, AsideInv, wire \in {"openai", "gemini"}, EndOfMessage
    PROVE  /\ wire = "gemini" \/ messages[done + 1].role = "user" =>
                  Gathered(parts, Content, OfKinds({"text", "tool_use"}))
           /\ wire = "openai" =>
                  /\ parts \o tool_calls \in Seq(Blocks)
                  /\ Gathered(parts \o tool_calls, Content, OfKinds({"text", "tool_use"}))
           /\ parts = <<>> => OfKinds(PartKinds) = {}
           /\ results = <<>> => OfKinds({"tool_result"}) = {}
<1>1. /\ Laid(parts, Content, OfKinds(PartKinds)) /\ Laid(tool_calls, Content, OfKinds(CallKinds))
      /\ Laid(results, Content, OfKinds({"tool_result"}))
      /\ parts \in Seq(Blocks) /\ tool_calls \in Seq(Blocks)
      /\ OfKinds(PartKinds) \in SUBSET Nat /\ OfKinds(CallKinds) \in SUBSET Nat
      /\ OfKinds({"tool_use"}) # {} => messages[done + 1].role = "assistant"
    BY MessageEnds
<1>2. \A i \in OfKinds(PartKinds) : Content[i].type # "tool_result"
    BY DEF OfKinds, PartKinds
<1>3. Gathered(parts, Content, OfKinds(PartKinds))
    BY <1>1, <1>2, LaidGathers
<1>4. wire = "gemini" => OfKinds(PartKinds) = OfKinds({"text", "tool_use"})
    BY DEF PartKinds
<1>5. wire = "openai" /\ messages[done + 1].role = "user" =>
          OfKinds(PartKinds) = OfKinds({"text", "tool_use"})
  <2>1. ASSUME wire = "openai", messages[done + 1].role = "user"
        PROVE  OfKinds(PartKinds) = OfKinds({"text", "tool_use"})
    <3>1. \A i \in DOMAIN Content : Content[i].type # "tool_use"
        BY <2>1, <1>1 DEF OfKinds
    <3>2. PartKinds = {"text"}
        BY <2>1 DEF PartKinds
    <3> QED BY <3>1, <3>2 DEF OfKinds
  <2> QED BY <2>1
<1>6. ASSUME wire = "openai"
      PROVE  /\ parts \o tool_calls \in Seq(Blocks)
             /\ Gathered(parts \o tool_calls, Content, OfKinds({"text", "tool_use"}))
  <2>1. PartKinds = {"text"} /\ CallKinds = {"tool_use"}
      BY <1>6 DEF PartKinds, CallKinds
  <2>2. OfKinds(PartKinds) \cup OfKinds(CallKinds) = OfKinds({"text", "tool_use"})
      BY <2>1 DEF OfKinds
  <2>3. /\ \A i \in OfKinds(PartKinds), j \in OfKinds(CallKinds) : Content[i].type # Content[j].type
        /\ \A i \in OfKinds(PartKinds) \cup OfKinds(CallKinds) : Content[i].type # "tool_result"
      BY <2>1 DEF OfKinds
  <2>4. /\ parts \o tool_calls \in Seq(Blocks)
        /\ Gathered(parts \o tool_calls, Content, OfKinds(PartKinds) \cup OfKinds(CallKinds))
      BY <2>3, <1>1, LaidTogether, Zenon
  <2> QED BY <2>2, <2>4
<1>7. ASSUME NEW list, list = <<>>, NEW T, Laid(list, Content, T) PROVE T = {}
  <2>1. PICK h \in [DOMAIN list -> T] : LaidBy(h, list, Content, T)
      BY <1>7 DEF Laid
  <2>2. DOMAIN list = {}
      BY <1>7
  <2> QED BY <2>1, <2>2 DEF LaidBy
<1>8. parts = <<>> => OfKinds(PartKinds) = {}
    BY <1>1, <1>7
<1>9. results = <<>> => OfKinds({"tool_result"}) = {}
    BY <1>1, <1>7
<1> QED BY <1>3, <1>4, <1>5, <1>6, <1>8, <1>9

\* A message is rendered when the loop has dealt with it.
LEMMA GeminiRenders ==
    ASSUME CallInv, OpenInv, WholeAnswers, AsideInv, RenderInv, to_contents
    PROVE  RenderInv'
<1>1. /\ wire = "gemini" /\ EndOfMessage
      /\ wire' = wire /\ messages' = messages /\ translating /\ translating' = translating
      /\ done' = done + 1
    BY DEF to_contents, EndOfMessage
<1>2. PICK role : role = IF messages[done + 1].role = "assistant" THEN "model" ELSE "user"
    OBVIOUS
<1>3. PICK mid : mid = append(body, "user", results)
    OBVIOUS
<1>4. body' = append(mid, role, parts)
    BY <1>2, <1>3 DEF to_contents
<1>5. PICK F : Rendering(messages, body, Upto(messages, done), F)
    BY <1>1 DEF RenderInv
<1>6. /\ parts \in Seq(Blocks) /\ results \in Seq(Blocks) /\ done + 1 <= Len(messages)
    BY <1>1, MessageEnds
<1>7. body \in Seq(Turns)
    BY DEF CallInv, TypeOK, TranslationTypeOK
<1>8. mid \in Seq(Turns) /\ \E g : Extends(body, mid, "user", results, g)
    BY <1>3, <1>6, <1>7, AppendExtends
<1>9. PICK g : Extends(body, mid, "user", results, g)
    BY <1>8
<1>10. \E G : Rendering(messages, mid, Upto(messages, done) \cup
                        PlacesIn(done + 1, OfKinds({"tool_result"})), G)
    BY <1>1, <1>5, <1>8, <1>9, ResultsGrow
<1>11. PICK G : Rendering(messages, mid, Upto(messages, done) \cup
                        PlacesIn(done + 1, OfKinds({"tool_result"})), G)
    BY <1>10
<1>12. role \in {"user", "model"} /\ (role \in Answering <=> messages[done + 1].role = "assistant")
    BY <1>2 DEF Answering
<1>13. body' \in Seq(Turns) /\ \E k : Extends(mid, body', role, parts, k)
    BY <1>4, <1>6, <1>8, <1>12, AppendExtends
<1>14. PICK k : Extends(mid, body', role, parts, k)
    BY <1>13
<1>15. Gathered(parts, Content, OfKinds({"text", "tool_use"}))
    BY <1>1, PartsGather
<1>16. \E H : Rendering(messages, body', Upto(messages, done + 1), H)
    BY <1>1, <1>6, <1>8, <1>11, <1>12, <1>13, <1>14, <1>15, OthersGrow
<1> QED BY <1>1, <1>6, <1>16 DEF RenderInv

\* On the OpenAI wire results become turns of their own, in front.
LEMMA OpenAIRenders ==
    ASSUME CallInv, OpenInv, WholeAnswers, AsideInv, RenderInv, to_openai_messages
    PROVE  RenderInv'
<1>1. /\ wire = "openai" /\ EndOfMessage
      /\ wire' = wire /\ messages' = messages /\ translating /\ translating' = translating
      /\ done' = done + 1
    BY DEF to_openai_messages, EndOfMessage
<1>2. PICK F : Rendering(messages, body, Upto(messages, done), F)
    BY <1>1 DEF RenderInv
<1>3. /\ parts \in Seq(Blocks) /\ tool_calls \in Seq(Blocks) /\ results \in Seq(Blocks)
      /\ done + 1 <= Len(messages) /\ messages[done + 1].role \in {"user", "assistant"}
      /\ OfKinds({"tool_result"}) # {} => messages[done + 1].role = "user"
      /\ OfKinds({"tool_use"}) # {} => messages[done + 1].role = "assistant"
    BY <1>1, MessageEnds
<1>4. body \in Seq(Turns)
    BY DEF CallInv, TypeOK, TranslationTypeOK
<1>5. CASE messages[done + 1].role = "assistant"
  <2>1. body' = Append(body, Turn("assistant", parts \o tool_calls))
      BY <1>4, <1>5 DEF to_openai_messages, Turn
  <2>2. PlacesIn(done + 1, OfKinds({"tool_result"})) = {}
      BY <1>3, <1>5 DEF PlacesIn
  <2>3. Rendering(messages, body, Upto(messages, done) \cup
                  PlacesIn(done + 1, OfKinds({"tool_result"})), F)
    <3>1. Upto(messages, done) \cup {} = Upto(messages, done)
        OBVIOUS
    <3> QED BY <3>1, <2>2, <1>2
  <2>4. /\ parts \o tool_calls \in Seq(Blocks)
        /\ Gathered(parts \o tool_calls, Content, OfKinds({"text", "tool_use"}))
      BY <1>1, PartsGather
  <2>5. body' \in Seq(Turns) /\ \E g : Extends(body, body', "assistant", parts \o tool_calls, g)
      BY <2>1, <2>4, <1>4, TurnExtends
  <2>6. PICK g : Extends(body, body', "assistant", parts \o tool_calls, g)
      BY <2>5
  <2>7. "assistant" \in Answering <=> messages[done + 1].role = "assistant"
      BY <1>5 DEF Answering
  <2>8. \E H : Rendering(messages, body', Upto(messages, done + 1), H)
      BY <1>1, <1>4, <2>3, <2>4, <2>5, <2>6, <2>7, OthersGrow
  <2> QED BY <1>1, <1>3, <2>8 DEF RenderInv
<1>6. CASE messages[done + 1].role # "assistant"
  <2>1. PICK answers : answers = [i \in DOMAIN results |-> Turn("tool", <<results[i]>>)]
      OBVIOUS
  <2>2. PICK mid : mid = body \o answers
      OBVIOUS
  <2>3. mid \in Seq(Turns) /\ \E g : Extends(body, mid, "tool", results, g)
      BY <2>1, <2>2, <1>3, <1>4, ResultsExtend
  <2>4. PICK g : Extends(body, mid, "tool", results, g)
      BY <2>3
  <2>5. \E G : Rendering(messages, mid, Upto(messages, done) \cup
                         PlacesIn(done + 1, OfKinds({"tool_result"})), G)
      BY <1>1, <1>2, <2>3, <2>4, ResultsGrow
  <2>6. PICK G : Rendering(messages, mid, Upto(messages, done) \cup
                           PlacesIn(done + 1, OfKinds({"tool_result"})), G)
      BY <2>5
  <2>7. Gathered(parts, Content, OfKinds({"text", "tool_use"}))
      BY <1>1, <1>3, <1>6, PartsGather
  <2>8. PICK rest : rest = IF parts # <<>> \/ results = <<>> THEN <<Turn("user", parts)>> ELSE <<>>
      OBVIOUS
  <2>9. body' = body \o (answers \o rest)
      BY <1>6, <2>1, <2>8 DEF to_openai_messages
  <2>10. Turn("user", parts) \in Turns
      BY <1>3 DEF Turn, Turns
  <2>11. answers \in Seq(Turns)
    <3>1. \A i \in DOMAIN results : Turn("tool", <<results[i]>>) \in Turns
      <4> TAKE i \in DOMAIN results
      <4>1. PICK one : one = <<results[i]>>
          OBVIOUS
      <4>2. one \in Seq(Blocks)
          BY <4>1, <1>3
      <4>3. Turn("tool", one) \in Turns
          BY <4>2 DEF Turn, Turns
      <4> QED BY <4>1, <4>3
    <3>2. DOMAIN results = 1..Len(results) /\ Len(results) \in Nat
        BY <1>3
    <3> QED BY <3>1, <3>2, <2>1
  <2>12. CASE parts # <<>> \/ results = <<>>
    <3>1. PICK turn : turn = Turn("user", parts)
        OBVIOUS
    <3>2. rest = <<turn>> /\ turn \in Turns
        BY <2>8, <2>10, <2>12, <3>1
    <3>3. body' = Append(mid, turn)
      <4>1. body \o (answers \o <<turn>>) = Append(body \o answers, turn)
          BY <1>4, <2>11, <3>2
      <4> QED BY <4>1, <2>2, <2>9, <3>2
    <3>4. body' \in Seq(Turns) /\ \E k : Extends(mid, body', "user", parts, k)
        BY <3>1, <3>3, <1>3, <2>3, TurnExtends
    <3>5. PICK k : Extends(mid, body', "user", parts, k)
        BY <3>4
    <3>6. "user" \in Answering <=> messages[done + 1].role = "assistant"
        BY <1>6 DEF Answering
    <3>7. \E H : Rendering(messages, body', Upto(messages, done + 1), H)
        BY <1>1, <1>3, <2>3, <2>6, <2>7, <3>4, <3>5, <3>6, OthersGrow
    <3> QED BY <1>1, <1>3, <3>7 DEF RenderInv
  <2>13. CASE ~(parts # <<>> \/ results = <<>>)
    <3>1. rest = <<>> /\ parts = <<>>
        BY <2>8, <2>13
    <3>2. body' = mid
      <4>1. answers \o <<>> = answers
          BY <2>11
      <4> QED BY <4>1, <2>2, <2>9, <3>1
    <3>3. /\ \A i \in DOMAIN Content : Content[i].type \in {"text", "tool_use", "tool_result"}
          /\ Upto(messages, done + 1) = Upto(messages, done) \cup PlacesIn(done + 1, DOMAIN Content)
        BY <1>1, MessageEnds
    <3>4. OfKinds(PartKinds) = {} /\ PartKinds = {"text"}
        BY <1>1, <3>1, PartsGather DEF PartKinds
    <3>5. DOMAIN Content = OfKinds({"tool_result"})
        BY <1>3, <1>6, <3>3, <3>4 DEF OfKinds
    <3>6. \E H : Rendering(messages, body', Upto(messages, done + 1), H)
        BY <2>6, <3>2, <3>3, <3>5
    <3> QED BY <1>1, <1>3, <3>6 DEF RenderInv
  <2> QED BY <2>12, <2>13
<1> QED BY <1>5, <1>6

\* Before the first message nothing is rendered, and nothing is due.
LEMMA RenderAsk ==
    ASSUME CallInv, NEW w \in {"openai", "anthropic", "gemini"}, Ask(w)
    PROVE  RenderInv'
<1> SUFFICES ASSUME wire' \in {"openai", "gemini"}
             PROVE  /\ done' <= Len(messages') /\ (~translating' => done' = Len(messages'))
                    /\ \E F : Rendering(messages', body', Upto(messages', done'), F)
    BY DEF RenderInv
<1>1. /\ wire' = w /\ translating' = (w # "anthropic") /\ done' = 0 /\ messages' = messages
      /\ w # "anthropic" => body' = <<>>
    BY DEF Ask, Build
<1>2. translating' = TRUE /\ body' = <<>> /\ Len(messages) \in Nat
  <2>1. w # "anthropic"
      BY <1>1
  <2>2. Len(messages) \in Nat
      BY DEF CallInv, TypeOK, TranslationTypeOK
  <2> QED BY <2>1, <2>2, <1>1
<1>3. Upto(messages, 0) = {}
  <2>1. ContentsOf(messages) = Contents
      BY DEF ContentsOf, Contents
  <2>2. \A q \in Places(Contents) : q[1] \in DOMAIN messages
      BY ContentsAre
  <2>3. \A m \in DOMAIN messages : ~(m <= 0)
      BY DEF CallInv, TypeOK, TranslationTypeOK
  <2> QED BY <2>1, <2>2, <2>3 DEF Upto
<1>4. Places(PartsOf(<<>>)) = {}
  <2>1. <<>> \in Seq(Turns) /\ DOMAIN <<>> = {}
      OBVIOUS
  <2> QED BY <2>1, TurnPlaces
<1>5. <<>> \in [{} -> {}]
    OBVIOUS
<1>6. Rendering(messages, <<>>, {}, <<>>)
    BY <1>4, <1>5 DEF Rendering
<1>7. Rendering(messages', body', Upto(messages', done'), <<>>)
    BY <1>1, <1>2, <1>3, <1>6
<1>8. done' <= Len(messages')
    BY <1>1, <1>2
<1> QED BY <1>2, <1>7, <1>8

\* Steps beside the loops leave what is rendered.
LEMMA RenderFrame ==
    ASSUME RenderInv, UNCHANGED <<wire, messages, translating, done, body>>
    PROVE  RenderInv'
BY DEF RenderInv

-----------------------------------------------------------------------------
(***************************************************************************)
(* Every step keeps AtOnceInv, AsideInv and RenderInv.                     *)
(***************************************************************************)
KeptInv == AtOnceInv /\ AsideInv /\ RenderInv

\* Before the first message.
LEMMA KeptInit == Init => KeptInv
<1> SUFFICES ASSUME Init PROVE KeptInv OBVIOUS
<1>1. wire = "none" /\ messages = <<>> /\ said = <<>>
    BY DEF Init
<1>2. DOMAIN messages = {}
    BY <1>1
<1>3. Places(Contents) = {} /\ Uses = {}
    BY <1>2, ContentsAre, UsesAre
<1>4. ResultPlaces = {}
    BY <1>3 DEF ResultPlaces, OfType
<1>5. AtOnceInv
    BY <1>2, <1>3, <1>4 DEF AtOnceInv, ResultsOnce, WholeAnswers, AnsweredFirst
<1>6. AsideInv /\ RenderInv
    BY <1>1 DEF AsideInv, RenderInv
<1> QED BY <1>5, <1>6 DEF KeptInv

\* Between requests there is nothing of one.
LEMMA KeptNone ==
    ASSUME wire' = "none" PROVE AsideInv' /\ RenderInv'
BY DEF AsideInv, RenderInv

\* The caller says something when every call has its result.
LEMMA KeptSay ==
    ASSUME CallInv, PairInv, KeptInv, Say PROVE KeptInv'
<1>1. PICK content : content = <<Text>>
    OBVIOUS
<1>2. content \in Seq(Blocks) /\ DOMAIN content = {1} /\ content[1].type = "text"
  <2>1. Text \in Blocks /\ Text.type = "text"
      BY TextTyped DEF Text
  <2> QED BY <2>1, <1>1
<1>3. Says(content) /\ Unanswered = {} /\ wire' = "none"
    BY <1>1 DEF Say, Says, CallInv, AtRest
<1>4. AtOnceInv'
    BY <1>2, <1>3, AtOnceSays DEF PairInv, KeptInv
<1> QED BY <1>3, <1>4, KeptNone DEF KeptInv

\* Or brings results, with text in front of the last of them.
LEMMA KeptReply ==
    ASSUME CallInv, PairInv, KeptInv, Reply PROVE KeptInv'
<1>1. PICK n \in 1..Len(said[Len(said)]) : \E order \in [1..n -> Unanswered] :
          LET content == [i \in 1..n |-> ResultOf(order[i])]
          IN  /\ IsInjective(order)
              /\ \/ Says(content)
                 \/ Unanswered = ToSet(order) /\ Says(<<Text>> \o content)
    BY DEF Reply
<1>2. PICK order \in [1..n -> Unanswered] :
          LET content == [i \in 1..n |-> ResultOf(order[i])]
          IN  /\ IsInjective(order)
              /\ \/ Says(content)
                 \/ Unanswered = ToSet(order) /\ Says(<<Text>> \o content)
    BY <1>1
<1> DEFINE content == [i \in 1..n |-> ResultOf(order[i])]
<1>3. /\ IsInjective(order)
      /\ \/ Says(content)
         \/ Unanswered = ToSet(order) /\ Says(<<Text>> \o content)
    BY <1>2
<1>4. n \in Nat
    OBVIOUS
<1>5. \A i \in 1..n : /\ content[i] \in Blocks /\ content[i].type = "tool_result"
                      /\ content[i].call = order[i] /\ order[i] \in Unanswered
  <2> TAKE i \in 1..n
  <2>1. content[i] = ResultOf(order[i]) /\ order[i] \in Unanswered
      OBVIOUS
  <2>2. ResultOf(order[i]).type = "tool_result" /\ ResultOf(order[i]).call = order[i]
      BY DEF ResultOf
  <2> QED BY <2>1, <2>2, ResultTyped
<1>6. content \in Seq(Blocks) /\ DOMAIN content = 1..n /\ Len(content) = n
    BY <1>4, <1>5
<1>7. \A i, j \in 1..n : order[i] = order[j] => i = j
    BY <1>3 DEF IsInjective
<1> HIDE DEF content
<1>8. wire' = "none"
    BY <1>3 DEF Says, CallInv, AtRest
<1>9. CASE Says(content)
  <2>1. \A i \in DOMAIN content : content[i].type # "text"
      BY <1>5, <1>6
  <2>2. AtOnceInv'
      BY <1>5, <1>6, <1>7, <1>9, <2>1, AtOnceSays DEF PairInv, KeptInv
  <2> QED BY <2>2, <1>8, KeptNone DEF KeptInv
<1>10. CASE Unanswered = ToSet(order) /\ Says(<<Text>> \o content)
  <2>1. Text \in Blocks /\ Text.type = "text"
      BY TextTyped DEF Text
  <2>2. PICK words : words = <<Text>> \o content
      OBVIOUS
  <2>3. /\ words \in Seq(Blocks) /\ DOMAIN words = 1..(n + 1) /\ words[1] = Text
        /\ \A i \in 1..n : words[i + 1] = content[i]
      BY <2>1, <2>2, <1>4, <1>6
  <2>4. \A i \in 1..(n + 1) : i = 1 \/ (i - 1 \in 1..n /\ i = (i - 1) + 1)
      BY <1>4
  <2>5. \A i \in DOMAIN words : i = 1 \/ \E j \in 1..n : i = j + 1
      BY <2>3, <2>4
  <2>6. \A j \in 1..n : /\ j + 1 \in DOMAIN words
                        /\ words[j + 1].type = "tool_result"
                        /\ words[j + 1].call = order[j] /\ order[j] \in Unanswered
    <3>1. \A j \in 1..n : j + 1 \in 1..(n + 1)
        BY <1>4
    <3> QED BY <3>1, <2>3, <1>5
  <2>7. \A i \in DOMAIN words : \/ words[i].type = "text"
                                \/ words[i].type = "tool_result" /\ words[i].call \in Unanswered
    <3> TAKE i \in DOMAIN words
    <3>1. CASE i = 1
        BY <3>1, <2>1, <2>3
    <3>2. ASSUME NEW j \in 1..n, i = j + 1
          PROVE  words[i].type = "tool_result" /\ words[i].call \in Unanswered
        BY <3>2, <2>6
    <3> QED BY <3>1, <3>2, <2>5
  <2>8. \A i, j \in DOMAIN words :
            words[i].type = "tool_result" /\ words[j].type = "tool_result"
                /\ words[i].call = words[j].call => i = j
    <3> SUFFICES ASSUME NEW i \in DOMAIN words, NEW j \in DOMAIN words,
                        words[i].type = "tool_result", words[j].type = "tool_result",
                        words[i].call = words[j].call
                 PROVE  i = j
        OBVIOUS
    <3>1. PICK k \in 1..n : i = k + 1
        BY <2>1, <2>3, <2>5
    <3>2. PICK l \in 1..n : j = l + 1
        BY <2>1, <2>3, <2>5
    <3>3. order[k] = order[l]
        BY <3>1, <3>2, <2>6
    <3> QED BY <3>1, <3>2, <3>3, <1>7
  <2>9. \A i \in DOMAIN words : words[i].type = "text" =>
            \A call \in Unanswered : \E j \in DOMAIN words :
                words[j].type = "tool_result" /\ words[j].call = call
    <3>1. \A call \in Unanswered : \E k \in 1..n : order[k] = call
        BY <1>10 DEF ToSet
    <3> TAKE i \in DOMAIN words
    <3> HAVE words[i].type = "text"
    <3> TAKE call \in Unanswered
    <3>2. PICK k \in 1..n : order[k] = call
        BY <3>1
    <3>3. k + 1 \in DOMAIN words /\ words[k + 1].type = "tool_result" /\ words[k + 1].call = call
        BY <3>2, <2>6
    <3> QED BY <3>3
  <2>10. Says(words)
      BY <1>10, <2>2
  <2>11. AtOnceInv'
      BY <2>3, <2>7, <2>8, <2>9, <2>10, AtOnceSays DEF PairInv, KeptInv
  <2> QED BY <2>11, <1>8, KeptNone DEF KeptInv
<1> QED BY <1>3, <1>9, <1>10

\* A step of either loop.
LEMMA KeptTranslating ==
    ASSUME CallInv, PairInv, KeptInv, Translating PROVE KeptInv'
<1>1. Translate /\ messages' = messages /\ said' = said /\ wire' = wire
    BY DEF Translating, Translate, TakePart, TakeCall, TakeResult, NextBlock,
           to_contents, to_openai_messages, EndOfMessage, EndOfMessages, stream
<1>2. AtOnceInv'
    BY <1>1, AtOnceFrame DEF KeptInv
<1>t. TypeOK /\ OpenInv /\ WholeAnswers
    BY DEF CallInv, PairInv, KeptInv, AtOnceInv
<1>3. CASE TakePart \/ TakeCall \/ TakeResult
  <2>1. UNCHANGED <<wire, messages, translating, done, body>>
      BY <1>3 DEF TakePart, TakeCall, TakeResult, NextBlock
  <2> QED BY <1>2, <1>3, <1>t, <2>1, AsideTake, RenderFrame DEF KeptInv
<1>4. CASE to_contents
  <2>1. at' = 0 /\ parts' = <<>> /\ tool_calls' = <<>> /\ results' = <<>>
      BY <1>4 DEF to_contents, EndOfMessage
  <2> QED BY <1>2, <1>4, <1>t, <2>1, AsideNone, GeminiRenders DEF KeptInv
<1>5. CASE to_openai_messages
  <2>1. at' = 0 /\ parts' = <<>> /\ tool_calls' = <<>> /\ results' = <<>>
      BY <1>5 DEF to_openai_messages, EndOfMessage
  <2> QED BY <1>2, <1>5, <1>t, <2>1, AsideNone, OpenAIRenders DEF KeptInv
<1>6. CASE EndOfMessages
  <2>1. /\ UNCHANGED <<wire, messages, done, at, parts, tool_calls, results, body>>
        /\ done = Len(messages)
      BY <1>6 DEF EndOfMessages
  <2>2. AsideInv'
      BY <2>1, AsideFrame DEF KeptInv
  <2>3. RenderInv'
      BY <2>1 DEF KeptInv, RenderInv
  <2> QED BY <1>2, <2>2, <2>3 DEF KeptInv
<1> QED BY <1>1, <1>3, <1>4, <1>5, <1>6 DEF Translate

\* The caller takes an answer.
LEMMA KeptReceive ==
    ASSUME CallInv, PairInv, KeptInv, pc # "caller", NEW content \in Seq(Stream!ContentBlocks),
           IsNamed(content), Receive(content)
    PROVE  KeptInv'
<1> DEFINE new == Received(content)
<1>1. /\ new \in Seq(Blocks) /\ DOMAIN new = DOMAIN content
      /\ \A i \in DOMAIN new : new[i].type # "tool_result"
    BY ReceivedTyped
<1>2. /\ said' = Append(said, new)
      /\ messages' = Append(messages, [role |-> "assistant", content |-> new])
      /\ wire' = "none"
    BY DEF Receive, Done
<1> HIDE DEF new
<1>3. AtOnceInv'
    BY <1>1, <1>2, AtOnceReceive DEF PairInv, KeptInv
<1> QED BY <1>2, <1>3, KeptNone DEF KeptInv

\* Every step keeps the invariant.
LEMMA KeptStep ==
    ASSUME CallInv, PairInv, KeptInv, [Next]_vars
    PROVE  KeptInv'
<1>1. ASSUME UNCHANGED <<wire, messages, loop, said>> PROVE KeptInv'
  <2>1. /\ UNCHANGED <<wire, messages, done, at, parts, tool_calls, results>>
        /\ UNCHANGED <<wire, messages, translating, done, body>> /\ said' = said
      BY <1>1 DEF loop
  <2> QED BY <2>1, AtOnceFrame, AsideFrame, RenderFrame DEF KeptInv
<1>2. CASE UNCHANGED vars
    BY <1>1, <1>2 DEF vars
<1>3. CASE Say \/ Reply
    BY <1>3, KeptSay, KeptReply
<1>4. ASSUME NEW w \in {"openai", "anthropic", "gemini"}, Ask(w) PROVE KeptInv'
  <2>1. /\ messages' = messages /\ said' = said
        /\ at' = 0 /\ parts' = <<>> /\ tool_calls' = <<>> /\ results' = <<>>
      BY <1>4 DEF Ask, Build
  <2> QED BY <1>4, <2>1, AtOnceFrame, AsideNone, RenderAsk DEF KeptInv
<1>5. ASSUME NEW n \in 1..MaxMessages, Forget(n) PROVE KeptInv'
  <2>1. wire' = "none"
      BY <1>5 DEF Forget, Ready, CallInv, AtRest
  <2> QED BY <1>5, <2>1, AtOnceForget, KeptNone DEF KeptInv
<1>6. CASE Translating
    BY <1>6, KeptTranslating
<1>7. ASSUME NEW a \in Answers, Respond(a) PROVE KeptInv'
    BY <1>1, <1>7 DEF Respond
<1>8. CASE Parsing \/ Streaming
    BY <1>1, <1>8 DEF Parsing, Streaming
<1>9. CASE Complete
  <2>1. Receive(blocks) /\ pc = "complete"
      BY <1>9 DEF Complete, Stream!complete
  <2>2. blocks \in Seq(Stream!ContentBlocks) /\ IsNamed(blocks)
      BY DEF CallInv, TypeOK, Stream!TypeOK, BlocksNamed, IsNamed
  <2> QED BY <2>1, <2>2, KeptReceive
<1>10. CASE FinalMessage
  <2>1. Receive(Stream!get_final_message.content) /\ pc = "stream"
      BY <1>10 DEF FinalMessage
  <2>2. answer \in Answers
      BY <2>1 DEF CallInv, AtRest, TypeOK, Stream!TypeOK
  <2> QED BY <2>1, <2>2, FinalTyped, KeptReceive
<1>11. CASE Fail
  <2>1. messages' = messages /\ said' = said /\ wire' = "none"
      BY <1>11 DEF Fail, Done
  <2> QED BY <2>1, AtOnceFrame, KeptNone DEF KeptInv
<1> QED BY <1>2, <1>3, <1>4, <1>5, <1>6, <1>7, <1>8, <1>9, <1>10, <1>11 DEF Next

\* So it holds of every conversation.
LEMMA Kept == Spec => [](CallInv /\ PairInv /\ KeptInv)
<1> QED BY Calls, PairInit, PairStep, KeptInit, KeptStep, PTL DEF Spec

-----------------------------------------------------------------------------
(***************************************************************************)
(* NothingLost and AnsweredAtOnce.                                         *)
(***************************************************************************)
\* Places of messages are finitely many.
LEMMA PlacesFinite ==
    ASSUME TypeOK
    PROVE  IsFiniteSet(Places(Contents))
<1>1. /\ messages \in Seq(Messages) /\ Len(messages) \in Nat /\ DOMAIN messages = 1..Len(messages)
    BY DEF TypeOK, TranslationTypeOK
<1>2. \A m \in DOMAIN messages : IsFiniteSet({m} \X DOMAIN messages[m].content)
  <2> TAKE m \in DOMAIN messages
  <2>1. /\ DOMAIN messages[m].content = 1..Len(messages[m].content)
        /\ Len(messages[m].content) \in Nat
      BY MessageTyped DEF TypeOK
  <2>2. 1 \in Int /\ Len(messages[m].content) \in Int
      BY <2>1
  <2>3. IsFiniteSet(DOMAIN messages[m].content)
      BY <2>1, <2>2, FS_Interval
  <2>4. IsFiniteSet({m})
      BY FS_Singleton
  <2> QED BY <2>3, <2>4, FS_Product
<1> DEFINE f == [m \in DOMAIN messages |-> {m} \X DOMAIN messages[m].content]
           lists == {f[m] : m \in DOMAIN messages}
<1>3. f \in Surjection(DOMAIN messages, lists)
    BY DEF Surjection
<1>4. IsFiniteSet(DOMAIN messages)
  <2>1. 1 \in Int /\ Len(messages) \in Int
      BY <1>1
  <2> QED BY <2>1, <1>1, FS_Interval
<1>5. IsFiniteSet(lists)
  <2> HIDE DEF f, lists
  <2> QED BY <1>3, <1>4, FS_Surjection
<1>6. \A list \in lists : IsFiniteSet(list)
    BY <1>2
<1>7. IsFiniteSet(UNION lists)
  <2> HIDE DEF lists
  <2> QED BY <1>5, <1>6, FS_UNION
<1>8. Places(Contents) = UNION lists
  <2>1. \A p : p \in Places(Contents) <=> /\ p = <<p[1], p[2]>> /\ p[1] \in DOMAIN messages
                                          /\ p[2] \in DOMAIN messages[p[1]].content
      BY ContentsAre
  <2>2. ASSUME NEW p PROVE p \in UNION lists <=> /\ p = <<p[1], p[2]>> /\ p[1] \in DOMAIN messages
                                                 /\ p[2] \in DOMAIN messages[p[1]].content
    <3>1. p \in UNION lists <=> \E m \in DOMAIN messages : p \in {m} \X DOMAIN messages[m].content
        OBVIOUS
    <3>2. \A m \in DOMAIN messages : p \in {m} \X DOMAIN messages[m].content <=>
              p = <<p[1], p[2]>> /\ p[1] = m /\ p[2] \in DOMAIN messages[m].content
        OBVIOUS
    <3> QED BY <3>1, <3>2
  <2> HIDE DEF lists
  <2> QED BY <2>1, <2>2
<1> QED BY <1>7, <1>8

\* Precedes orders places.
LEMMA Ordered ==
    /\ \A p \in Nat \X Nat : ~Precedes(p, p)
    /\ \A p, q \in Nat \X Nat : p = q \/ Precedes(p, q) \/ Precedes(q, p)
    /\ \A p, q, r \in Nat \X Nat : Precedes(p, q) /\ Precedes(q, r) => Precedes(p, r)
<1>1. \A p \in Nat \X Nat : ~Precedes(p, p)
    BY DEF Precedes
<1>2. \A p, q \in Nat \X Nat : p = q \/ Precedes(p, q) \/ Precedes(q, p)
    BY DEF Precedes
<1>3. \A p, q, r \in Nat \X Nat : Precedes(p, q) /\ Precedes(q, r) => Precedes(p, r)
    BY DEF Precedes
<1> QED BY <1>1, <1>2, <1>3

\* No two places of a set have the same rank.
LEMMA RanksDiffer ==
    ASSUME NEW B \in SUBSET (Nat \X Nat), IsFiniteSet(B), NEW p \in B, NEW q \in B,
           Rank(p, B) = Rank(q, B)
    PROVE  p = q
<1>1. ASSUME NEW r \in B, NEW s \in B, Precedes(r, s), Rank(r, B) = Rank(s, B) PROVE FALSE
  <2> DEFINE R == {x \in B : Precedes(x, r)}
             S == {x \in B : Precedes(x, s)}
  <2>1. R \in SUBSET S
      BY <1>1, Ordered
  <2>2. r \in S /\ r \notin R
      BY <1>1, Ordered
  <2>3. IsFiniteSet(S)
    <3>1. S \in SUBSET B
        OBVIOUS
    <3> HIDE DEF S
    <3> QED BY <3>1, FS_Subset
  <2>4. Cardinality(R) = Cardinality(S)
      BY <1>1 DEF Rank
  <2> HIDE DEF R, S
  <2> QED BY <2>1, <2>2, <2>3, <2>4, FS_Subset
<1>2. p = q \/ Precedes(p, q) \/ Precedes(q, p)
    BY Ordered
<1> QED BY <1>1, <1>2

\* An order-preserving bijection keeps ranks.
LEMMA RankKept ==
    ASSUME NEW A \in SUBSET (Nat \X Nat), NEW B \in SUBSET (Nat \X Nat), IsFiniteSet(B),
           NEW f \in [A -> B], \A q \in B : \E p \in A : f[p] = q,
           \A p, q \in A : Precedes(p, q) => Precedes(f[p], f[q])
    PROVE  /\ Cardinality(A) = Cardinality(B)
           /\ \A p \in A : Rank(p, A) = Rank(f[p], B)
<1>1. \A p, q \in A : /\ f[p] = f[q] => p = q
                      /\ Precedes(f[p], f[q]) => Precedes(p, q)
  <2> TAKE p, q \in A
  <2>1. f[p] \in Nat \X Nat /\ f[q] \in Nat \X Nat /\ p \in Nat \X Nat /\ q \in Nat \X Nat
      OBVIOUS
  <2>2. p = q \/ Precedes(p, q) \/ Precedes(q, p)
      BY <2>1, Ordered
  <2>3. /\ ~Precedes(f[p], f[p]) /\ ~Precedes(f[q], f[q])
        /\ ~(Precedes(f[p], f[q]) /\ Precedes(f[q], f[p]))
      BY <2>1, Ordered
  <2> QED BY <2>2, <2>3
<1>2. ASSUME NEW C \in SUBSET A, NEW D \in SUBSET B, \A p \in A : p \in C <=> f[p] \in D
      PROVE  Cardinality(C) = Cardinality(D)
  <2> DEFINE g == [p \in C |-> f[p]]
  <2>1. IsFiniteSet(D)
      BY FS_Subset
  <2>2. g \in [C -> D]
      BY <1>2
  <2>3. \A q \in D : \E p \in C : g[p] = q
    <3> TAKE q \in D
    <3>1. PICK p \in A : f[p] = q
        OBVIOUS
    <3> QED BY <3>1, <1>2
  <2>4. \A p, q \in C : g[p] = g[q] => p = q
      BY <1>1
  <2> HIDE DEF g
  <2>5. g \in Injection(C, D)
      BY <2>2, <2>4 DEF Injection, IsInjective
  <2>6. g \in Surjection(C, D)
      BY <2>2, <2>3 DEF Surjection
  <2> QED BY <2>1, <2>5, <2>6, FS_Injection
<1>3. Cardinality(A) = Cardinality(B)
  <2>1. A \in SUBSET A /\ B \in SUBSET B /\ \A p \in A : p \in A <=> f[p] \in B
      OBVIOUS
  <2> QED BY <2>1, <1>2
<1>4. ASSUME NEW p \in A PROVE Rank(p, A) = Rank(f[p], B)
  <2> DEFINE C == {q \in A : Precedes(q, p)}
             D == {q \in B : Precedes(q, f[p])}
  <2>1. C \in SUBSET A /\ D \in SUBSET B
      OBVIOUS
  <2>2. \A q \in A : q \in C <=> f[q] \in D
      BY <1>1
  <2>3. Rank(p, A) = Cardinality(C) /\ Rank(f[p], B) = Cardinality(D)
      BY DEF Rank
  <2> HIDE DEF C, D
  <2> QED BY <2>1, <2>2, <2>3, <1>2
<1> QED BY <1>3, <1>4

\* In a request all of the messages are rendered.
LEMMA AllRendered ==
    ASSUME CallInv, PairInv, KeptInv, Translated
    PROVE  /\ Unanswered = {} /\ TypeOK
           /\ \A p \in Places(Written) : p \in Nat \X Nat /\ p = <<p[1], p[2]>>
                  /\ p[1] \in DOMAIN body /\ p[2] \in DOMAIN body[p[1]].parts
                  /\ BlockAt(Written, p) = body[p[1]].parts[p[2]]
           /\ \E F : /\ F \in [Places(Written) -> Places(Contents)]
                     /\ Rendering(messages, body, Places(Contents), F)
<1>1. /\ pc = "request" /\ ~translating /\ wire \in {"openai", "gemini"} /\ TypeOK
      /\ body \in Seq(Turns)
    BY DEF Translated, PairInv, BodyInv, CallInv, TypeOK, TranslationTypeOK
<1>2. Unanswered = {}
    BY <1>1 DEF PairInv, OpenInv, NoneOpen
<1>3. Written = PartsOf(body) /\ ContentsOf(messages) = Contents
    BY DEF Written, PartsOf, ContentsOf, Contents
<1>4. \A p \in Places(Written) : p \in Nat \X Nat /\ p = <<p[1], p[2]>>
          /\ p[1] \in DOMAIN body /\ p[2] \in DOMAIN body[p[1]].parts
          /\ BlockAt(Written, p) = body[p[1]].parts[p[2]]
    BY <1>1, <1>3, TurnPlaces
<1>5. done = Len(messages)
    BY <1>1 DEF KeptInv, RenderInv
<1>6. Upto(messages, Len(messages)) = Places(Contents)
  <2>1. \A q \in Places(Contents) : q[1] \in DOMAIN messages
      BY ContentsAre
  <2>2. \A m \in DOMAIN messages : m <= Len(messages)
      BY <1>1 DEF TypeOK, TranslationTypeOK
  <2> QED BY <2>1, <2>2, <1>3 DEF Upto
<1>7. PICK F : Rendering(messages, body, Places(Contents), F)
    BY <1>1, <1>5, <1>6 DEF KeptInv, RenderInv
<1>8. F \in [Places(Written) -> Places(Contents)]
    BY <1>3, <1>7 DEF Rendering
<1> QED BY <1>1, <1>2, <1>4, <1>7, <1>8

\* What a rendering of all messages says.
LEMMA RenderingIs ==
    ASSUME NEW F, Rendering(messages, body, Places(Contents), F)
    PROVE  /\ F \in [Places(Written) -> Places(Contents)]
           /\ \A q \in Places(Contents) : \E p \in Places(Written) : F[p] = q
           /\ \A p \in Places(Written) :
                  /\ BlockAt(Written, p).type = BlockAt(Contents, F[p]).type
                  /\ BlockAt(Written, p).call = BlockAt(Contents, F[p]).call
                  /\ body[p[1]].role \in Answering <=> messages[F[p][1]].role = "assistant"
           /\ \A p, q \in Places(Written) : Precedes(p, q) =>
                  /\ F[p][1] <= F[q][1]
                  /\ BlockAt(Written, p).type = BlockAt(Written, q).type => Precedes(F[p], F[q])
                  /\ BlockAt(Written, p).type = "text" /\ BlockAt(Written, q).type = "tool_result" =>
                         F[p][1] # F[q][1]
           /\ \A p, q \in Places(Written) :
                  F[p][1] = F[q][1] /\ messages[F[p][1]].role = "assistant" => p[1] = q[1]
<1>1. Written = PartsOf(body) /\ ContentsOf(messages) = Contents
    BY DEF Written, PartsOf, ContentsOf, Contents
<1> QED BY <1>1 DEF Rendering

\* The n-th block of a kind in the request is the n-th of the conversation.
LEMMA NoneLost == CallInv /\ PairInv /\ KeptInv => NothingLost
<1> SUFFICES ASSUME CallInv, PairInv, KeptInv, Translated,
                    NEW type \in {"text", "tool_use", "tool_result"}
             PROVE  LET written == OfType(Written, type)
                        meant == OfType(Contents, type)
                    IN  /\ Cardinality(written) = Cardinality(meant)
                        /\ \A p \in written, q \in meant : Rank(p, written) = Rank(q, meant) =>
                               BlockAt(Written, p).call = BlockAt(Contents, q).call
    BY DEF NothingLost
<1>1. PICK F : Rendering(messages, body, Places(Contents), F)
    BY AllRendered
<1>2. PICK A : A = OfType(Written, type)
    OBVIOUS
<1>3. PICK B : B = OfType(Contents, type)
    OBVIOUS
<1>4. /\ \A p : p \in A <=> p \in Places(Written) /\ BlockAt(Written, p).type = type
      /\ \A p : p \in B <=> p \in Places(Contents) /\ BlockAt(Contents, p).type = type
    BY <1>2, <1>3 DEF OfType
<1>5. A \in SUBSET (Nat \X Nat)
    BY <1>4, AllRendered
<1>6. B \in SUBSET (Nat \X Nat)
    BY <1>4, PlaceTyped DEF CallInv
<1>7. IsFiniteSet(B)
  <2>1. B \in SUBSET Places(Contents)
      BY <1>4
  <2> QED BY <2>1, PlacesFinite, FS_Subset DEF CallInv
<1> DEFINE f == [p \in A |-> F[p]]
<1>8. \A p \in A : F[p] \in B
    BY <1>1, <1>4, RenderingIs
<1>9. f \in [A -> B] /\ \A p \in A : f[p] = F[p]
    BY <1>8
<1> HIDE DEF f
<1>10. \A q \in B : \E p \in A : f[p] = q
  <2> TAKE q \in B
  <2>1. PICK p \in Places(Written) : F[p] = q
      BY <1>1, <1>4, RenderingIs
  <2>2. p \in A
      BY <2>1, <1>1, <1>4, RenderingIs
  <2> QED BY <2>1, <2>2, <1>9
<1>11. \A p, q \in A : Precedes(p, q) => Precedes(f[p], f[q])
    BY <1>1, <1>4, <1>9, RenderingIs
<1>12. /\ Cardinality(A) = Cardinality(B)
       /\ \A p \in A : Rank(p, A) = Rank(f[p], B)
    BY <1>5, <1>6, <1>7, <1>9, <1>10, <1>11, RankKept
<1>13. ASSUME NEW p \in A, NEW q \in B, Rank(p, A) = Rank(q, B)
       PROVE  BlockAt(Written, p).call = BlockAt(Contents, q).call
  <2>1. f[p] \in B /\ Rank(f[p], B) = Rank(q, B)
      BY <1>9, <1>12, <1>13
  <2>2. f[p] = q
      BY <2>1, <1>6, <1>7, RanksDiffer
  <2> QED BY <2>2, <1>1, <1>4, <1>9, RenderingIs
<1> QED BY <1>2, <1>3, <1>12, <1>13

\* The results of a turn's calls stand right behind it.
LEMMA AtOnce == CallInv /\ PairInv /\ KeptInv => AnsweredAtOnce
<1> SUFFICES ASSUME CallInv, PairInv, KeptInv, Translated, NEW t \in DOMAIN body
             PROVE  LET behind == {p \in Places(Written) : t < p[1]}
                        called == {use.call : use \in {part \in ToSet(body[t].parts) :
                                                          part.type = "tool_use"}}
                        answering == {p \in behind \cap OfType(Written, "tool_result") :
                                         BlockAt(Written, p).call \in called}
                    IN  /\ \A call \in called : \E p \in answering : BlockAt(Written, p).call = call
                        /\ \A p, q \in answering :
                               BlockAt(Written, p).call = BlockAt(Written, q).call => p = q
                        /\ \A p \in answering, q \in behind : Precedes(q, p) => q \in answering
    BY DEF AnsweredAtOnce
<1>1. PICK F : Rendering(messages, body, Places(Contents), F)
    BY AllRendered
<1>2. PICK behind : behind = {p \in Places(Written) : t < p[1]}
    OBVIOUS
<1>3. PICK called : called = {use.call : use \in {part \in ToSet(body[t].parts) :
                                                     part.type = "tool_use"}}
    OBVIOUS
<1>4. PICK answering : answering = {p \in behind \cap OfType(Written, "tool_result") :
                                       BlockAt(Written, p).call \in called}
    OBVIOUS
<1>5. PICK P : P = Places(Written)
    OBVIOUS
<1>6. PICK Q : Q = Places(Contents)
    OBVIOUS
<1>i. /\ TypeOK /\ OpenInv /\ ResultsOnce /\ WholeAnswers /\ AnsweredFirst
      /\ Unanswered = {} /\ SaidLinked
    BY AllRendered DEF CallInv, PairInv, KeptInv, AtOnceInv
<1>7. /\ F \in [P -> Q]
      /\ \A q \in Q : \E p \in P : F[p] = q
      /\ \A p \in P : /\ BlockAt(Written, p).type = BlockAt(Contents, F[p]).type
                      /\ BlockAt(Written, p).call = BlockAt(Contents, F[p]).call
                      /\ body[p[1]].role \in Answering <=> messages[F[p][1]].role = "assistant"
      /\ \A p, q \in P : Precedes(p, q) =>
              /\ F[p][1] <= F[q][1]
              /\ BlockAt(Written, p).type = BlockAt(Written, q).type => Precedes(F[p], F[q])
              /\ BlockAt(Written, p).type = "text" /\ BlockAt(Written, q).type = "tool_result" =>
                     F[p][1] # F[q][1]
      /\ \A p, q \in P : F[p][1] = F[q][1] /\ messages[F[p][1]].role = "assistant" => p[1] = q[1]
    BY <1>1, <1>5, <1>6, RenderingIs
<1>8. \A p \in P : /\ p \in Nat \X Nat /\ p[1] \in Nat /\ p = <<p[1], p[2]>>
                   /\ p[1] \in DOMAIN body /\ p[2] \in DOMAIN body[p[1]].parts
                   /\ BlockAt(Written, p) = body[p[1]].parts[p[2]]
    BY <1>5, AllRendered
<1>9. \A q \in Q : /\ q \in Nat \X Nat /\ q[1] \in Nat /\ q[2] \in Nat
                   /\ BlockAt(Contents, q) = messages[q[1]].content[q[2]]
                   /\ q[1] \in DOMAIN messages /\ q[2] \in DOMAIN messages[q[1]].content
                   /\ BlockAt(Contents, q) \in Blocks
    BY <1>6, <1>i, PlaceTyped
<1>10. \A q \in Q : /\ BlockAt(Contents, q).type = "tool_use" => messages[q[1]].role = "assistant"
                    /\ BlockAt(Contents, q).type = "tool_result" => messages[q[1]].role = "user"
                    /\ Linked(BlockAt(Contents, q))
    BY <1>6, <1>i, WhoSays
<1>11. t \in Nat
  <2>1. body \in Seq(Turns)
      BY <1>i DEF TypeOK, TranslationTypeOK
  <2> QED BY <2>1
\* The calls of the turn, by their places in the messages.
<1>12. ASSUME NEW call \in called
       PROVE  \E p \in P : /\ p[1] = t /\ BlockAt(Written, p).type = "tool_use"
                           /\ BlockAt(Written, p).call = call
  <2>1. PICK use \in ToSet(body[t].parts) : use.type = "tool_use" /\ use.call = call
      BY <1>3
  <2>2. PICK i \in DOMAIN body[t].parts : use = body[t].parts[i]
      BY <2>1 DEF ToSet
  <2>3. PICK p : p = <<t, i>>
      OBVIOUS
  <2>4. p = <<p[1], p[2]>> /\ p[1] = t /\ p[2] = i
      BY <2>3
  <2>5. Written = [s \in DOMAIN body |-> body[s].parts]
      BY DEF Written
  <2>6. t \in DOMAIN Written /\ i \in DOMAIN Written[t]
      BY <2>2, <2>5
  <2>7. p \in P
      BY <2>4, <2>6, <1>5, PlacesAre
  <2> QED BY <2>1, <2>2, <2>4, <2>7, <1>8
<1>13. ASSUME NEW p \in P, p[1] = t, BlockAt(Written, p).type = "tool_use"
       PROVE  BlockAt(Written, p).call \in called
  <2>1. BlockAt(Written, p) = body[t].parts[p[2]] /\ p[2] \in DOMAIN body[t].parts
      BY <1>8, <1>13
  <2>2. BlockAt(Written, p) \in ToSet(body[t].parts)
      BY <2>1 DEF ToSet
  <2> QED BY <2>2, <1>3, <1>13
<1>14. ASSUME NEW p \in P, BlockAt(Written, p).type = "tool_use"
       PROVE  /\ F[p] \in Uses /\ Use(F[p]).call = BlockAt(Written, p).call
              /\ F[p] \in Q /\ messages[F[p][1]].role = "assistant"
  <2>1. F[p] \in Q /\ BlockAt(Contents, F[p]).type = "tool_use"
      BY <1>7, <1>14
  <2>2. /\ F[p] = <<F[p][1], F[p][2]>>
        /\ BlockAt(Contents, F[p]) = messages[F[p][1]].content[F[p][2]]
        /\ F[p][1] \in DOMAIN messages /\ F[p][2] \in DOMAIN messages[F[p][1]].content
      BY <2>1, <1>6, ContentsAre
  <2>3. F[p] \in Uses
      BY <2>1, <2>2, UsesAre
  <2>4. Use(F[p]) = BlockAt(Contents, F[p])
      BY <2>2 DEF Use
  <2> QED BY <2>1, <2>3, <2>4, <1>7, <1>10
<1>15. ASSUME NEW p \in P, BlockAt(Written, p).type = "tool_result"
       PROVE  /\ F[p] \in ResultPlaces /\ CallAt(F[p]) = BlockAt(Written, p).call
              /\ F[p] \in Q /\ messages[F[p][1]].role = "user"
  <2>1. F[p] \in Q /\ BlockAt(Contents, F[p]).type = "tool_result"
      BY <1>7, <1>15
  <2> QED BY <2>1, <1>6, <1>7, <1>10 DEF ResultPlaces, OfType, CallAt
<1>16. \A p : p \in answering <=> /\ p \in P /\ t < p[1] /\ BlockAt(Written, p).type = "tool_result"
                                  /\ BlockAt(Written, p).call \in called
    BY <1>2, <1>4, <1>5 DEF OfType
<1>17. \A p : p \in behind <=> p \in P /\ t < p[1]
    BY <1>2, <1>5
\* Each call has its result.
<1>18. ASSUME NEW call \in called PROVE \E p \in answering : BlockAt(Written, p).call = call
  <2>1. PICK u \in P : /\ u[1] = t /\ BlockAt(Written, u).type = "tool_use"
                       /\ BlockAt(Written, u).call = call
      BY <1>12
  <2>2. F[u] \in Uses /\ Use(F[u]).call = call /\ messages[F[u][1]].role = "assistant" /\ F[u] \in Q
      BY <2>1, <1>14
  <2>3. call \in Answered
      BY <2>2, <1>i DEF Unanswered
  <2>4. PICK r \in ResultPlaces : CallAt(r) = call /\ F[u][1] < r[1]
      BY <2>2, <2>3, <1>i, AnsweredBy
  <2>5. r \in Q /\ BlockAt(Contents, r).type = "tool_result" /\ BlockAt(Contents, r).call = call
      BY <2>4, <1>6 DEF ResultPlaces, OfType, CallAt
  <2>6. PICK p \in P : F[p] = r
      BY <2>5, <1>7
  <2>7. BlockAt(Written, p).type = "tool_result" /\ BlockAt(Written, p).call = call
      BY <2>5, <2>6, <1>7
  <2>8. ~Precedes(p, u)
    <3>1. F[u][1] \in Nat /\ r[1] \in Nat
        BY <2>2, <2>5, <1>9
    <3>2. Precedes(p, u) => r[1] <= F[u][1]
        BY <2>6, <1>7
    <3> QED BY <3>1, <3>2, <2>4
  <2>9. p[1] # t
    <3>1. body[p[1]].role \notin Answering
      <4>1. messages[r[1]].role # "assistant"
          BY <2>5, <1>10
      <4> QED BY <4>1, <2>6, <1>7
    <3>2. body[u[1]].role \in Answering
        BY <2>2, <1>7
    <3> QED BY <3>1, <3>2, <2>1
  <2>10. t < p[1]
      BY <2>1, <2>8, <2>9, <1>8, <1>11 DEF Precedes
  <2> QED BY <2>7, <2>10, <1>16
\* It has no other.
<1>19. ASSUME NEW p \in answering, NEW q \in answering,
              BlockAt(Written, p).call = BlockAt(Written, q).call
       PROVE  p = q
  <2>1. /\ p \in P /\ BlockAt(Written, p).type = "tool_result"
        /\ q \in P /\ BlockAt(Written, q).type = "tool_result"
      BY <1>16
  <2>2. F[p] = F[q]
      BY <2>1, <1>15, <1>19, <1>i DEF ResultsOnce
  <2>3. ~Precedes(F[p], F[q]) /\ ~Precedes(F[q], F[p])
      BY <2>1, <2>2, <1>9, <1>15, Ordered
  <2>4. ~Precedes(p, q) /\ ~Precedes(q, p)
      BY <2>1, <2>3, <1>7
  <2> QED BY <2>1, <2>4, <1>8, Ordered
\* And nothing is between.
<1>20. ASSUME NEW p \in answering, NEW q \in behind, Precedes(q, p) PROVE q \in answering
  <2>1. /\ p \in P /\ BlockAt(Written, p).type = "tool_result" /\ BlockAt(Written, p).call \in called
        /\ q \in P /\ t < q[1]
      BY <1>16, <1>17
  <2>2. PICK u \in P : /\ u[1] = t /\ BlockAt(Written, u).type = "tool_use"
                       /\ BlockAt(Written, u).call = BlockAt(Written, p).call
      BY <2>1, <1>12
  <2>3. PICK call : call = BlockAt(Written, p).call
      OBVIOUS
  <2>4. /\ F[u] \in Uses /\ Use(F[u]).call = call /\ F[u] \in Q
        /\ messages[F[u][1]].role = "assistant"
      BY <2>2, <2>3, <1>14
  <2>5. F[p] \in ResultPlaces /\ CallAt(F[p]) = call /\ F[p] \in Q
      BY <2>1, <2>3, <1>15
  <2>6. F[q] \in Q /\ F[q][1] \in Nat /\ F[u][1] \in Nat /\ F[p][1] \in Nat
      BY <2>1, <2>4, <2>5, <1>7, <1>9
  <2>7. F[u][1] < F[q][1]
    <3>1. Precedes(u, q)
        BY <2>1, <2>2 DEF Precedes
    <3>2. F[u][1] <= F[q][1]
        BY <3>1, <2>1, <1>7
    <3>3. F[u][1] # F[q][1]
      <4>1. u[1] # q[1]
          BY <2>1, <2>2, <1>8, <1>11
      <4> QED BY <4>1, <2>1, <2>4, <1>7
    <3> QED BY <3>2, <3>3, <2>6
  <2>8. F[q][1] <= F[p][1]
      BY <2>1, <1>7, <1>20
  <2>9. F[q] \in ResultPlaces /\ CallAt(F[q])[1] = call[1]
    <3> SUFFICES ASSUME ~(F[q] \in ResultPlaces /\ CallAt(F[q])[1] = Use(F[u]).call[1]) PROVE FALSE
        BY <2>4
    <3>1. PICK r \in ResultPlaces :
              /\ CallAt(r) = Use(F[u]).call /\ F[u][1] < r[1]
              /\ r[1] < F[q][1] \/ (r[1] = F[q][1] /\ F[q] \in OfType(Contents, "text"))
        BY <2>4, <2>6, <2>7, <1>6, <1>i DEF AnsweredFirst
    <3>2. r = F[p]
        BY <3>1, <2>4, <2>5, <1>i DEF ResultsOnce
    <3>3. ~(F[p][1] < F[q][1])
        BY <2>6, <2>8
    <3>4. F[p][1] = F[q][1] /\ BlockAt(Contents, F[q]).type = "text"
        BY <3>1, <3>2, <3>3 DEF OfType
    <3>5. BlockAt(Written, q).type = "text"
        BY <3>4, <2>1, <1>7
    <3> QED BY <3>4, <3>5, <2>1, <1>7, <1>20
  <2>10. BlockAt(Written, q).type = "tool_result" /\ CallAt(F[q]) = BlockAt(Written, q).call
      BY <2>1, <2>9, <1>7 DEF ResultPlaces, OfType, CallAt
  <2>11. PICK c : c = BlockAt(Written, q).call
      OBVIOUS
  <2>12. c = BlockAt(Contents, F[q]).call /\ BlockAt(Contents, F[q]).type = "tool_result"
      BY <2>1, <2>10, <2>11, <1>7
  <2>13. Placed(c) /\ Said(c).type = "tool_use" /\ c = <<c[1], c[2]>>
    <3>1. Linked(BlockAt(Contents, F[q])) /\ BlockAt(Contents, F[q]) \in Blocks
        BY <2>6, <1>9, <1>10
    <3>2. c \in Nat \X Nat
        BY <3>1, <2>12 DEF Blocks
    <3> QED BY <3>1, <3>2, <2>12 DEF Linked
  <2> DEFINE m == F[u][1]
  <2>14. m \in DOMAIN messages /\ messages[m].role = "assistant"
      BY <2>4, <1>9
  <2>15. PICK s \in DOMAIN said : messages[m].content = said[s]
      BY <2>14, <1>i DEF WholeAnswers
  <2>16. call[1] = s
    <3>1. F[u][2] \in DOMAIN said[s] /\ Use(F[u]) = said[s][F[u][2]]
        BY <2>4, <2>15, <1>9 DEF Use
    <3>2. said[s][F[u][2]].call = <<s, F[u][2]>>
        BY <3>1, <1>i DEF SaidLinked
    <3> QED BY <3>1, <3>2, <2>4
  <2>17. c[1] = s /\ c[2] \in DOMAIN said[s] /\ said[s][c[2]].type = "tool_use"
      BY <2>9, <2>10, <2>11, <2>13, <2>16 DEF Placed, Said
  <2>18. said[s][c[2]].call = c
    <3>1. said[s][c[2]].call = <<s, c[2]>>
        BY <2>17, <1>i DEF SaidLinked
    <3> QED BY <3>1, <2>13, <2>17
  <2>19. PICK v : v = <<m, c[2]>>
      OBVIOUS
  <2>20. v = <<v[1], v[2]>> /\ v[1] = m /\ v[2] = c[2]
      BY <2>19
  <2> HIDE DEF m
  <2>21. v \in Q /\ BlockAt(Contents, v) = said[s][c[2]]
      BY <2>14, <2>15, <2>17, <2>20, <1>6, ContentsAre
  <2>22. PICK w \in P : F[w] = v
      BY <2>21, <1>7
  <2>23. BlockAt(Written, w).type = "tool_use" /\ BlockAt(Written, w).call = c
      BY <2>17, <2>18, <2>21, <2>22, <1>7
  <2>24. w[1] = t
    <3>1. F[w][1] = F[u][1] /\ messages[F[w][1]].role = "assistant"
        BY <2>14, <2>20, <2>22 DEF m
    <3> QED BY <3>1, <2>2, <1>7
  <2>25. c \in called
      BY <2>23, <2>24, <1>13
  <2> QED BY <2>1, <2>10, <2>11, <2>25, <1>16
<1> QED BY <1>2, <1>3, <1>4, <1>18, <1>19, <1>20

\* Whatever the wires, however the results come and whatever has been forgotten: in
\* the requests of the wires that rewrite the messages, the results of a turn's calls
\* stand right behind it, one of each, with nothing before or between them.
THEOREM AnsweredNext == Spec => []AnsweredAtOnce
<1> QED BY Kept, AtOnce, PTL

\* And no text, call or result is lost in them, doubled, or moved before another of
\* its kind.
THEOREM WholeConversation == Spec => []NothingLost
<1> QED BY Kept, NoneLost, PTL
=============================================================================
