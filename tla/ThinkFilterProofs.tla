-------------------------- MODULE ThinkFilterProofs --------------------------
(***************************************************************************)
(* Theorems about ThinkFilter, for any tags, alphabet, responses and ways  *)
(* to cut them into pieces.                                                *)
(***************************************************************************)
EXTENDS ThinkFilter, WellFoundedInduction, TLAPS
-----------------------------------------------------------------------------
(***************************************************************************)
(* Suffixes.                                                               *)
(***************************************************************************)
Text == Seq(Alphabet)

\* Texts with the same characters are the same.
LEMMA SameText ==
    ASSUME NEW s \in Text, NEW t \in Text, Len(s) = Len(t),
           \A k \in 1..Len(t) : s[k] = t[k]
    PROVE  s = t
BY DEF Text

\* What two texts are joined to.
LEMMA Joined ==
    ASSUME NEW s \in Text, NEW t \in Text
    PROVE  /\ s \o t \in Text
           /\ Len(s \o t) = Len(s) + Len(t)
           /\ \A k \in 1..Len(s) : (s \o t)[k] = s[k]
           /\ \A k \in 1..Len(t) : (s \o t)[Len(s) + k] = t[k]
BY DEF Text

\* From takes the tail that starts at i.
LEMMA FromType ==
    ASSUME NEW s \in Text, NEW i \in 1..(Len(s) + 1)
    PROVE  /\ From(s, i) \in Text
           /\ Len(From(s, i)) = Len(s) + 1 - i
           /\ \A k \in 1..(Len(s) + 1 - i) : From(s, i)[k] = s[i + k - 1]
BY DEF From, Text

\* A suffix of a suffix is a suffix.
LEMMA FromFrom ==
    ASSUME NEW s \in Text, NEW i \in 1..(Len(s) + 1),
           NEW j \in 1..(Len(s) + 1 - i + 1)
    PROVE  /\ i + j - 1 \in 1..(Len(s) + 1)
           /\ From(From(s, i), j) = From(s, i + j - 1)
<1> DEFINE u == From(s, i)
           n == i + j - 1
<1>0. Len(s) \in Nat /\ i \in Nat /\ j \in Nat
    BY DEF Text
<1>1. n \in 1..(Len(s) + 1)
    BY <1>0
<1>2. /\ u \in Text /\ Len(u) = Len(s) + 1 - i
      /\ \A k \in 1..(Len(s) + 1 - i) : u[k] = s[i + k - 1]
    BY FromType
<1>3. j \in 1..(Len(u) + 1)
    BY <1>0, <1>2
<1> HIDE DEF u
<1>4. /\ From(u, j) \in Text /\ Len(From(u, j)) = Len(u) + 1 - j
      /\ \A k \in 1..(Len(u) + 1 - j) : From(u, j)[k] = u[j + k - 1]
    BY <1>2, <1>3, FromType
<1> HIDE DEF n
<1>5. /\ From(s, n) \in Text /\ Len(From(s, n)) = Len(s) + 1 - n
      /\ \A k \in 1..(Len(s) + 1 - n) : From(s, n)[k] = s[n + k - 1]
    BY <1>1, FromType
<1>6. Len(From(u, j)) = Len(From(s, n))
    BY <1>0, <1>2, <1>4, <1>5 DEF n
<1>7. ASSUME NEW k \in 1..Len(From(s, n))
      PROVE  From(u, j)[k] = From(s, n)[k]
  <2>1. k \in 1..(Len(s) + 1 - n) /\ k \in 1..(Len(u) + 1 - j)
      BY <1>4, <1>5, <1>6
  <2>2. j + k - 1 \in 1..(Len(s) + 1 - i)
      BY <1>0, <1>2, <2>1
  <2>3. i + (j + k - 1) - 1 = n + k - 1
      BY <1>0, <2>1 DEF n
  <2> QED BY <1>2, <1>4, <1>5, <2>1, <2>2, <2>3
<1>8. From(u, j) = From(s, n)
    BY <1>4, <1>5, <1>6, <1>7, SameText
<1> QED BY <1>1, <1>8 DEF u, n

\* What is appended to a text is appended to its suffixes.
LEMMA FromConcat ==
    ASSUME NEW s \in Text, NEW t \in Text, NEW i \in 1..(Len(s) + 1)
    PROVE  i \in 1..(Len(s \o t) + 1) /\ From(s \o t, i) = From(s, i) \o t
<1> DEFINE st == s \o t
           u == From(s, i)
<1>0. Len(s) \in Nat /\ Len(t) \in Nat /\ i \in Nat
    BY DEF Text
<1>1. /\ st \in Text /\ Len(st) = Len(s) + Len(t)
      /\ \A k \in 1..Len(s) : st[k] = s[k]
      /\ \A k \in 1..Len(t) : st[Len(s) + k] = t[k]
    BY Joined
<1>2. /\ u \in Text /\ Len(u) = Len(s) + 1 - i
      /\ \A k \in 1..(Len(s) + 1 - i) : u[k] = s[i + k - 1]
    BY FromType
<1>3. i \in 1..(Len(st) + 1)
    BY <1>0, <1>1
<1> HIDE DEF st, u
<1>4. /\ From(st, i) \in Text /\ Len(From(st, i)) = Len(st) + 1 - i
      /\ \A k \in 1..(Len(st) + 1 - i) : From(st, i)[k] = st[i + k - 1]
    BY <1>1, <1>3, FromType
<1>5. /\ u \o t \in Text /\ Len(u \o t) = Len(u) + Len(t)
      /\ \A k \in 1..Len(u) : (u \o t)[k] = u[k]
      /\ \A k \in 1..Len(t) : (u \o t)[Len(u) + k] = t[k]
    BY <1>2, Joined
<1>6. Len(From(st, i)) = Len(u \o t)
    BY <1>0, <1>1, <1>2, <1>4, <1>5
<1>7. ASSUME NEW k \in 1..Len(u \o t)
      PROVE  From(st, i)[k] = (u \o t)[k]
  <2>1. k \in Int /\ From(st, i)[k] = st[i + k - 1]
      BY <1>4, <1>6
  <2>2. CASE k <= Len(u)
    <3>1. k \in 1..Len(u) /\ k \in 1..(Len(s) + 1 - i) /\ i + k - 1 \in 1..Len(s)
        BY <1>0, <1>2, <2>1, <2>2
    <3> QED BY <1>1, <1>2, <1>5, <2>1, <3>1
  <2>3. CASE k > Len(u)
    <3> DEFINE m == k - Len(u)
    <3>1. m \in 1..Len(t) /\ Len(u) + m = k /\ Len(s) + m = i + k - 1
        BY <1>0, <1>2, <1>5, <2>1, <2>3
    <3> HIDE DEF m
    <3>2. (u \o t)[k] = t[m]
        BY <1>5, <3>1
    <3>3. st[i + k - 1] = t[m]
        BY <1>1, <3>1
    <3> QED BY <2>1, <3>2, <3>3
  <2>4. k <= Len(u) \/ k > Len(u)
      BY <1>0, <1>2, <2>1
  <2> QED BY <2>2, <2>3, <2>4
<1>8. From(st, i) = u \o t
    BY <1>4, <1>5, <1>6, <1>7, SameText
<1> QED BY <1>3, <1>8 DEF st, u

\* A set of positions that is not empty has a least one.
LEMMA LeastPosition ==
    ASSUME NEW S \in SUBSET Nat, S # {}
    PROVE  \E m \in S : \A k \in S : m <= k
<1>1. PICK m \in S : \A k \in S : ~(<<k, m>> \in OpToRel(<, Nat))
    BY NatLessThanWellFounded, WFMin
<1>2. \A k \in S : ~(k < m)
    BY <1>1 DEF OpToRel
<1> QED BY <1>2

\* What stripping in front leaves is a suffix.
LEMMA LStripSuffix ==
    ASSUME NEW s \in Text, NEW chars
    PROVE  \E k \in 1..(Len(s) + 1) : LStrip(s, chars) = From(s, k)
<1> DEFINE I == {i \in 1..Len(s) : s[i] \notin chars}
           first == SelectInSeq(s, LAMBDA c : c \notin chars)
<1>0. Len(s) \in Nat
    BY DEF Text
<1>1. LStrip(s, chars) = IF first = 0 THEN <<>> ELSE From(s, first)
    BY DEF LStrip
<1>2. first = IF I # {} THEN Min(I) ELSE 0
    BY DEF SelectInSeq
<1>3. CASE I = {}
  <2>1. LStrip(s, chars) = <<>>
      BY <1>1, <1>2, <1>3
  <2>2. Len(s) + 1 \in 1..(Len(s) + 1) /\ From(s, Len(s) + 1) = <<>>
      BY <1>0 DEF From, Text
  <2> QED BY <2>1, <2>2
<1>4. CASE I # {}
  <2>1. I \in SUBSET Nat
      BY <1>0
  <2>2. PICK m \in I : \A k \in I : m <= k
      BY <1>4, <2>1, LeastPosition
  <2>3. Min(I) \in I
      BY <2>2 DEF Min
  <2>4. first \in 1..Len(s)
      BY <1>2, <1>4, <2>3
  <2>5. first # 0 /\ first \in 1..(Len(s) + 1)
      BY <1>0, <2>4
  <2> HIDE DEF first
  <2> QED BY <1>1, <2>5
<1> QED BY <1>3, <1>4

\* Where a word is found, there is room for it.
LEMMA FindRange ==
    ASSUME NEW s \in Text, NEW word \in Text, Find(s, word, 1) # 0
    PROVE  Find(s, word, 1) \in 1..(Len(s) - Len(word) + 1)
<1> DEFINE at == {j \in 1..(Len(s) - Len(word) + 1) : IsPrefix(word, From(s, j))}
<1>1. at # {} /\ Find(s, word, 1) = CHOOSE j \in at : \A k \in at : j <= k
    BY DEF Find
<1>2. at \in SUBSET Nat
    BY DEF Text
<1>3. PICK m \in at : \A k \in at : m <= k
    BY <1>1, <1>2, LeastPosition
<1>4. Find(s, word, 1) \in at
    BY <1>1, <1>3
<1> QED BY <1>4

\* What the filter returns behind a block is a suffix of its buffer.
LEMMA RemainderSuffix ==
    ASSUME NEW s \in Text, Find(s, Close, 1) # 0
    PROVE  \E k \in 1..(Len(s) + 1) : Remainder(s, Find(s, Close, 1)) = From(s, k)
<1> DEFINE end == Find(s, Close, 1)
           i == end + Len(Close)
           u == From(s, i)
<1>0. Close \in Text /\ Len(Close) \in Nat /\ Len(s) \in Nat
    BY FilterAssumption DEF Text
<1>1. end \in 1..(Len(s) - Len(Close) + 1)
    BY <1>0, FindRange
<1>2. i \in 1..(Len(s) + 1)
    BY <1>0, <1>1
<1> HIDE DEF i
<1>3. u \in Text /\ Len(u) = Len(s) + 1 - i
    BY <1>2, FromType
<1>4. PICK j \in 1..(Len(u) + 1) : LStrip(u, {Newline}) = From(u, j)
    BY <1>3, LStripSuffix
<1>5. j \in 1..(Len(s) + 1 - i + 1)
    BY <1>0, <1>2, <1>3, <1>4
<1>6. i + j - 1 \in 1..(Len(s) + 1) /\ From(u, j) = From(s, i + j - 1)
    BY <1>2, <1>5, FromFrom
<1>7. Remainder(s, end) = LStrip(u, {Newline})
    BY DEF Remainder, i
<1> QED BY <1>4, <1>6, <1>7
-----------------------------------------------------------------------------
(***************************************************************************)
(* Types.                                                                  *)
(***************************************************************************)
LEMMA DeltaType == \A delta \in Deltas : delta \in Text
BY DEF Deltas, SeqOf, Text

LEMMA RemainderType ==
    ASSUME NEW s \in Text, Find(s, Close, 1) # 0
    PROVE  Remainder(s, Find(s, Close, 1)) \in Text
BY RemainderSuffix, FromType

LEMMA TypeInit == Init => TypeOK
<1> SUFFICES ASSUME Init
             PROVE  TypeOK
    OBVIOUS
<1>1. state \in {"start", "think", "pass"}
    BY DEF Init
<1>2. flushed \in BOOLEAN
    BY DEF Init
<1>3. buf \in Seq(Alphabet) /\ fed \in Seq(Alphabet) /\ out \in Seq(Alphabet)
    BY DEF Init
<1> QED BY <1>1, <1>2, <1>3 DEF TypeOK

LEMMA TypeStep == TypeOK /\ [Next]_vars => TypeOK'
<1> SUFFICES ASSUME TypeOK, [Next]_vars
             PROVE  TypeOK'
    OBVIOUS
<1>0. buf \in Text /\ fed \in Text /\ out \in Text
    BY DEF TypeOK, Text
<1>1. ASSUME NEW delta \in Deltas, feed(delta)
      PROVE  TypeOK'
  <2>1. delta \in Text /\ buf \o delta \in Text /\ out \o delta \in Text /\ fed \o delta \in Text
      BY <1>0, DeltaType, Joined
  <2>2. flushed' \in BOOLEAN /\ fed' \in Text
      BY <1>1, <2>1 DEF feed, TypeOK
  <2>3. CASE Pass(delta)
      BY <2>1, <2>2, <2>3 DEF Pass, Emit, TypeOK, Text
  <2>4. CASE Hold(delta)
      BY <2>1, <2>2, <2>4 DEF Hold, TypeOK, Text
  <2>5. CASE Resolve(delta)
    <3>1. out \o (buf \o delta) \in Text
        BY <1>0, <2>1, Joined
    <3> QED BY <2>2, <2>5, <3>1 DEF Resolve, Emit, TypeOK, Text
  <2>6. CASE Think(delta)
    <3> DEFINE s == buf \o delta
               end == Find(s, Close, 1)
    <3>1. CASE end = 0 /\ state' = "think" /\ buf' = s /\ UNCHANGED out
        BY <2>1, <2>2, <3>1 DEF TypeOK, Text
    <3>2. CASE end # 0 /\ state' = "pass" /\ buf' = <<>> /\ Emit(Remainder(s, end))
      <4>1. Remainder(s, end) \in Text
          BY <2>1, <3>2, RemainderType
      <4>2. out \o Remainder(s, end) \in Text
          BY <1>0, <4>1, Joined
      <4> QED BY <2>2, <3>2, <4>2 DEF Emit, TypeOK, Text
    <3> QED BY <2>6, <3>1, <3>2 DEF Think
  <2> QED BY <1>1, <2>3, <2>4, <2>5, <2>6 DEF feed
<1>2. CASE flush
  <2>1. out \o buf \in Text
      BY <1>0, Joined
  <2>2. flushed' \in BOOLEAN
      BY <1>2 DEF flush
  <2>3. /\ state' \in {"start", "think", "pass"} /\ buf' \in Text
        /\ fed' \in Text /\ out' \in Text
    <3>1. CASE /\ state = "start" /\ state' = "pass" /\ buf' = <<>>
               /\ out' = out \o buf /\ UNCHANGED fed
      <4>1. <<>> \in Text
          BY DEF Text
      <4> QED BY <1>0, <2>1, <3>1, <4>1
    <3>2. CASE UNCHANGED <<state, buf, out, fed>>
        BY <1>0, <3>2 DEF TypeOK
    <3> QED BY <1>2, <3>1, <3>2 DEF flush, Emit
  <2> QED BY <2>2, <2>3 DEF TypeOK, Text
<1>3. CASE UNCHANGED vars
    BY <1>3 DEF vars, TypeOK
<1> QED BY <1>1, <1>2, <1>3 DEF Next

\* Every variable of the filter keeps its type (thinkfilter.py).
THEOREM TypeCorrect == Spec => []TypeOK
BY TypeInit, TypeStep, PTL DEF Spec
-----------------------------------------------------------------------------
(***************************************************************************)
(* Nothing comes out before the question is settled.                       *)
(***************************************************************************)
LEMMA QuietStep == TypeOK /\ QuietUntilResolved /\ [Next]_vars => QuietUntilResolved'
<1> SUFFICES ASSUME TypeOK, QuietUntilResolved, [Next]_vars
             PROVE  QuietUntilResolved'
    OBVIOUS
<1>1. ASSUME NEW delta \in Deltas, feed(delta)
      PROVE  QuietUntilResolved'
  <2>1. CASE Pass(delta)
      BY <2>1 DEF Pass, QuietUntilResolved
  <2>2. CASE Hold(delta)
      BY <1>1, <2>2 DEF Hold, feed, QuietUntilResolved
  <2>3. CASE Resolve(delta)
      BY <2>3 DEF Resolve, QuietUntilResolved
  <2>4. CASE Think(delta)
      BY <1>1, <2>4 DEF Think, feed, QuietUntilResolved
  <2> QED BY <1>1, <2>1, <2>2, <2>3, <2>4 DEF feed
<1>2. CASE flush
    BY <1>2 DEF flush, QuietUntilResolved
<1>3. CASE UNCHANGED vars
    BY <1>3 DEF vars, QuietUntilResolved
<1> QED BY <1>1, <1>2, <1>3 DEF Next

LEMMA QuietInit == Init => QuietUntilResolved
BY DEF Init, QuietUntilResolved

\* No piece of a tag and no reasoning comes out while the block is open or may
\* yet open, for whatever tags and however the text is cut.
THEOREM NothingComesOutEarly == Spec => []QuietUntilResolved
BY TypeInit, TypeStep, QuietInit, QuietStep, PTL DEF Spec
-----------------------------------------------------------------------------
(***************************************************************************)
(* The output is a suffix of the input.  The invariant that carries it     *)
(* adds QuietUntilResolved, which ties the buffer to the input, and that   *)
(* nothing is buffered once the question is settled.                       *)
(***************************************************************************)
LEMMA SuffixInit == Init => OutputIsSuffix
BY DEF Init, OutputIsSuffix, From

LEMMA SuffixStep == TypeOK /\ QuietUntilResolved /\ OutputIsSuffix /\ [Next]_vars
                        => OutputIsSuffix'
<1> SUFFICES ASSUME TypeOK, QuietUntilResolved, OutputIsSuffix, [Next]_vars
             PROVE  OutputIsSuffix'
    OBVIOUS
<1>0. buf \in Text /\ fed \in Text /\ out \in Text /\ Len(fed) \in Nat
    BY DEF TypeOK, Text
<1>1. ASSUME NEW s \in Text
      PROVE  /\ 1 \in 1..(Len(s) + 1) /\ From(s, 1) = s
             /\ <<>> \o s = s
             /\ Len(s) + 1 \in 1..(Len(s) + 1) /\ From(s, Len(s) + 1) = <<>>
    BY DEF From, Text
<1>2. ASSUME NEW delta \in Deltas, feed(delta)
      PROVE  OutputIsSuffix'
  <2>1. /\ delta \in Text /\ buf \o delta \in Text
        /\ fed' = fed \o delta /\ fed' \in Text
      BY <1>0, <1>2, DeltaType, Joined DEF feed
  <2>2. CASE Pass(delta)
    <3>1. PICK i \in 1..(Len(fed) + 1) : out = From(fed, i)
        BY DEF OutputIsSuffix
    <3>2. i \in 1..(Len(fed') + 1) /\ From(fed', i) = From(fed, i) \o delta
        BY <1>0, <2>1, FromConcat
    <3>3. out' = From(fed', i)
        BY <2>2, <3>1, <3>2 DEF Pass, Emit
    <3> QED BY <3>2, <3>3 DEF OutputIsSuffix
  <2>3. CASE Hold(delta)
    <3>1. out' = <<>>
        BY <2>3 DEF Hold, QuietUntilResolved
    <3> QED BY <1>1, <2>1, <3>1 DEF OutputIsSuffix
  <2>4. CASE Resolve(delta)
    <3>1. out' = fed'
        BY <1>1, <2>1, <2>4 DEF Resolve, Emit, QuietUntilResolved
    <3>2. From(fed', 1) = fed' /\ 1 \in 1..(Len(fed') + 1)
        BY <1>1, <2>1
    <3> QED BY <3>1, <3>2 DEF OutputIsSuffix
  <2>5. CASE Think(delta)
    <3> DEFINE s == buf \o delta
               end == Find(s, Close, 1)
    <3>1. out = <<>> /\ s = fed'
        BY <2>1, <2>5 DEF Think, QuietUntilResolved
    <3>2. CASE UNCHANGED out
        BY <1>1, <2>1, <3>1, <3>2 DEF OutputIsSuffix
    <3>3. CASE end # 0 /\ Emit(Remainder(s, end))
      <4>1. PICK k \in 1..(Len(s) + 1) : Remainder(s, end) = From(s, k)
          BY <2>1, <3>3, RemainderSuffix
      <4>2. From(s, k) \in Text
          BY <2>1, FromType
      <4>3. out' = From(s, k)
          BY <1>1, <3>1, <3>3, <4>1, <4>2 DEF Emit
      <4> QED BY <3>1, <4>1, <4>3 DEF OutputIsSuffix
    <3> QED BY <2>5, <3>2, <3>3 DEF Think
  <2> QED BY <1>2, <2>2, <2>3, <2>4, <2>5 DEF feed
<1>3. CASE flush
  <2>1. CASE state = "start"
    <3>1. out' = fed' /\ fed' \in Text
        BY <1>0, <1>1, <1>3, <2>1 DEF flush, Emit, QuietUntilResolved
    <3>2. From(fed', 1) = fed' /\ 1 \in 1..(Len(fed') + 1)
        BY <1>1, <3>1
    <3> QED BY <3>1, <3>2 DEF OutputIsSuffix
  <2>2. CASE state # "start"
      BY <1>3, <2>2 DEF flush, OutputIsSuffix
  <2> QED BY <2>1, <2>2
<1>4. CASE UNCHANGED vars
    BY <1>4 DEF vars, OutputIsSuffix
<1> QED BY <1>2, <1>3, <1>4 DEF Next

\* Wherever a response is cut, the filter's output is a suffix of its input:
\* nothing is duplicated, reordered or lost behind the first character emitted.
THEOREM OutputOnlyLosesItsHead == Spec => []OutputIsSuffix
BY TypeInit, TypeStep, QuietInit, QuietStep, SuffixInit, SuffixStep, PTL DEF Spec

-----------------------------------------------------------------------------
(***************************************************************************)
(* Only the block is hidden.  Whether the text opens with a tag, and where *)
(* its block ends, is settled by a beginning of it: what follows changes   *)
(* neither.                                                                *)
(***************************************************************************)
\* A text is the start of another when it has the same characters.
LEMMA PrefixIs ==
    ASSUME NEW s \in Text, NEW t \in Text
    PROVE  IsPrefix(s, t) <=> Len(s) <= Len(t) /\ \A k \in 1..Len(s) : s[k] = t[k]
<1>0. Len(s) \in Nat /\ Len(t) \in Nat
    BY DEF Text
<1>1. CASE Len(s) <= Len(t)
  <2> DEFINE u == SubSeq(t, 1, Len(s))
             v == SubSeq(s, 1, Len(s))
  <2>1. /\ u \in Text /\ Len(u) = Len(s) /\ \A k \in 1..Len(s) : u[k] = t[k]
      BY <1>0, <1>1 DEF Text
  <2>2. v = s
      BY <1>0 DEF Text
  <2> HIDE DEF u, v
  <2>3. v = u <=> \A k \in 1..Len(s) : s[k] = t[k]
      BY <2>1, <2>2, SameText
  <2>4. IsPrefix(s, t) <=> v = u
      BY <1>1 DEF IsPrefix, u, v
  <2> QED BY <1>1, <2>3, <2>4
<1>2. CASE ~(Len(s) <= Len(t))
    BY <1>2 DEF IsPrefix
<1> QED BY <1>1, <1>2

\* Where the last character ends, nothing is left.
LEMMA Nothing ==
    /\ <<>> \in Text /\ Len(<<>>) = 0
    /\ \A s \in Text : Len(s) \in Nat /\ (Len(s) = 0 <=> s = <<>>) /\ <<>> \o s = s
BY DEF Text

\* Whether a word starts a text is settled by as much of it as the word is long.
LEMMA PrefixConcat ==
    ASSUME NEW word \in Text, NEW u \in Text, NEW t \in Text
    PROVE  /\ IsPrefix(word, u) => IsPrefix(word, u \o t)
           /\ Len(word) <= Len(u) /\ IsPrefix(word, u \o t) => IsPrefix(word, u)
           /\ Len(u) < Len(word) /\ IsPrefix(word, u \o t) => IsStrictPrefix(u, word)
           /\ IsStrictPrefix(u \o t, word) => IsStrictPrefix(u, word)
<1>0. Len(word) \in Nat /\ Len(u) \in Nat /\ Len(t) \in Nat
    BY Nothing
<1> DEFINE ut == u \o t
<1>1. /\ ut \in Text /\ Len(ut) = Len(u) + Len(t)
      /\ \A k \in 1..Len(u) : ut[k] = u[k]
    BY Joined
<1> HIDE DEF ut
<1>2. /\ IsPrefix(word, u) <=> Len(word) <= Len(u) /\ \A k \in 1..Len(word) : word[k] = u[k]
      /\ IsPrefix(word, ut) <=> Len(word) <= Len(ut) /\ \A k \in 1..Len(word) : word[k] = ut[k]
      /\ IsPrefix(ut, word) <=> Len(ut) <= Len(word) /\ \A k \in 1..Len(ut) : ut[k] = word[k]
      /\ IsPrefix(u, word) <=> Len(u) <= Len(word) /\ \A k \in 1..Len(u) : u[k] = word[k]
    BY <1>1, PrefixIs
<1>3. IsPrefix(word, u) => IsPrefix(word, ut)
    BY <1>0, <1>1, <1>2
<1>4. Len(word) <= Len(u) /\ IsPrefix(word, ut) => IsPrefix(word, u)
    BY <1>0, <1>1, <1>2
<1>5. ASSUME Len(u) < Len(word), IsPrefix(word, ut) PROVE IsStrictPrefix(u, word)
  <2>1. IsPrefix(u, word)
      BY <1>0, <1>1, <1>2, <1>5
  <2>2. u # word
      BY <1>0, <1>5
  <2> QED BY <2>1, <2>2 DEF IsStrictPrefix
<1>6. ASSUME IsStrictPrefix(ut, word) PROVE IsStrictPrefix(u, word)
  <2>1. IsPrefix(ut, word) /\ ut # word
      BY <1>6 DEF IsStrictPrefix
  <2>2. IsPrefix(u, word)
      BY <2>1, <1>0, <1>1, <1>2
  <2>3. u # word
    <3>1. ASSUME u = word PROVE FALSE
      <4>1. Len(ut) = Len(word)
          BY <3>1, <2>1, <1>0, <1>1, <1>2
      <4>2. ut = word
          BY <4>1, <2>1, <1>1, <1>2, SameText
      <4> QED BY <4>2, <2>1
    <3> QED BY <3>1
  <2> QED BY <2>2, <2>3 DEF IsStrictPrefix
<1> QED BY <1>3, <1>4, <1>5, <1>6 DEF ut

\* Stripping takes everything, or stops at the first character that stays.
LEMMA LStripIs ==
    ASSUME NEW s \in Text, NEW chars
    PROVE  /\ (\A k \in 1..Len(s) : s[k] \in chars) => LStrip(s, chars) = <<>>
           /\ \A first \in 1..Len(s) :
                 s[first] \notin chars /\ (\A k \in 1..(first - 1) : s[k] \in chars)
                     => LStrip(s, chars) = From(s, first)
           /\ \/ \A k \in 1..Len(s) : s[k] \in chars
              \/ \E first \in 1..Len(s) :
                    s[first] \notin chars /\ \A k \in 1..(first - 1) : s[k] \in chars
<1> DEFINE I == {i \in 1..Len(s) : s[i] \notin chars}
           at == SelectInSeq(s, LAMBDA c : c \notin chars)
<1>0. Len(s) \in Nat
    BY Nothing
<1>1. LStrip(s, chars) = IF at = 0 THEN <<>> ELSE From(s, at)
    BY DEF LStrip
<1>2. at = IF I # {} THEN Min(I) ELSE 0
    BY DEF SelectInSeq
<1> HIDE DEF at
<1>3. (\A k \in 1..Len(s) : s[k] \in chars) => LStrip(s, chars) = <<>>
    BY <1>1, <1>2
<1>4. ASSUME NEW first \in 1..Len(s), s[first] \notin chars,
             \A k \in 1..(first - 1) : s[k] \in chars
      PROVE  LStrip(s, chars) = From(s, first)
  <2>1. first \in I /\ \A k \in I : first <= k
      BY <1>0, <1>4
  <2>2. Min(I) \in I /\ \A k \in I : Min(I) <= k
      BY <2>1 DEF Min
  <2>3. Min(I) = first
      BY <2>1, <2>2, <1>0
  <2>4. at = first /\ first # 0
      BY <2>1, <2>3, <1>2, <1>0
  <2> QED BY <2>4, <1>1
<1>5. ASSUME ~(\A k \in 1..Len(s) : s[k] \in chars)
      PROVE  \E first \in 1..Len(s) :
                 s[first] \notin chars /\ \A k \in 1..(first - 1) : s[k] \in chars
  <2>1. I \in SUBSET Nat /\ I # {}
      BY <1>0, <1>5
  <2>2. PICK m \in I : \A k \in I : m <= k
      BY <2>1, LeastPosition
  <2>3. m \in 1..Len(s) /\ s[m] \notin chars
      BY <2>2
  <2>4. \A k \in 1..(m - 1) : s[k] \in chars
      BY <2>2, <2>3, <1>0
  <2> QED BY <2>3, <2>4
<1> QED BY <1>3, <1>4, <1>5

\* A tail of what is appended.
LEMMA FromBehind ==
    ASSUME NEW s \in Text, NEW t \in Text, NEW i \in 1..(Len(t) + 1)
    PROVE  /\ Len(s) + i \in 1..(Len(s \o t) + 1)
           /\ From(s \o t, Len(s) + i) = From(t, i)
<1> DEFINE st == s \o t
<1>0. Len(s) \in Nat /\ Len(t) \in Nat
    BY Nothing
<1>1. /\ st \in Text /\ Len(st) = Len(s) + Len(t)
      /\ \A k \in 1..Len(t) : st[Len(s) + k] = t[k]
    BY Joined
<1> HIDE DEF st
<1>2. Len(s) + i \in 1..(Len(st) + 1)
    BY <1>0, <1>1
<1>3. /\ From(st, Len(s) + i) \in Text /\ Len(From(st, Len(s) + i)) = Len(st) + 1 - (Len(s) + i)
      /\ \A k \in 1..(Len(st) + 1 - (Len(s) + i)) : From(st, Len(s) + i)[k] = st[Len(s) + i + k - 1]
    BY <1>1, <1>2, FromType
<1>4. /\ From(t, i) \in Text /\ Len(From(t, i)) = Len(t) + 1 - i
      /\ \A k \in 1..(Len(t) + 1 - i) : From(t, i)[k] = t[i + k - 1]
    BY FromType
<1>5. Len(From(st, Len(s) + i)) = Len(From(t, i))
  <2>1. Len(st) + 1 - (Len(s) + i) = Len(t) + 1 - i
      BY <1>0, <1>1
  <2> QED BY <2>1, <1>3, <1>4
<1>6. ASSUME NEW k \in 1..Len(From(t, i)) PROVE From(st, Len(s) + i)[k] = From(t, i)[k]
  <2>1. /\ k \in 1..(Len(t) + 1 - i) /\ k \in 1..(Len(st) + 1 - (Len(s) + i))
        /\ i + k - 1 \in 1..Len(t) /\ Len(s) + (i + k - 1) = Len(s) + i + k - 1
      BY <1>0, <1>1, <1>4
  <2> QED BY <2>1, <1>1, <1>3, <1>4
<1>7. From(st, Len(s) + i) = From(t, i)
    BY <1>3, <1>4, <1>5, <1>6, SameText
<1> QED BY <1>2, <1>7 DEF st

\* Stripping a text goes on into what is appended only if nothing of it stays.
LEMMA LStripConcat ==
    ASSUME NEW s \in Text, NEW t \in Text, NEW chars
    PROVE  /\ LStrip(s, chars) \in Text
           /\ LStrip(s \o t, chars) = IF LStrip(s, chars) = <<>> THEN LStrip(t, chars)
                                      ELSE LStrip(s, chars) \o t
<1> DEFINE st == s \o t
<1>0. Len(s) \in Nat /\ Len(t) \in Nat
    BY Nothing
<1>1. /\ st \in Text /\ Len(st) = Len(s) + Len(t)
      /\ \A k \in 1..Len(s) : st[k] = s[k]
      /\ \A k \in 1..Len(t) : st[Len(s) + k] = t[k]
    BY Joined
<1>2. CASE \A k \in 1..Len(s) : s[k] \in chars
  <2>1. LStrip(s, chars) = <<>>
      BY <1>2, LStripIs
  <2>2. CASE \A k \in 1..Len(t) : t[k] \in chars
    <3> HIDE DEF st
    <3>1. ASSUME NEW k \in 1..Len(st) PROVE st[k] \in chars
      <4>1. CASE k \in 1..Len(s)
          BY <4>1, <1>1, <1>2
      <4>2. CASE k \notin 1..Len(s)
        <5>1. k - Len(s) \in 1..Len(t) /\ Len(s) + (k - Len(s)) = k
            BY <4>2, <1>0, <1>1
        <5> QED BY <5>1, <1>1, <2>2
      <4> QED BY <4>1, <4>2
    <3>2. LStrip(st, chars) = <<>> /\ LStrip(t, chars) = <<>>
        BY <3>1, <2>2, <1>1, LStripIs
    <3> QED BY <3>2, <2>1, Nothing DEF st
  <2>3. CASE ~ \A k \in 1..Len(t) : t[k] \in chars
    <3>1. PICK first \in 1..Len(t) :
              t[first] \notin chars /\ \A k \in 1..(first - 1) : t[k] \in chars
        BY <2>3, LStripIs
    <3>2. LStrip(t, chars) = From(t, first)
        BY <3>1, LStripIs
    <3>3. From(st, Len(s) + first) = From(t, first)
        BY <1>0, FromBehind
    <3> HIDE DEF st
    <3>4. Len(s) + first \in 1..Len(st) /\ st[Len(s) + first] \notin chars
        BY <3>1, <1>0, <1>1
    <3>5. ASSUME NEW k \in 1..(Len(s) + first - 1) PROVE st[k] \in chars
      <4>1. CASE k \in 1..Len(s)
          BY <4>1, <1>1, <1>2
      <4>2. CASE k \notin 1..Len(s)
        <5>1. /\ k - Len(s) \in 1..(first - 1) /\ k - Len(s) \in 1..Len(t)
              /\ Len(s) + (k - Len(s)) = k
            BY <4>2, <1>0
        <5> QED BY <5>1, <1>1, <3>1
      <4> QED BY <4>1, <4>2
    <3>6. LStrip(st, chars) = From(st, Len(s) + first)
      <4> DEFINE stop == Len(s) + first
      <4>1. stop \in 1..Len(st) /\ st[stop] \notin chars /\ \A k \in 1..(stop - 1) : st[k] \in chars
          BY <3>4, <3>5
      <4> HIDE DEF stop
      <4>2. LStrip(st, chars) = From(st, stop)
          BY <4>1, <1>1, LStripIs
      <4> QED BY <4>2 DEF stop
    <3> QED BY <3>2, <3>3, <3>6, <2>1, Nothing DEF st
  <2> QED BY <2>2, <2>3
<1>3. CASE ~ \A k \in 1..Len(s) : s[k] \in chars
  <2>1. PICK first \in 1..Len(s) :
            s[first] \notin chars /\ \A k \in 1..(first - 1) : s[k] \in chars
      BY <1>3, LStripIs
  <2>2. LStrip(s, chars) = From(s, first)
      BY <2>1, LStripIs
  <2>3. first \in 1..(Len(s) + 1)
      BY <1>0
  <2>4. From(s, first) \in Text /\ From(s, first) # <<>>
    <3>1. From(s, first) \in Text /\ Len(From(s, first)) = Len(s) + 1 - first
        BY <2>3, FromType
    <3>2. Len(From(s, first)) # 0
        BY <3>1, <1>0
    <3> QED BY <3>1, <3>2, Nothing
  <2>5. From(st, first) = From(s, first) \o t
      BY <2>3, FromConcat
  <2> HIDE DEF st
  <2>6. first \in 1..Len(st) /\ st[first] \notin chars
      BY <2>1, <1>0, <1>1
  <2>7. \A k \in 1..(first - 1) : st[k] \in chars
      BY <2>1, <1>0, <1>1
  <2>8. LStrip(st, chars) = From(st, first)
      BY <2>6, <2>7, <1>1, LStripIs
  <2> QED BY <2>2, <2>4, <2>5, <2>8 DEF st
<1> QED BY <1>2, <1>3

\* What is stripped once is stripped.
LEMMA LStripTwice ==
    ASSUME NEW s \in Text, NEW chars
    PROVE  LStrip(LStrip(s, chars), chars) = LStrip(s, chars)
<1> DEFINE u == LStrip(s, chars)
<1>0. Len(s) \in Nat
    BY Nothing
<1>1. CASE \A k \in 1..Len(s) : s[k] \in chars
  <2>1. u = <<>>
      BY <1>1, LStripIs
  <2> HIDE DEF u
  <2>2. u \in Text /\ \A k \in 1..Len(u) : u[k] \in chars
      BY <2>1, Nothing
  <2>3. LStrip(u, chars) = <<>>
      BY <2>2, LStripIs
  <2> QED BY <2>1, <2>3 DEF u
<1>2. CASE ~ \A k \in 1..Len(s) : s[k] \in chars
  <2>1. PICK first \in 1..Len(s) :
            s[first] \notin chars /\ \A k \in 1..(first - 1) : s[k] \in chars
      BY <1>2, LStripIs
  <2>2. u = From(s, first)
      BY <2>1, LStripIs
  <2>3. first \in 1..(Len(s) + 1)
      BY <1>0
  <2>4. /\ From(s, first) \in Text /\ Len(From(s, first)) = Len(s) + 1 - first
        /\ \A k \in 1..(Len(s) + 1 - first) : From(s, first)[k] = s[first + k - 1]
      BY <2>3, FromType
  <2> HIDE DEF u
  <2>5. u \in Text /\ 1 \in 1..Len(u) /\ u[1] = s[first]
      BY <2>2, <2>4, <1>0
  <2>6. u[1] \notin chars /\ \A k \in 1..(1 - 1) : u[k] \in chars
      BY <2>1, <2>5
  <2>7. LStrip(u, chars) = From(u, 1)
      BY <2>5, <2>6, LStripIs
  <2>8. From(u, 1) = u
      BY <2>5 DEF From, Text
  <2> QED BY <2>7, <2>8 DEF u
<1> QED BY <1>1, <1>2

\* Of a text that opens with a tag, or that does not, nothing behind it changes that.
LEMMA Settled ==
    ASSUME NEW s \in Text, NEW t \in Text
    PROVE  /\ Opens(s) => Opens(s \o t)
           /\ ~Opens(s) /\ ~Undecided(s) => ~Opens(s \o t) /\ ~Undecided(s \o t)
           /\ Undecided(s) => ~Opens(s)
<1> DEFINE probe == LStrip(s, Whitespace)
<1>0. /\ Open \in Text /\ Open # <<>> /\ probe \in Text
      /\ Len(Open) \in Nat /\ Len(probe) \in Nat
    BY LStripConcat, Nothing, FilterAssumption DEF Text
<1>1. /\ Opens(s) <=> IsPrefix(Open, probe)
      /\ Undecided(s) <=> IsStrictPrefix(probe, Open)
    BY DEF Opens, Undecided
<1>2. probe # <<>> => LStrip(s \o t, Whitespace) = probe \o t
    BY LStripConcat
<1>3. probe # <<>> => /\ Opens(s \o t) <=> IsPrefix(Open, probe \o t)
                      /\ Undecided(s \o t) <=> IsStrictPrefix(probe \o t, Open)
    BY <1>2 DEF Opens, Undecided
<1> HIDE DEF probe
<1>4. Opens(s) => probe # <<>>
  <2>1. Len(Open) # 0
      BY <1>0, Nothing
  <2> QED BY <2>1, <1>0, <1>1, PrefixIs, Nothing
<1>5. ~Undecided(s) => probe # <<>>
  <2>1. IsPrefix(<<>>, Open)
      BY <1>0, PrefixIs, Nothing
  <2> QED BY <2>1, <1>0, <1>1 DEF IsStrictPrefix
<1>6. Opens(s) => Opens(s \o t)
    BY <1>0, <1>1, <1>3, <1>4, PrefixConcat
<1>7. ASSUME ~Opens(s), ~Undecided(s) PROVE ~Opens(s \o t) /\ ~Undecided(s \o t)
  <2>1. ~IsPrefix(Open, probe) /\ ~IsStrictPrefix(probe, Open)
      BY <1>1, <1>7
  <2>2. ~IsPrefix(Open, probe \o t)
    <3>1. Len(Open) <= Len(probe) \/ Len(probe) < Len(Open)
        BY <1>0
    <3> QED BY <3>1, <2>1, <1>0, PrefixConcat
  <2>3. ~IsStrictPrefix(probe \o t, Open)
      BY <2>1, <1>0, PrefixConcat
  <2> QED BY <2>2, <2>3, <1>3, <1>5, <1>7
<1>8. Undecided(s) => ~Opens(s)
  <2> SUFFICES ASSUME IsStrictPrefix(probe, Open), IsPrefix(Open, probe) PROVE FALSE
      BY <1>1
  <2>1. IsPrefix(probe, Open) /\ probe # Open
      BY DEF IsStrictPrefix
  <2>2. Len(probe) = Len(Open) /\ \A k \in 1..Len(Open) : probe[k] = Open[k]
      BY <2>1, <1>0, PrefixIs
  <2>3. probe = Open
      BY <2>2, <1>0, SameText
  <2> QED BY <2>1, <2>3
<1> QED BY <1>6, <1>7, <1>8

\* A word is found where it first stands.
LEMMA FindIs ==
    ASSUME NEW s \in Text, NEW word \in Text
    PROVE  /\ \A j \in 1..(Len(s) - Len(word) + 1) :
                 /\ IsPrefix(word, From(s, j))
                 /\ \A k \in 1..(j - 1) : ~IsPrefix(word, From(s, k))
                 => Find(s, word, 1) = j
           /\ Find(s, word, 1) # 0 =>
                 /\ Find(s, word, 1) \in 1..(Len(s) - Len(word) + 1)
                 /\ IsPrefix(word, From(s, Find(s, word, 1)))
                 /\ \A k \in 1..(Find(s, word, 1) - 1) : ~IsPrefix(word, From(s, k))
<1> DEFINE bound == Len(s) - Len(word) + 1
           places == {j \in 1..bound : IsPrefix(word, From(s, j))}
           Least(j) == j \in places /\ \A k \in places : j <= k
<1>0. bound \in Int
    BY Nothing
<1>1. Find(s, word, 1) = IF places = {} THEN 0 ELSE CHOOSE j \in places : \A k \in places : j <= k
    BY DEF Find
<1> HIDE DEF bound
<1>2. places \in SUBSET Nat
    BY <1>0
<1>3. places # {} => Least(Find(s, word, 1))
  <2> SUFFICES ASSUME places # {} PROVE Least(Find(s, word, 1))
      OBVIOUS
  <2>1. \E j \in places : \A k \in places : j <= k
      BY <1>2, LeastPosition
  <2>2. Find(s, word, 1) = CHOOSE j \in places : \A k \in places : j <= k
      BY <1>1
  <2> HIDE DEF places
  <2> QED BY <2>1, <2>2
<1>4. ASSUME NEW j \in 1..bound, IsPrefix(word, From(s, j)),
             \A k \in 1..(j - 1) : ~IsPrefix(word, From(s, k))
      PROVE  Find(s, word, 1) = j
  <2>1. j \in places
      BY <1>4
  <2>2. Least(Find(s, word, 1))
      BY <2>1, <1>3
  <2>3. Find(s, word, 1) \in 1..bound /\ Find(s, word, 1) <= j
        /\ IsPrefix(word, From(s, Find(s, word, 1)))
      BY <2>1, <2>2
  <2>4. Find(s, word, 1) \notin 1..(j - 1)
      BY <2>3, <1>4
  <2> QED BY <2>3, <2>4, <1>0
<1>5. ASSUME Find(s, word, 1) # 0
      PROVE  /\ Find(s, word, 1) \in 1..bound
             /\ IsPrefix(word, From(s, Find(s, word, 1)))
             /\ \A k \in 1..(Find(s, word, 1) - 1) : ~IsPrefix(word, From(s, k))
  <2>1. Least(Find(s, word, 1))
      BY <1>1, <1>3, <1>5
  <2> DEFINE end == Find(s, word, 1)
  <2>2. end \in 1..bound /\ IsPrefix(word, From(s, end)) /\ \A k \in places : end <= k
      BY <2>1
  <2> HIDE DEF end
  <2>3. \A k \in 1..(end - 1) : ~IsPrefix(word, From(s, k))
    <3> SUFFICES ASSUME NEW k \in 1..(end - 1), IsPrefix(word, From(s, k)) PROVE FALSE
        OBVIOUS
    <3>1. k \in places
        BY <2>2, <1>0
    <3> QED BY <3>1, <2>2, <1>0
  <2> QED BY <2>2, <2>3 DEF end
<1> QED BY <1>4, <1>5 DEF bound

\* The end of the block stays where it was found.
LEMMA FindConcat ==
    ASSUME NEW s \in Text, NEW t \in Text, NEW word \in Text, word # <<>>,
           Find(s, word, 1) # 0
    PROVE  Find(s \o t, word, 1) = Find(s, word, 1)
<1> DEFINE st == s \o t
           end == Find(s, word, 1)
<1>0. Len(s) \in Nat /\ Len(t) \in Nat /\ Len(word) \in Nat /\ Len(word) # 0
    BY Nothing
<1>1. st \in Text /\ Len(st) = Len(s) + Len(t)
    BY Joined
<1>2. /\ end \in 1..(Len(s) - Len(word) + 1)
      /\ IsPrefix(word, From(s, end))
      /\ \A k \in 1..(end - 1) : ~IsPrefix(word, From(s, k))
    BY FindIs
<1> HIDE DEF end
<1>3. ASSUME NEW k \in 1..end
      PROVE  IsPrefix(word, From(st, k)) <=> IsPrefix(word, From(s, k))
  <2>1. k \in 1..(Len(s) + 1)
      BY <1>0, <1>2
  <2>2. From(st, k) = From(s, k) \o t
      BY <2>1, FromConcat
  <2>3. From(s, k) \in Text /\ Len(From(s, k)) = Len(s) + 1 - k
      BY <2>1, FromType
  <2>4. Len(word) <= Len(From(s, k))
      BY <2>3, <1>0, <1>2
  <2> HIDE DEF st
  <2> QED BY <2>2, <2>3, <2>4, PrefixConcat
<1> HIDE DEF st
<1>4. end \in 1..(Len(st) - Len(word) + 1)
    BY <1>0, <1>1, <1>2
<1>5. IsPrefix(word, From(st, end))
    BY <1>0, <1>2, <1>3
<1>6. \A k \in 1..(end - 1) : ~IsPrefix(word, From(st, k))
  <2> TAKE k \in 1..(end - 1)
  <2>1. k \in 1..end
      BY <1>0, <1>2
  <2> QED BY <2>1, <1>2, <1>3
<1>7. Find(st, word, 1) = end
    BY <1>1, <1>4, <1>5, <1>6, FindIs
<1> QED BY <1>7 DEF st, end

\* What follows a block goes on with what is appended.
LEMMA AfterConcat ==
    ASSUME NEW s \in Text, NEW t \in Text, Find(s, Close, 1) # 0
    PROVE  /\ Find(s \o t, Close, 1) # 0
           /\ AfterBlock(s) \in Text /\ AfterBlock(s \o t) = AfterBlock(s) \o t
<1> DEFINE end == Find(s, Close, 1)
           i == end + Len(Close)
<1>0. Close \in Text /\ Close # <<>> /\ Len(Close) \in Nat /\ Len(s) \in Nat
    BY FilterAssumption, Nothing DEF Text
<1>1. Find(s \o t, Close, 1) = end
    BY <1>0, FindConcat
<1>2. end \in 1..(Len(s) - Len(Close) + 1)
    BY <1>0, FindIs
<1>3. i \in 1..(Len(s) + 1)
    BY <1>0, <1>2
<1>4. AfterBlock(s) = From(s, i) /\ AfterBlock(s \o t) = From(s \o t, i)
    BY <1>1 DEF AfterBlock
<1> HIDE DEF i
<1>5. From(s, i) \in Text /\ From(s \o t, i) = From(s, i) \o t
    BY <1>3, FromType, FromConcat
<1> QED BY <1>1, <1>4, <1>5

\* Texts that are the same once they are stripped stay so.
LEMMA StrippedAlike ==
    ASSUME NEW s \in Text, NEW u \in Text, NEW t \in Text, NEW chars,
           LStrip(s, chars) = LStrip(u, chars)
    PROVE  LStrip(s \o t, chars) = LStrip(u \o t, chars)
<1>1. LStrip(s \o t, chars) = IF LStrip(s, chars) = <<>> THEN LStrip(t, chars)
                              ELSE LStrip(s, chars) \o t
    BY LStripConcat
<1>2. LStrip(u \o t, chars) = IF LStrip(u, chars) = <<>> THEN LStrip(t, chars)
                              ELSE LStrip(u, chars) \o t
    BY LStripConcat
<1> QED BY <1>1, <1>2

-----------------------------------------------------------------------------
\* What the state says of the text so far, and of the output in each case.
SettledInv ==
    /\ state = "start" => Undecided(fed) /\ ~flushed
    /\ state = "think" => Opens(fed) /\ Find(fed, Close, 1) = 0
    /\ state = "pass" =>
          \/ /\ Opens(fed) /\ Find(fed, Close, 1) # 0
             /\ LStrip(out, {Newline}) = LStrip(AfterBlock(fed), {Newline})
          \/ ~Opens(fed) /\ out = fed /\ (flushed \/ ~Undecided(fed))

LEMMA SettledInit == Init => SettledInv
<1> SUFFICES ASSUME Init PROVE SettledInv OBVIOUS
<1>1. state = "start" /\ fed = <<>> /\ ~flushed
    BY DEF Init
<1>2. Undecided(<<>>)
  <2>1. LStrip(<<>>, Whitespace) = <<>>
    <3>1. <<>> \in Text /\ \A k \in 1..Len(<<>>) : <<>>[k] \in Whitespace
        BY Nothing
    <3> QED BY <3>1, LStripIs
  <2>2. Open \in Text /\ Open # <<>>
      BY FilterAssumption DEF Text
  <2>3. IsPrefix(<<>>, Open)
      BY <2>2, PrefixIs, Nothing
  <2> QED BY <2>1, <2>2, <2>3 DEF Undecided, IsStrictPrefix
<1> QED BY <1>1, <1>2 DEF SettledInv

LEMMA SettledStep ==
    ASSUME TypeOK, QuietUntilResolved, SettledInv, [Next]_vars
    PROVE  SettledInv'
<1>0. buf \in Text /\ fed \in Text /\ out \in Text /\ state \in {"start", "think", "pass"}
    BY DEF TypeOK, Text
<1>1. ASSUME NEW delta \in Deltas, feed(delta)
      PROVE  SettledInv'
  <2>1. /\ delta \in Text /\ buf \o delta \in Text
        /\ fed' = fed \o delta /\ fed' \in Text
        /\ ~flushed /\ ~flushed'
      BY <1>0, <1>1, DeltaType, Joined DEF feed
  <2>2. CASE Pass(delta)
    <3>1. state' = "pass" /\ out' = out \o delta /\ state = "pass"
        BY <2>2 DEF Pass, Emit
    <3>2. CASE /\ Opens(fed) /\ Find(fed, Close, 1) # 0
               /\ LStrip(out, {Newline}) = LStrip(AfterBlock(fed), {Newline})
      <4>1. Opens(fed')
          BY <1>0, <2>1, <3>2, Settled
      <4>2. /\ Find(fed', Close, 1) # 0
            /\ AfterBlock(fed) \in Text /\ AfterBlock(fed') = AfterBlock(fed) \o delta
          BY <1>0, <2>1, <3>2, AfterConcat
      <4>3. LStrip(out', {Newline}) = LStrip(AfterBlock(fed'), {Newline})
          BY <1>0, <2>1, <3>1, <3>2, <4>2, StrippedAlike
      <4> QED BY <3>1, <4>1, <4>2, <4>3 DEF SettledInv
    <3>3. CASE ~Opens(fed) /\ out = fed /\ ~Undecided(fed)
      <4>1. ~Opens(fed') /\ ~Undecided(fed')
          BY <1>0, <2>1, <3>3, Settled
      <4> QED BY <2>1, <3>1, <3>3, <4>1 DEF SettledInv
    <3> QED BY <2>1, <3>1, <3>2, <3>3 DEF SettledInv
  <2>3. ASSUME state # "pass" PROVE out = <<>> /\ buf \o delta = fed'
      BY <2>1, <2>3 DEF QuietUntilResolved
  <2>4. CASE Hold(delta)
    <3>1. state = "start" /\ state' = "start" /\ Undecided(buf \o delta)
        BY <2>4 DEF Hold
    <3> QED BY <2>1, <2>3, <3>1 DEF SettledInv
  <2>5. CASE Resolve(delta)
    <3>1. /\ state = "start" /\ state' = "pass" /\ out' = out \o (buf \o delta)
          /\ ~Undecided(buf \o delta) /\ ~Opens(buf \o delta)
        BY <2>5 DEF Resolve, Emit
    <3>2. out' = fed'
        BY <2>1, <2>3, <3>1, Nothing
    <3> QED BY <2>3, <3>1, <3>2 DEF SettledInv
  <2>6. CASE Think(delta)
    <3> DEFINE s == buf \o delta
               end == Find(s, Close, 1)
    <3>1. /\ state # "pass" /\ s = fed' /\ out = <<>>
          /\ state = "think" \/ Opens(s)
        BY <2>3, <2>6 DEF Think
    <3>2. Opens(fed')
      <4>1. state = "think" => Opens(fed \o delta)
          BY <1>0, <2>1, Settled DEF SettledInv
      <4> QED BY <4>1, <3>1, <2>1
    <3>3. CASE end = 0 /\ state' = "think"
        BY <3>1, <3>2, <3>3 DEF SettledInv
    <3>4. CASE end # 0 /\ state' = "pass" /\ Emit(Remainder(s, end))
      <4>1. AfterBlock(fed') = From(s, end + Len(Close)) /\ Find(fed', Close, 1) # 0
          BY <3>1, <3>4 DEF AfterBlock
      <4>2. out' = LStrip(AfterBlock(fed'), {Newline})
        <5>1. out' = out \o Remainder(s, end) /\ Remainder(s, end) \in Text
            BY <2>1, <3>4, RemainderType DEF Emit
        <5> QED BY <3>1, <4>1, <5>1, Nothing DEF Remainder
      <4>3. AfterBlock(fed') \in Text
          BY <2>1, <4>1, Nothing, AfterConcat
      <4>4. LStrip(out', {Newline}) = LStrip(AfterBlock(fed'), {Newline})
          BY <4>2, <4>3, LStripTwice
      <4> QED BY <3>2, <3>4, <4>1, <4>4 DEF SettledInv
    <3> QED BY <2>6, <3>3, <3>4 DEF Think
  <2> QED BY <1>1, <2>2, <2>4, <2>5, <2>6 DEF feed
<1>2. CASE flush
  <2>1. flushed' = TRUE /\ fed' = fed
      BY <1>2 DEF flush
  <2>2. CASE state = "start"
    <3>1. /\ out' = fed' /\ state' = "pass"
      <4>1. out = <<>> /\ buf = fed /\ out' = out \o buf /\ state' = "pass"
          BY <1>2, <2>2 DEF flush, Emit, QuietUntilResolved
      <4> QED BY <4>1, <2>1, <1>0, Nothing
    <3>2. ~Opens(fed)
        BY <1>0, <2>2, Settled DEF SettledInv
    <3> QED BY <2>1, <3>1, <3>2 DEF SettledInv
  <2>3. CASE state # "start"
    <3>1. UNCHANGED <<state, out>>
        BY <1>2, <2>3 DEF flush
    <3> QED BY <2>1, <2>3, <3>1 DEF SettledInv
  <2> QED BY <2>2, <2>3
<1>3. CASE UNCHANGED vars
    BY <1>3 DEF vars, SettledInv
<1> QED BY <1>1, <1>2, <1>3 DEF Next

\* For whatever tags, and wherever the text is cut: once the stream ends, all of a
\* response that opens with no tag has come out, and of one that does all that
\* stands behind its block, but for newlines.
THEOREM OnlyTheBlockIsHidden == Spec => []HidesOnlyTheBlock
<1>1. TypeOK /\ SettledInv /\ QuietUntilResolved => HidesOnlyTheBlock
  <2> SUFFICES ASSUME TypeOK, SettledInv, QuietUntilResolved, flushed
               PROVE  IF LeadingBlock(fed)
                      THEN LStrip(out, {Newline}) = LStrip(AfterBlock(fed), {Newline})
                      ELSE out = fed
      BY DEF HidesOnlyTheBlock
  <2>1. CASE state = "think"
      BY <2>1 DEF SettledInv, QuietUntilResolved, AfterBlock, LeadingBlock
  <2>2. CASE state = "pass"
      BY <2>2 DEF SettledInv, LeadingBlock
  <2>3. state \in {"think", "pass"}
      BY DEF TypeOK, SettledInv
  <2> QED BY <2>1, <2>2, <2>3
<1>2. TypeOK /\ QuietUntilResolved /\ SettledInv /\ [Next]_vars => SettledInv'
    BY SettledStep
<1> QED BY TypeInit, TypeStep, QuietInit, QuietStep, SettledInit, <1>1, <1>2, PTL DEF Spec

-----------------------------------------------------------------------------
(***************************************************************************)
(* The same answer as strip_think's.  Kept, which strip_think is made of,  *)
(* is a recursive function: that it is defined, and what it is behind the  *)
(* block, is shown by going down from the end of the text (DownTo).        *)
(***************************************************************************)
\* A set that has n, and with any position the one before it, has all up to n.
LEMMA DownTo ==
    ASSUME NEW n \in Nat, NEW S, n \in S,
           \A i \in 1..n : i + 1 \in S /\ i < n => i \in S
    PROVE  1..n \subseteq S
<1> SUFFICES ASSUME NEW b \in 1..n, b \notin S PROVE FALSE
    OBVIOUS
<1> DEFINE D == {d \in Nat : d < n /\ n - d \notin S}
<1>1. n - b \in D
  <2>1. b # n
      OBVIOUS
  <2>2. n - b \in Nat /\ n - b < n /\ n - (n - b) = b
      OBVIOUS
  <2> QED BY <2>2
<1>2. PICK d \in D : \A k \in D : d <= k
    BY <1>1, LeastPosition
<1>3. d \in Nat /\ d < n /\ n - d \notin S /\ n - d \in 1..n
    BY <1>2
<1>4. d # 0
    BY <1>3
<1>5. n - d + 1 = n - (d - 1) /\ d - 1 \in Nat /\ d - 1 < n
    BY <1>3, <1>4
<1>6. n - d + 1 \in S
    BY <1>2, <1>5
<1> QED BY <1>3, <1>4, <1>6

\* What Kept makes of position i, given what it makes of those behind it.
Rest(s, rest, i) ==
    IF i > Len(s) THEN <<>>
    ELSE IF ~IsPrefix(Open, From(s, i)) THEN <<s[i]>> \o rest[i + 1]
    ELSE LET end == Find(s, Close, i + Len(Open))
         IN  IF end = 0 THEN <<>> ELSE rest[end + Len(Close)]

Span(s) == Len(s) + Len(Open) + Len(Close)

\* What the definition of Kept comes to.
LEMMA KeptChosen ==
    ASSUME NEW s
    PROVE  Kept(s) = CHOOSE rest : rest = [i \in 1..Span(s) |-> Rest(s, rest, i)]
BY DEF Kept, Rest, Span

\* The lengths, which later steps do arithmetic on.
LEMMA SpanIs ==
    ASSUME NEW s \in Text
    PROVE  /\ Len(s) \in Nat /\ Len(Open) \in Nat /\ Len(Close) \in Nat /\ Span(s) \in Nat
           /\ Len(Open) > 0 /\ Len(Close) > 0 /\ Span(s) = Len(s) + Len(Open) + Len(Close)
           /\ Len(s) + 1 < Span(s) /\ Open \in Text /\ Close \in Text
<1>1. Open \in Text /\ Close \in Text /\ Open # <<>> /\ Close # <<>>
    BY FilterAssumption DEF Text
<1>2. Len(s) \in Nat /\ Len(Open) \in Nat /\ Len(Close) \in Nat
    BY <1>1, Nothing
<1>3. Len(Open) # 0 /\ Len(Close) # 0
    BY <1>1, Nothing
<1> QED BY <1>1, <1>2, <1>3 DEF Span

\* What is found from i on stands there.
LEMMA FindBehind ==
    ASSUME NEW s \in Text, NEW word \in Text, NEW i \in Nat, i > 0, Find(s, word, i) # 0
    PROVE  Find(s, word, i) \in i..(Len(s) - Len(word) + 1)
<1> DEFINE places == {j \in i..(Len(s) - Len(word) + 1) : IsPrefix(word, From(s, j))}
<1>1. places # {} /\ Find(s, word, i) = CHOOSE j \in places : \A k \in places : j <= k
    BY DEF Find
<1>2. places \in SUBSET Nat
    BY Nothing
<1>3. \E j \in places : \A k \in places : j <= k
    BY <1>1, <1>2, LeastPosition
<1>4. places \subseteq i..(Len(s) - Len(word) + 1)
    OBVIOUS
<1> HIDE DEF places
<1>5. Find(s, word, i) \in places
    BY <1>1, <1>3
<1> QED BY <1>4, <1>5

\* Functions that agree behind i make the same of i.
LEMMA LooksAhead ==
    ASSUME NEW s \in Text, NEW i \in 1..Span(s), NEW f, NEW g,
           \A j \in (i + 1)..Span(s) : f[j] = g[j]
    PROVE  Rest(s, f, i) = Rest(s, g, i)
<1>0. /\ Len(s) \in Nat /\ Len(Open) \in Nat /\ Len(Close) \in Nat /\ Span(s) \in Nat
      /\ Len(Open) > 0 /\ Len(Close) > 0 /\ Span(s) = Len(s) + Len(Open) + Len(Close)
      /\ Close \in Text /\ i \in Nat /\ i > 0
    BY SpanIs
<1>1. ASSUME i <= Len(s) PROVE f[i + 1] = g[i + 1]
  <2>1. i + 1 \in (i + 1)..Span(s)
      BY <1>0, <1>1
  <2> QED BY <2>1
<1> DEFINE end == Find(s, Close, i + Len(Open))
<1>2. ASSUME end # 0 PROVE f[end + Len(Close)] = g[end + Len(Close)]
  <2>1. end \in (i + Len(Open))..(Len(s) - Len(Close) + 1)
      BY <1>0, <1>2, FindBehind
  <2> HIDE DEF end
  <2>2. end + Len(Close) \in (i + 1)..Span(s)
      BY <1>0, <2>1
  <2> QED BY <2>2
<1>3. \A r : Rest(s, r, i) =
          IF i > Len(s) THEN <<>>
          ELSE IF ~IsPrefix(Open, From(s, i)) THEN <<s[i]>> \o r[i + 1]
          ELSE IF end = 0 THEN <<>> ELSE r[end + Len(Close)]
    BY DEF Rest
<1> HIDE DEF end
<1>4. CASE i > Len(s)
    BY <1>3, <1>4
<1>5. CASE i <= Len(s)
    BY <1>1, <1>2, <1>3, <1>5
<1> QED BY <1>4, <1>5, <1>0

\* Kept is defined, since it looks ahead only.
LEMMA KeptIs ==
    ASSUME NEW s \in Text
    PROVE  \A i \in 1..Span(s) : Kept(s)[i] = Rest(s, Kept(s), i)
<1> DEFINE n == Span(s)
           Kin(g, k) == \A i \in k..n : g[i] = Rest(s, g, i)
           S == {k \in 1..n : \E g : Kin(g, k)}
<1>0. n \in Nat /\ Len(s) \in Nat /\ Len(s) + 1 < n /\ n \in 1..n
    BY SpanIs
<1>1. n \in S
  <2> DEFINE g == [i \in {n} |-> <<>>]
  <2>1. Rest(s, g, n) = <<>> /\ g[n] = <<>>
      BY <1>0 DEF Rest
  <2>2. \A i \in n..n : i = n
      BY <1>0
  <2> HIDE DEF g, n
  <2>3. Kin(g, n)
      BY <2>1, <2>2
  <2> QED BY <2>3, <1>0
<1>2. ASSUME NEW i \in 1..n, i + 1 \in S, i < n PROVE i \in S
  <2>1. PICK g : Kin(g, i + 1)
      BY <1>2
  <2> DEFINE h == [j \in i..n |-> IF j = i THEN Rest(s, g, i) ELSE g[j]]
  <2>2. \A j \in (i + 1)..n : h[j] = g[j]
      BY <1>0
  <2>3. h[i] = Rest(s, g, i)
      BY <1>0
  <2> HIDE DEF h
  <2>4. ASSUME NEW j \in i..n PROVE h[j] = Rest(s, h, j)
    <3>1. j \in 1..n /\ \A k \in (j + 1)..n : k \in (i + 1)..n
        BY <1>0
    <3>2. \A k \in (j + 1)..n : h[k] = g[k]
        BY <2>2, <3>1
    <3>3. Rest(s, h, j) = Rest(s, g, j)
        BY <3>1, <3>2, LooksAhead
    <3>4. CASE j = i
        BY <3>3, <3>4, <2>3
    <3>5. CASE j # i
      <4>1. j \in (i + 1)..n
          BY <3>5, <1>0
      <4> QED BY <4>1, <2>1, <2>2, <3>3
    <3> QED BY <3>4, <3>5
  <2> QED BY <2>4
<1>3. 1..n \subseteq S
  <2> HIDE DEF S, n
  <2> QED BY <1>0, <1>1, <1>2, DownTo
<1>4. PICK g : Kin(g, 1)
  <2>1. 1 \in S
      BY <1>0, <1>3
  <2> QED BY <2>1
<1> DEFINE f == [i \in 1..n |-> g[i]]
<1>5. f = [i \in 1..n |-> Rest(s, f, i)]
  <2>1. \A i \in 1..n : f[i] = g[i]
      OBVIOUS
  <2>2. DOMAIN f = 1..n /\ f = [i \in 1..n |-> f[i]]
      OBVIOUS
  <2> HIDE DEF f
  <2>3. ASSUME NEW i \in 1..n PROVE f[i] = Rest(s, f, i)
    <3>1. \A j \in (i + 1)..n : f[j] = g[j]
        BY <2>1, <1>0
    <3>2. Rest(s, f, i) = Rest(s, g, i)
        BY <3>1, LooksAhead
    <3> QED BY <3>2, <2>1, <1>4
  <2> QED BY <2>2, <2>3
<1>6. Kept(s) = CHOOSE rest : rest = [i \in 1..n |-> Rest(s, rest, i)]
    BY KeptChosen
<1>7. \E rest : rest = [i \in 1..n |-> Rest(s, rest, i)]
    BY <1>5
<1>8. Kept(s) = [i \in 1..n |-> Rest(s, Kept(s), i)]
  <2> DEFINE P(rest) == rest = [i \in 1..n |-> Rest(s, rest, i)]
  <2>1. \E rest : P(rest)
      BY <1>7
  <2>2. Kept(s) = CHOOSE rest : P(rest)
      BY <1>6
  <2> HIDE DEF P
  <2>3. P(Kept(s))
      BY <2>1, <2>2
  <2> QED BY <2>3 DEF P
<1> DEFINE kept == Kept(s)
<1>9. kept = [i \in 1..n |-> Rest(s, kept, i)]
    BY <1>8
<1> HIDE DEF kept
<1>10. \A i \in 1..n : kept[i] = Rest(s, kept, i)
    BY <1>9
<1> QED BY <1>10 DEF kept

\* Kept is text.
LEMMA KeptType ==
    ASSUME NEW s \in Text
    PROVE  \A i \in 1..Span(s) : Kept(s)[i] \in Text
<1> DEFINE n == Span(s)
           kept == Kept(s)
           S == {k \in 1..n : \A j \in k..n : kept[j] \in Text}
<1>0. /\ n \in Nat /\ Len(s) \in Nat /\ Len(s) + 1 < n /\ n \in 1..n
      /\ Len(Open) \in Nat /\ Len(Close) \in Nat /\ Len(Close) > 0 /\ Close \in Text
      /\ n = Len(s) + Len(Open) + Len(Close)
    BY SpanIs
<1>1. \A i \in 1..n : kept[i] = Rest(s, kept, i)
    BY KeptIs
<1> HIDE DEF n, kept
<1>2. n \in S
  <2>1. kept[n] = <<>>
    <3>1. n > Len(s)
        BY <1>0
    <3>2. kept[n] = Rest(s, kept, n)
        BY <1>0, <1>1
    <3> QED BY <3>1, <3>2 DEF Rest
  <2>2. \A j \in n..n : j = n
      BY <1>0
  <2> QED BY <2>1, <2>2, <1>0, Nothing
<1>3. ASSUME NEW i \in 1..n, i + 1 \in S, i < n PROVE i \in S
  <2>1. \A j \in (i + 1)..n : kept[j] \in Text
      BY <1>3
  <2> DEFINE end == Find(s, Close, i + Len(Open))
  <2>2. Rest(s, kept, i) =
            IF i > Len(s) THEN <<>>
            ELSE IF ~IsPrefix(Open, From(s, i)) THEN <<s[i]>> \o kept[i + 1]
            ELSE IF end = 0 THEN <<>> ELSE kept[end + Len(Close)]
      BY DEF Rest
  <2>3. ASSUME i <= Len(s), end # 0 PROVE kept[end + Len(Close)] \in Text
    <3>1. end \in (i + Len(Open))..(Len(s) - Len(Close) + 1)
        BY <1>0, <2>3, FindBehind
    <3> HIDE DEF end
    <3>2. Len(Open) > 0
        BY SpanIs
    <3>3. end + Len(Close) \in (i + 1)..n
        BY <1>0, <3>1, <3>2
    <3> QED BY <3>3, <2>1
  <2>4. ASSUME i <= Len(s) PROVE <<s[i]>> \o kept[i + 1] \in Text
    <3>1. i + 1 \in (i + 1)..n
        BY <1>0, <2>4
    <3>2. s[i] \in Alphabet
        BY <2>4, <1>0 DEF Text
    <3>3. <<s[i]>> \in Text
        BY <3>2 DEF Text
    <3> QED BY <3>1, <3>3, <2>1, Joined
  <2> HIDE DEF end
  <2>5. kept[i] \in Text
    <3>1. kept[i] = Rest(s, kept, i) /\ <<>> \in Text
        BY <1>1, Nothing
    <3>2. CASE i > Len(s)
        BY <3>1, <3>2, <2>2
    <3>3. CASE i <= Len(s)
        BY <3>1, <3>3, <2>2, <2>3, <2>4, <1>0
    <3> QED BY <3>2, <3>3, <1>0
  <2>6. \A j \in i..n : j = i \/ j \in (i + 1)..n
      BY <1>0
  <2> QED BY <2>1, <2>5, <2>6
<1>4. 1..n \subseteq S
  <2> HIDE DEF S
  <2> QED BY <1>0, <1>2, <1>3, DownTo
<1>5. \A i \in 1..n : kept[i] \in Text
  <2> TAKE i \in 1..n
  <2>1. i \in S /\ i \in i..n
      BY <1>4, <1>0
  <2> QED BY <2>1
<1> QED BY <1>5 DEF n, kept

\* Of a text without a tag from m on, all from there on is kept.
LEMMA KeptTail ==
    ASSUME NEW s \in Text, NEW m \in 1..(Len(s) + 1), Find(From(s, m), Open, 1) = 0
    PROVE  Kept(s)[m] = From(s, m)
<1> DEFINE kept == Kept(s)
           n == Len(s) + 1
           S == {k \in 1..n : k >= m => kept[k] = From(s, k)}
<1>0. /\ Len(s) \in Nat /\ Len(s) + 1 < Span(s) /\ Span(s) \in Nat /\ n \in Nat /\ n \in 1..n
      /\ Open \in Text /\ Len(Open) \in Nat /\ Len(Open) > 0
    BY SpanIs
<1>1. \A i \in 1..n : kept[i] = Rest(s, kept, i)
    BY KeptIs, <1>0
<1>2. \A i \in 1..Len(s) : i >= m => ~IsPrefix(Open, From(s, i))
  <2> SUFFICES ASSUME NEW i \in 1..Len(s), i >= m, IsPrefix(Open, From(s, i)) PROVE FALSE
      OBVIOUS
  <2> DEFINE u == From(s, m)
             j == i - m + 1
  <2>1. u \in Text /\ Len(u) = Len(s) + 1 - m
      BY FromType
  <2>2. j \in 1..(Len(s) + 1 - m + 1) /\ m + j - 1 = i
      BY <1>0
  <2>3. From(u, j) = From(s, i)
      BY <2>2, FromFrom
  <2>4. From(s, i) \in Text /\ Len(From(s, i)) = Len(s) + 1 - i
      BY <1>0, FromType
  <2>5. Len(Open) <= Len(s) + 1 - i
      BY <2>4, <1>0, PrefixIs
  <2>6. j \in 1..(Len(u) - Len(Open) + 1)
      BY <2>1, <2>2, <2>5, <1>0
  <2>7. j \in {k \in 1..(Len(u) - Len(Open) + 1) : IsPrefix(Open, From(u, k))}
      BY <2>3, <2>6
  <2> DEFINE places == {k \in 1..(Len(u) - Len(Open) + 1) : IsPrefix(Open, From(u, k))}
  <2>8. Find(u, Open, 1) = IF places = {} THEN 0 ELSE CHOOSE k \in places : \A l \in places : k <= l
      BY DEF Find
  <2>9. Find(u, Open, 1) # 0
    <3>1. places \in SUBSET Nat /\ places # {} /\ 0 \notin places
        BY <2>7
    <3> HIDE DEF places
    <3>2. \E k \in places : \A l \in places : k <= l
        BY <3>1, LeastPosition
    <3>3. Find(u, Open, 1) \in places
        BY <2>8, <3>1, <3>2
    <3> QED BY <3>1, <3>3
  <2> QED BY <2>9
<1> HIDE DEF kept
<1>3. n \in S
  <2>1. kept[n] = <<>>
    <3>1. n > Len(s)
        BY <1>0
    <3>2. kept[n] = Rest(s, kept, n)
        BY <1>0, <1>1
    <3> HIDE DEF n
    <3> QED BY <3>1, <3>2 DEF Rest
  <2>2. From(s, n) \in Text /\ Len(From(s, n)) = 0
    <3>1. n \in 1..(Len(s) + 1) /\ Len(s) + 1 - n = 0
        BY <1>0
    <3> HIDE DEF n
    <3> QED BY <3>1, FromType
  <2> QED BY <2>1, <2>2, <1>0, Nothing
<1>4. ASSUME NEW i \in 1..n, i + 1 \in S, i < n PROVE i \in S
  <2> SUFFICES ASSUME i >= m PROVE kept[i] = From(s, i)
      OBVIOUS
  <2>1. i \in 1..Len(s) /\ i + 1 \in 1..(Len(s) + 1) /\ i \in 1..(Len(s) + 1) /\ i \in Nat
      BY <1>4, <1>0
  <2>2. kept[i + 1] = From(s, i + 1)
      BY <1>4, <2>1, <1>0
  <2>3. kept[i] = <<s[i]>> \o From(s, i + 1)
    <3>1. kept[i] = Rest(s, kept, i) /\ ~(i > Len(s)) /\ ~IsPrefix(Open, From(s, i))
        BY <1>1, <1>2, <2>1, <1>0
    <3>2. kept[i] = <<s[i]>> \o kept[i + 1]
        BY <3>1 DEF Rest
    <3> QED BY <3>2, <2>2
  <2>4. /\ From(s, i + 1) \in Text /\ Len(From(s, i + 1)) = Len(s) - i
        /\ \A k \in 1..(Len(s) - i) : From(s, i + 1)[k] = s[i + k]
    <3> DEFINE j == i + 1
    <3>1. j \in 1..(Len(s) + 1) /\ Len(s) + 1 - j = Len(s) - i
        BY <2>1, <1>0
    <3>2. \A k \in 1..(Len(s) - i) : j + k - 1 = i + k
        BY <2>1, <1>0
    <3> HIDE DEF j
    <3>3. /\ From(s, j) \in Text
          /\ Len(From(s, j)) = Len(s) + 1 - j
          /\ \A k \in 1..(Len(s) + 1 - j) : From(s, j)[k] = s[j + k - 1]
        BY <3>1, FromType
    <3>4. /\ From(s, j) \in Text
          /\ Len(From(s, j)) = Len(s) - i
          /\ \A k \in 1..(Len(s) - i) : From(s, j)[k] = s[i + k]
        BY <3>1, <3>2, <3>3
    <3> QED BY <3>4 DEF j
  <2>5. /\ From(s, i) \in Text /\ Len(From(s, i)) = Len(s) + 1 - i
        /\ \A k \in 1..(Len(s) + 1 - i) : From(s, i)[k] = s[i + k - 1]
      BY <2>1, <1>0, FromType
  <2>6. <<s[i]>> \in Text /\ Len(<<s[i]>>) = 1 /\ <<s[i]>>[1] = s[i]
      BY <2>1 DEF Text
  <2> DEFINE t == From(s, i + 1)
             c == <<s[i]>>
             u == From(s, i)
  <2>7. /\ c \o t \in Text /\ Len(c \o t) = Len(c) + Len(t)
        /\ \A k \in 1..Len(c) : (c \o t)[k] = c[k]
        /\ \A k \in 1..Len(t) : (c \o t)[Len(c) + k] = t[k]
      BY <2>4, <2>6, Joined
  <2>8. u \in Text /\ Len(u) = Len(s) + 1 - i /\ \A k \in 1..(Len(s) + 1 - i) : u[k] = s[i + k - 1]
      BY <2>5
  <2>9. /\ Len(c) = 1 /\ c[1] = s[i] /\ Len(t) = Len(s) - i
        /\ \A k \in 1..(Len(s) - i) : t[k] = s[i + k]
      BY <2>4, <2>6
  <2> HIDE DEF t, c, u
  <2>10. Len(c \o t) = Len(u)
      BY <2>7, <2>8, <2>9, <2>1, <1>0
  <2>11. ASSUME NEW k \in 1..Len(u) PROVE (c \o t)[k] = u[k]
    <3>1. k \in 1..(Len(s) + 1 - i) /\ u[k] = s[i + k - 1]
        BY <2>8, <2>1, <1>0
    <3>2. CASE k = 1
        BY <3>1, <3>2, <2>7, <2>9, <2>1
    <3>3. CASE k # 1
      <4>1. k - 1 \in 1..(Len(s) - i) /\ 1 + (k - 1) = k /\ i + (k - 1) = i + k - 1
          BY <3>1, <3>3, <2>1, <1>0
      <4>2. (c \o t)[1 + (k - 1)] = t[k - 1] /\ t[k - 1] = s[i + (k - 1)]
          BY <4>1, <2>7, <2>9
      <4> QED BY <4>1, <4>2, <3>1
    <3> QED BY <3>2, <3>3
  <2>12. c \o t = u
      BY <2>7, <2>8, <2>10, <2>11, SameText
  <2> QED BY <2>3, <2>12 DEF c, t, u
<1>5. 1..n \subseteq S
  <2> HIDE DEF S, n
  <2> QED BY <1>0, <1>3, <1>4, DownTo
<1>6. m \in S /\ m >= m
    BY <1>5, <1>0
<1> QED BY <1>6 DEF kept

\* Where a text that opens with a tag has it.
OpensAt(s, first) == /\ first \in 1..Len(s)
                     /\ s[first] \notin Whitespace
                     /\ \A k \in 1..(first - 1) : s[k] \in Whitespace
                     /\ IsPrefix(Open, From(s, first))

\* It is where the white space ends.
LEMMA OpensSomewhere ==
    ASSUME NEW s \in Text, Opens(s)
    PROVE  \E first : OpensAt(s, first)
<1>0. Open \in Text /\ Len(Open) > 0 /\ Len(Open) \in Nat
    BY SpanIs
<1>1. IsPrefix(Open, LStrip(s, Whitespace)) /\ LStrip(s, Whitespace) \in Text
    BY LStripConcat DEF Opens
<1>2. LStrip(s, Whitespace) # <<>>
    BY <1>0, <1>1, PrefixIs, Nothing
<1>3. PICK first \in 1..Len(s) :
          s[first] \notin Whitespace /\ \A k \in 1..(first - 1) : s[k] \in Whitespace
    BY <1>2, LStripIs
<1>4. LStrip(s, Whitespace) = From(s, first)
    BY <1>3, LStripIs
<1> QED BY <1>1, <1>3, <1>4 DEF OpensAt

\* The tag stands in the text as it stands in From.
LEMMA WordAt ==
    ASSUME NEW s \in Text, NEW word \in Text, NEW i \in 1..Len(s), IsPrefix(word, From(s, i))
    PROVE  /\ i + Len(word) - 1 <= Len(s)
           /\ \A k \in 1..Len(word) : s[i + k - 1] = word[k]
<1>0. Len(s) \in Nat /\ Len(word) \in Nat /\ i \in 1..(Len(s) + 1)
    BY Nothing
<1> DEFINE u == From(s, i)
<1>1. /\ u \in Text /\ Len(u) = Len(s) + 1 - i
      /\ \A k \in 1..(Len(s) + 1 - i) : u[k] = s[i + k - 1]
    BY <1>0, FromType
<1> HIDE DEF u
<1>2. Len(word) <= Len(u) /\ \A k \in 1..Len(word) : word[k] = u[k]
  <2>1. IsPrefix(word, u)
      BY DEF u
  <2> QED BY <2>1, <1>1, PrefixIs
<1>3. ASSUME NEW k \in 1..Len(word) PROVE s[i + k - 1] = word[k]
  <2>1. k \in 1..(Len(s) + 1 - i)
      BY <1>0, <1>1, <1>2
  <2> QED BY <2>1, <1>1, <1>2
<1> QED BY <1>0, <1>1, <1>2, <1>3

\* White space in front of the tag is kept, and nothing else.
LEMMA KeptLead ==
    ASSUME NEW s \in Text, NEW first, OpensAt(s, first)
    PROVE  LStrip(Kept(s)[1], Whitespace) = LStrip(Kept(s)[first], Whitespace)
<1> DEFINE kept == Kept(s)
           S == {k \in 1..first : LStrip(kept[k], Whitespace) = LStrip(kept[first], Whitespace)}
<1>0. /\ Len(s) \in Nat /\ Len(s) + 1 < Span(s) /\ Span(s) \in Nat
      /\ Open \in Text /\ Len(Open) \in Nat /\ Len(Open) > 0
      /\ first \in 1..Len(s) /\ first \in Nat /\ first > 0
    BY SpanIs DEF OpensAt
<1>1. \A i \in 1..Span(s) : kept[i] = Rest(s, kept, i) /\ kept[i] \in Text
    BY KeptIs, KeptType
<1>2. Open[1] = s[first]
  <2>1. \A k \in 1..Len(Open) : s[first + k - 1] = Open[k]
      BY <1>0, WordAt DEF OpensAt
  <2>2. 1 \in 1..Len(Open) /\ first + 1 - 1 = first
      BY <1>0
  <2> QED BY <2>1, <2>2
<1>3. ASSUME NEW i \in 1..Len(s), s[i] \in Whitespace PROVE ~IsPrefix(Open, From(s, i))
  <2> SUFFICES ASSUME IsPrefix(Open, From(s, i)) PROVE FALSE
      OBVIOUS
  <2>1. \A k \in 1..Len(Open) : s[i + k - 1] = Open[k]
      BY <1>0, WordAt
  <2>2. 1 \in 1..Len(Open) /\ i + 1 - 1 = i
      BY <1>0
  <2> QED BY <2>1, <2>2, <1>2, <1>3 DEF OpensAt
<1> HIDE DEF kept
<1>4. first \in S
    BY <1>0
<1>5. ASSUME NEW i \in 1..first, i + 1 \in S, i < first PROVE i \in S
  <2>1. /\ i \in 1..Len(s) /\ i \in 1..Span(s) /\ i + 1 \in 1..Span(s) /\ ~(i > Len(s))
        /\ i \in 1..(first - 1)
      BY <1>0, <1>5
  <2>2. s[i] \in Whitespace
      BY <2>1 DEF OpensAt
  <2>3. kept[i] = <<s[i]>> \o kept[i + 1]
    <3>1. kept[i] = Rest(s, kept, i) /\ ~IsPrefix(Open, From(s, i))
        BY <1>1, <1>3, <2>1, <2>2
    <3> QED BY <3>1, <2>1 DEF Rest
  <2> DEFINE c == <<s[i]>>
             t == kept[i + 1]
  <2>4. c \in Text /\ \A k \in 1..Len(c) : c[k] \in Whitespace
    <3>1. s[i] \in Alphabet
        BY <2>2, FilterAssumption
    <3> QED BY <3>1, <2>2 DEF Text
  <2>5. t \in Text
      BY <1>1, <2>1
  <2> HIDE DEF c, t
  <2>6. LStrip(c, Whitespace) = <<>>
      BY <2>4, LStripIs
  <2>7. LStrip(c \o t, Whitespace) = LStrip(t, Whitespace)
      BY <2>4, <2>5, <2>6, LStripConcat
  <2>8. LStrip(kept[i], Whitespace) = LStrip(kept[i + 1], Whitespace)
      BY <2>3, <2>7 DEF c, t
  <2> QED BY <2>8, <1>5
<1>6. 1..first \subseteq S
  <2> HIDE DEF S
  <2> QED BY <1>0, <1>4, <1>5, DownTo
<1>7. 1 \in S
    BY <1>0, <1>6
<1> QED BY <1>7 DEF kept

\* The first closing tag is behind the opening one.
LEMMA CloseBehind ==
    ASSUME NEW s \in Text, NEW first, OpensAt(s, first)
    PROVE  Find(s, Close, first + Len(Open)) = Find(s, Close, 1)
<1>0. /\ Len(s) \in Nat /\ Open \in Text /\ Len(Open) \in Nat /\ Len(Open) > 0
      /\ Close \in Text /\ Len(Close) \in Nat /\ Len(Close) > 0
      /\ first \in 1..Len(s) /\ first \in Nat /\ first > 0
    BY SpanIs DEF OpensAt
<1>1. \A k \in 1..Len(Open) : s[first + k - 1] = Open[k]
    BY <1>0, WordAt DEF OpensAt
<1>2. ASSUME NEW j \in 1..(first + Len(Open) - 1), j <= Len(s), IsPrefix(Close, From(s, j))
      PROVE  FALSE
  <2>1. j \in 1..Len(s) /\ \A k \in 1..Len(Close) : s[j + k - 1] = Close[k]
    <3>1. j \in 1..Len(s)
        BY <1>0, <1>2
    <3> QED BY <3>1, <1>0, <1>2, WordAt
  <2>2. CASE j < first
    <3>1. 1 \in 1..Len(Close) /\ j + 1 - 1 = j /\ j \in 1..(first - 1)
        BY <2>2, <1>0
    <3>2. s[j] = Close[1] /\ s[j] \in Whitespace
        BY <3>1, <2>1 DEF OpensAt
    <3> QED BY <3>2, TagsAssumption
  <2>3. CASE j >= first
    <3> DEFINE k == j - first + 1
    <3>1. k \in 1..Len(Open)
        BY <2>3, <1>0
    <3>2. PICK m \in 1..Len(Close) : k + m - 1 <= Len(Open) /\ Close[m] # Open[k + m - 1]
        BY <3>1, TagsAssumption
    <3>3. k + m - 1 \in 1..Len(Open) /\ first + (k + m - 1) - 1 = j + m - 1
        BY <3>1, <3>2, <1>0
    <3>4. s[j + m - 1] = Open[k + m - 1] /\ s[j + m - 1] = Close[m]
        BY <3>3, <1>1, <2>1
    <3> QED BY <3>2, <3>4
  <2> QED BY <2>2, <2>3, <1>0
<1> DEFINE last == Len(s) - Len(Close) + 1
           from == first + Len(Open)
           P == {j \in 1..last : IsPrefix(Close, From(s, j))}
           Q == {j \in from..last : IsPrefix(Close, From(s, j))}
<1>3. P = Q
  <2>1. ASSUME NEW j \in P PROVE j \in Q
    <3>1. j \in 1..last /\ IsPrefix(Close, From(s, j)) /\ j <= Len(s)
        BY <1>0
    <3>2. j \notin 1..(first + Len(Open) - 1)
        BY <1>2, <3>1
    <3> QED BY <3>1, <3>2, <1>0
  <2>2. ASSUME NEW j \in Q PROVE j \in P
      BY <1>0
  <2> QED BY <2>1, <2>2
<1> DEFINE Least(S) == IF S = {} THEN 0 ELSE CHOOSE j \in S : \A k \in S : j <= k
<1>4. Find(s, Close, 1) = Least(P)
    BY DEF Find
<1>5. Find(s, Close, from) = Least(Q)
    BY DEF Find
<1> HIDE DEF P, Q, Least
<1> QED BY <1>3, <1>4, <1>5

\* Of one block and what follows, what follows is kept.
LEMMA KeptBlock ==
    ASSUME NEW s \in Text, NEW first, OpensAt(s, first), Find(AfterBlock(s), Open, 1) = 0
    PROVE  Kept(s)[first] = AfterBlock(s) /\ AfterBlock(s) \in Text
<1> DEFINE kept == Kept(s)
           end == Find(s, Close, 1)
           m == end + Len(Close)
<1>0. /\ Len(s) \in Nat /\ Len(s) + 1 < Span(s) /\ Span(s) \in Nat
      /\ Open \in Text /\ Len(Open) \in Nat /\ Len(Open) > 0
      /\ Close \in Text /\ Len(Close) \in Nat /\ Len(Close) > 0
      /\ first \in 1..Len(s) /\ first \in 1..Span(s) /\ ~(first > Len(s))
    BY SpanIs DEF OpensAt
<1>1. kept[first] = Rest(s, kept, first)
    BY <1>0, KeptIs
<1>2. Find(s, Close, first + Len(Open)) = end
    BY CloseBehind
<1>3. kept[first] = IF end = 0 THEN <<>> ELSE kept[m]
  <2> HIDE DEF kept, end
  <2>1. IsPrefix(Open, From(s, first))
      BY DEF OpensAt
  <2> QED BY <1>0, <1>1, <1>2, <2>1 DEF Rest
<1>4. AfterBlock(s) = IF end = 0 THEN <<>> ELSE From(s, m)
    BY DEF AfterBlock
<1>5. ASSUME end # 0 PROVE m \in 1..(Len(s) + 1)
  <2>1. end \in 1..(Len(s) - Len(Close) + 1)
      BY <1>0, <1>5, FindIs
  <2> HIDE DEF end
  <2> QED BY <2>1, <1>0
<1> HIDE DEF end, m
<1>6. CASE end = 0
    BY <1>3, <1>4, <1>6, Nothing
<1>7. CASE end # 0
  <2>1. AfterBlock(s) = From(s, m) /\ m \in 1..(Len(s) + 1) /\ kept[first] = kept[m]
      BY <1>3, <1>4, <1>5, <1>7
  <2>2. From(s, m) \in Text /\ Kept(s)[m] = From(s, m)
      BY <2>1, FromType, KeptTail
  <2> QED BY <2>1, <2>2
<1> QED BY <1>6, <1>7

\* White space stripped, a newline stripped before makes no difference.
LEMMA StripMore ==
    ASSUME NEW s \in Text
    PROVE  LStrip(LStrip(s, {Newline}), Whitespace) = LStrip(s, Whitespace)
<1>0. Len(s) \in Nat /\ Newline \in Whitespace
    BY Nothing, FilterAssumption
<1>1. CASE \A k \in 1..Len(s) : s[k] \in {Newline}
  <2>1. LStrip(s, {Newline}) = <<>> /\ LStrip(s, Whitespace) = <<>>
    <3>1. \A k \in 1..Len(s) : s[k] \in Whitespace
        BY <1>1, <1>0
    <3> QED BY <1>1, <3>1, LStripIs
  <2>2. <<>> \in Text /\ \A k \in 1..Len(<<>>) : <<>>[k] \in Whitespace
      BY Nothing
  <2>3. LStrip(<<>>, Whitespace) = <<>>
      BY <2>2, LStripIs
  <2> QED BY <2>1, <2>3
<1>2. CASE \E first \in 1..Len(s) :
               s[first] \notin {Newline} /\ \A k \in 1..(first - 1) : s[k] \in {Newline}
  <2>1. PICK first \in 1..Len(s) :
            s[first] \notin {Newline} /\ \A k \in 1..(first - 1) : s[k] \in {Newline}
      BY <1>2
  <2> DEFINE u == From(s, first)
             w == SubSeq(s, 1, first - 1)
  <2>2. LStrip(s, {Newline}) = u
      BY <2>1, LStripIs
  <2>3. u \in Text /\ Len(u) = Len(s) + 1 - first
        /\ \A k \in 1..(Len(s) + 1 - first) : u[k] = s[first + k - 1]
    <3>1. first \in 1..(Len(s) + 1)
        BY <1>0
    <3> QED BY <3>1, FromType
  <2>4. w \in Text /\ Len(w) = first - 1 /\ \A k \in 1..(first - 1) : w[k] = s[k]
      BY <1>0 DEF Text
  <2> HIDE DEF u, w
  <2>5. w \o u \in Text /\ Len(w \o u) = Len(w) + Len(u)
        /\ (\A k \in 1..Len(w) : (w \o u)[k] = w[k])
        /\ (\A k \in 1..Len(u) : (w \o u)[Len(w) + k] = u[k])
      BY <2>3, <2>4, Joined
  <2>6. w \o u = s
    <3>1. Len(w \o u) = Len(s)
        BY <2>3, <2>4, <2>5, <1>0
    <3>2. ASSUME NEW k \in 1..Len(s) PROVE (w \o u)[k] = s[k]
      <4>1. CASE k < first
        <5>1. k \in 1..Len(w) /\ k \in 1..(first - 1)
            BY <4>1, <2>4, <1>0
        <5> QED BY <5>1, <2>4, <2>5
      <4>2. CASE k >= first
        <5> DEFINE l == k - first + 1
        <5>1. l \in 1..Len(u) /\ l \in 1..(Len(s) + 1 - first) /\ Len(w) + l = k
              /\ first + l - 1 = k
            BY <4>2, <2>3, <2>4, <1>0
        <5> HIDE DEF l
        <5>2. (w \o u)[Len(w) + l] = u[l] /\ u[l] = s[first + l - 1]
            BY <5>1, <2>3, <2>5
        <5> QED BY <5>1, <5>2
      <4>3. k < first \/ k >= first
          BY <1>0
      <4> QED BY <4>1, <4>2, <4>3
    <3> QED BY <3>1, <3>2, <2>5, SameText
  <2>7. LStrip(w, Whitespace) = <<>>
    <3>1. \A k \in 1..Len(w) : w[k] \in Whitespace
        BY <2>1, <2>4, <1>0
    <3> QED BY <3>1, <2>4, LStripIs
  <2>8. LStrip(w \o u, Whitespace) = LStrip(u, Whitespace)
      BY <2>3, <2>4, <2>7, LStripConcat
  <2> QED BY <2>2, <2>6, <2>8
<1> QED BY <1>1, <1>2, LStripIs

\* Of a response with one leading block, strip_think leaves what stands behind
\* the block, but for white space in front.
LEMMA StripThinkIs ==
    ASSUME NEW s \in Text, OneLeadingBlock(s)
    PROVE  /\ AfterBlock(s) \in Text
           /\ LStrip(strip_think(s), Whitespace) = LStrip(AfterBlock(s), Whitespace)
<1>1. PICK first : OpensAt(s, first)
    BY OpensSomewhere DEF OneLeadingBlock, LeadingBlock
<1>2. Kept(s)[first] = AfterBlock(s) /\ AfterBlock(s) \in Text
    BY <1>1, KeptBlock DEF OneLeadingBlock
<1>3. Find(s, Open, 1) # 0
  <2> DEFINE places == {j \in 1..(Len(s) - Len(Open) + 1) : IsPrefix(Open, From(s, j))}
  <2>1. Len(s) \in Nat /\ Open \in Text /\ Len(Open) \in Nat /\ first \in 1..Len(s)
        /\ IsPrefix(Open, From(s, first))
      BY <1>1, SpanIs DEF OpensAt
  <2>2. first + Len(Open) - 1 <= Len(s)
      BY <2>1, WordAt
  <2>3. first \in places /\ places \in SUBSET Nat /\ 0 \notin places
      BY <2>1, <2>2
  <2>4. Find(s, Open, 1) = IF places = {} THEN 0 ELSE CHOOSE j \in places : \A k \in places : j <= k
      BY DEF Find
  <2> HIDE DEF places
  <2>5. \E j \in places : \A k \in places : j <= k
      BY <2>3, LeastPosition
  <2>6. Find(s, Open, 1) \in places
      BY <2>3, <2>4, <2>5
  <2> QED BY <2>3, <2>6
<1>4. strip_think(s) = LStrip(Kept(s)[1], {Newline})
    BY <1>3 DEF strip_think
<1>5. Kept(s)[1] \in Text
  <2>1. 1 \in 1..Span(s)
      BY SpanIs
  <2> QED BY <2>1, KeptType
<1>6. LStrip(strip_think(s), Whitespace) = LStrip(Kept(s)[1], Whitespace)
    BY <1>4, <1>5, StripMore
<1>7. LStrip(Kept(s)[1], Whitespace) = LStrip(Kept(s)[first], Whitespace)
    BY <1>1, KeptLead
<1> QED BY <1>2, <1>6, <1>7

\* Streamed in whatever pieces, a response with one leading block gives the answer
\* that strip_think makes of it for complete(), but for white space in front, for
\* any tags that TagsAssumption tells apart.
THEOREM StreamedAsStripped == Spec => []SameAnswer
<1>1. TypeOK /\ HidesOnlyTheBlock => SameAnswer
  <2> SUFFICES ASSUME TypeOK, HidesOnlyTheBlock, flushed, OneLeadingBlock(fed)
               PROVE  LStrip(out, Whitespace) = LStrip(strip_think(fed), Whitespace)
      BY DEF SameAnswer
  <2>1. fed \in Text /\ out \in Text
      BY DEF TypeOK, Text
  <2>2. LStrip(out, {Newline}) = LStrip(AfterBlock(fed), {Newline})
      BY DEF HidesOnlyTheBlock, OneLeadingBlock
  <2>3. /\ AfterBlock(fed) \in Text
        /\ LStrip(strip_think(fed), Whitespace) = LStrip(AfterBlock(fed), Whitespace)
      BY <2>1, StripThinkIs
  <2>4. LStrip(out, Whitespace) = LStrip(AfterBlock(fed), Whitespace)
      BY <2>1, <2>2, <2>3, StripMore
  <2> QED BY <2>3, <2>4
<1> QED BY <1>1, TypeCorrect, OnlyTheBlockIsHidden, PTL
=============================================================================
