------------------------- MODULE GeminiSchemaProofs -------------------------
(***************************************************************************)
(* Theorems about GeminiSchema, for any tools, with schemas nested as deep *)
(* as they like, and any values.                                           *)
(*                                                                         *)
(* sanitize_schema and the two readings of a schema are recursive          *)
(* functions.  That they are defined is shown layer by layer: a function   *)
(* that is right about the layers up to k extends to the next (ReducedIs,  *)
(* AcceptedIs, TakenIs), since a schema only refers to those below.        *)
(***************************************************************************)
EXTENDS GeminiSchema, WellFoundedInduction, TLAPS
-----------------------------------------------------------------------------
(***************************************************************************)
(* Layers.                                                                 *)
(***************************************************************************)
\* A set that has 0, and with a number the next one, has all up to n.
LEMMA UpTo ==
    ASSUME NEW n \in Nat, NEW S, 0 \in S, \A i \in 0..n : i < n /\ i \in S => i + 1 \in S
    PROVE  0..n \subseteq S
<1> SUFFICES ASSUME NEW b \in 0..n, b \notin S PROVE FALSE
    OBVIOUS
<1> DEFINE D == {d \in Nat : d <= n /\ d \notin S}
<1>1. b \in D
    OBVIOUS
<1>2. PICK d \in D : \A k \in D : ~(<<k, d>> \in OpToRel(<, Nat))
    BY <1>1, NatLessThanWellFounded, WFMin
<1>3. \A k \in D : ~(k < d)
    BY <1>2 DEF OpToRel
<1>4. d \in Nat /\ d <= n /\ d \notin S /\ d # 0
    BY <1>2
<1>5. d - 1 \in Nat /\ d - 1 < d /\ d - 1 \in 0..n /\ d - 1 < n /\ (d - 1) + 1 = d
    BY <1>4
<1>6. d - 1 \in S
    BY <1>3, <1>5
<1> QED BY <1>4, <1>5, <1>6

Depth == Len(Layers)

\* The layers down from each.
LEMMA LayersAre ==
    /\ Depth \in Nat /\ DOMAIN Layers = 1..Depth
    /\ Down(0) = {} /\ Schemas = Down(Depth)
    /\ \A k \in 0..Depth : Down(k) \subseteq Schemas
    /\ \A k \in 0..Depth : k < Depth => Down(k) \subseteq Down(k + 1)
<1>1. Depth \in Nat /\ DOMAIN Layers = 1..Depth
    BY SchemasAssumption DEF Depth
<1>2. Down(0) = {} /\ Schemas = Down(Depth)
    BY DEF Down, Schemas, Depth
<1>3. \A k, l \in Nat : k <= l => Down(k) \subseteq Down(l)
    BY DEF Down
<1> QED BY <1>1, <1>2, <1>3

\* What is in a schema is one layer down or more.
LEMMA PartsBelow ==
    ASSUME NEW k \in 0..Depth, k < Depth, NEW node \in Down(k + 1)
    PROVE  /\ node \in Seq(ToSet(node))
           /\ \A i, j \in DOMAIN node : node[i].key = node[j].key => i = j
           /\ \A e \in ToSet(node) : Parts(e) \subseteq Down(k)
           /\ \A e \in ToSet(node) : e.key = "type" => /\ e.names \in Seq(STRING)
                                                       /\ e.list \/ Len(e.names) = 1
<1>1. PICK j \in 1..(k + 1) : node \in Layers[j]
    BY DEF Down
<1>2. j \in DOMAIN Layers /\ j - 1 \in Nat /\ j - 1 <= k /\ k \in Nat
    BY LayersAre
<1>3. Down(j - 1) \subseteq Down(k)
    BY <1>2 DEF Down
<1> QED BY <1>1, <1>2, <1>3, SchemasAssumption

\* Every schema is in some layer.
LEMMA SchemaSomewhere ==
    ASSUME NEW node \in Schemas
    PROVE  \E k \in 0..Depth : k < Depth /\ node \in Down(k + 1)
<1>1. Depth \in Nat /\ Schemas = Down(Depth) /\ Down(0) = {}
    BY LayersAre
<1>2. Depth # 0
    BY <1>1
<1>3. Depth - 1 \in 0..Depth /\ Depth - 1 < Depth /\ (Depth - 1) + 1 = Depth
    BY <1>1, <1>2
<1> QED BY <1>1, <1>3

\* The entries of a schema.
LEMMA EntriesAre ==
    ASSUME NEW node \in Schemas
    PROVE  /\ DOMAIN node = 1..Len(node) /\ Len(node) \in Nat
           /\ \A i \in DOMAIN node : node[i] \in ToSet(node)
           /\ \A e \in ToSet(node) : \E i \in DOMAIN node : e = node[i]
           /\ \A i, j \in DOMAIN node : node[i].key = node[j].key => i = j
           /\ \A e \in ToSet(node) : e.key = "type" => /\ e.names \in Seq(STRING)
                                                       /\ e.list \/ Len(e.names) = 1
<1>1. PICK k \in 0..Depth : k < Depth /\ node \in Down(k + 1)
    BY SchemaSomewhere
<1>2. node \in Seq(ToSet(node))
    BY <1>1, PartsBelow
<1>3. DOMAIN node = 1..Len(node) /\ Len(node) \in Nat
    BY <1>2
<1>4. /\ \A i, j \in DOMAIN node : node[i].key = node[j].key => i = j
      /\ \A e \in ToSet(node) : e.key = "type" => /\ e.names \in Seq(STRING)
                                                  /\ e.list \/ Len(e.names) = 1
    BY <1>1, PartsBelow
<1> QED BY <1>3, <1>4 DEF ToSet
-----------------------------------------------------------------------------
(***************************************************************************)
(* sanitize_schema.                                                        *)
(***************************************************************************)
Reduce(node, f) == LastPut([i \in DOMAIN node |-> becomes(node[i], f)])

LEMMA ReducedChosen ==
    sanitize_schema = CHOOSE f : f = [node \in Schemas |-> Reduce(node, f)]
BY DEF sanitize_schema, Reduce

\* What an entry becomes depends on what becomes of its parts only.
LEMMA BecomesSame ==
    ASSUME NEW e, NEW f, NEW g, \A part \in Parts(e) : f[part] = g[part]
    PROVE  becomes(e, f) = becomes(e, g)
<1>1. CASE e.key = "properties"
    BY <1>1 DEF becomes, Parts
<1>2. CASE e.key = "items"
    BY <1>2 DEF becomes, Parts
<1>3. CASE e.key = "anyOf"
    BY <1>3 DEF becomes, Parts
<1>4. CASE e.key \notin {"properties", "items", "anyOf"}
    BY <1>4 DEF becomes
<1> QED BY <1>1, <1>2, <1>3, <1>4

LEMMA ReduceSame ==
    ASSUME NEW k \in 0..Depth, k < Depth, NEW node \in Down(k + 1), NEW f, NEW g,
           \A part \in Down(k) : f[part] = g[part]
    PROVE  Reduce(node, f) = Reduce(node, g)
<1>1. ASSUME NEW i \in DOMAIN node PROVE becomes(node[i], f) = becomes(node[i], g)
  <2>1. Parts(node[i]) \subseteq Down(k)
      BY PartsBelow DEF ToSet
  <2> QED BY <2>1, BecomesSame
<1>2. [i \in DOMAIN node |-> becomes(node[i], f)] = [i \in DOMAIN node |-> becomes(node[i], g)]
    BY <1>1
<1> QED BY <1>2 DEF Reduce

\* sanitize_schema is defined, and does with a schema what it says.
LEMMA ReducedIs ==
    \A node \in Schemas : sanitize_schema[node] = Reduce(node, sanitize_schema)
<1> DEFINE Right(f, k) == \A node \in Down(k) : f[node] = Reduce(node, f)
           S == {k \in 0..Depth : \E f : Right(f, k)}
<1>0. Depth \in Nat /\ Down(0) = {} /\ Schemas = Down(Depth)
    BY LayersAre
<1>1. 0 \in S
    BY <1>0
<1>2. ASSUME NEW k \in 0..Depth, k < Depth, k \in S PROVE k + 1 \in S
  <2>1. PICK f : Right(f, k)
      BY <1>2
  <2> DEFINE g == [node \in Down(k + 1) |-> IF node \in Down(k) THEN f[node] ELSE Reduce(node, f)]
  <2>2. Down(k) \subseteq Down(k + 1)
      BY <1>2, LayersAre
  <2>3. \A node \in Down(k) : g[node] = f[node]
      BY <2>2
  <2>4. \A node \in Down(k + 1) : node \notin Down(k) => g[node] = Reduce(node, f)
      OBVIOUS
  <2> HIDE DEF g
  <2>5. \A node \in Down(k + 1) : Reduce(node, g) = Reduce(node, f)
      BY <1>2, <2>3, ReduceSame
  <2>6. Right(g, k + 1)
      BY <2>1, <2>3, <2>4, <2>5
  <2> QED BY <2>6, <1>0, <1>2
<1>3. Depth \in S
  <2> HIDE DEF S
  <2>1. 0..Depth \subseteq S
      BY <1>0, <1>1, <1>2, UpTo
  <2> QED BY <1>0, <2>1
<1>4. PICK f : Right(f, Depth)
    BY <1>3
<1> DEFINE g == [node \in Schemas |-> f[node]]
<1>5. g = [node \in Schemas |-> Reduce(node, g)]
  <2>1. \A node \in Schemas : g[node] = f[node]
      OBVIOUS
  <2>2. g = [node \in Schemas |-> g[node]]
      OBVIOUS
  <2> HIDE DEF g
  <2>3. ASSUME NEW node \in Schemas PROVE Reduce(node, g) = g[node]
    <3>1. PICK k \in 0..Depth : k < Depth /\ node \in Down(k + 1)
        BY SchemaSomewhere
    <3>2. \A part \in Down(k) : g[part] = f[part]
        BY <2>1, LayersAre
    <3>3. Reduce(node, g) = Reduce(node, f)
        BY <3>1, <3>2, ReduceSame
    <3> QED BY <3>3, <2>1, <1>0, <1>4
  <2> QED BY <2>2, <2>3
<1> DEFINE P(h) == h = [node \in Schemas |-> Reduce(node, h)]
<1>6. \E h : P(h)
    BY <1>5
<1>7. sanitize_schema = CHOOSE h : P(h)
    BY ReducedChosen
<1> HIDE DEF P
<1>8. P(sanitize_schema)
    BY <1>6, <1>7
<1> DEFINE reduced == sanitize_schema
<1>9. reduced = [node \in Schemas |-> Reduce(node, reduced)]
    BY <1>8 DEF P
<1> HIDE DEF reduced
<1>10. \A node \in Schemas : reduced[node] = Reduce(node, reduced)
    BY <1>9
<1> QED BY <1>10 DEF reduced
-----------------------------------------------------------------------------
(***************************************************************************)
(* What a schema accepts.                                                  *)
(***************************************************************************)
Accept(node, f) == {v \in Values : \A e \in ToSet(node) : Admits(e, v, f)}

LEMMA AcceptedChosen ==
    accepts = CHOOSE f : f = [node \in Schemas |-> Accept(node, f)]
BY DEF accepts, Accept

\* What an entry admits depends on what its parts accept only.
LEMMA AdmitsSame ==
    ASSUME NEW e, NEW v, NEW f, NEW g, \A part \in Parts(e) : f[part] = g[part]
    PROVE  Admits(e, v, f) <=> Admits(e, v, g)
<1>1. CASE e.key = "properties"
    BY <1>1 DEF Admits, Parts
<1>2. CASE e.key = "items"
    BY <1>2 DEF Admits, Parts
<1>3. CASE e.key = "anyOf"
    BY <1>3 DEF Admits, Parts
<1>4. CASE e.key = "not"
    BY <1>4 DEF Admits, Parts
<1>5. CASE e.key \notin {"properties", "items", "anyOf", "not"}
    BY <1>5 DEF Admits
<1> QED BY <1>1, <1>2, <1>3, <1>4, <1>5

LEMMA AcceptSame ==
    ASSUME NEW k \in 0..Depth, k < Depth, NEW node \in Down(k + 1), NEW f, NEW g,
           \A part \in Down(k) : f[part] = g[part]
    PROVE  Accept(node, f) = Accept(node, g)
<1>1. ASSUME NEW e \in ToSet(node), NEW v \in Values PROVE Admits(e, v, f) <=> Admits(e, v, g)
  <2>1. Parts(e) \subseteq Down(k)
      BY PartsBelow
  <2> QED BY <2>1, AdmitsSame
<1> QED BY <1>1 DEF Accept

\* accepts is defined, and is what it says.
LEMMA AcceptedIs ==
    \A node \in Schemas : accepts[node] = Accept(node, accepts)
<1> DEFINE Right(f, k) == \A node \in Down(k) : f[node] = Accept(node, f)
           S == {k \in 0..Depth : \E f : Right(f, k)}
<1>0. Depth \in Nat /\ Down(0) = {} /\ Schemas = Down(Depth)
    BY LayersAre
<1>1. 0 \in S
    BY <1>0
<1>2. ASSUME NEW k \in 0..Depth, k < Depth, k \in S PROVE k + 1 \in S
  <2>1. PICK f : Right(f, k)
      BY <1>2
  <2> DEFINE g == [node \in Down(k + 1) |-> IF node \in Down(k) THEN f[node] ELSE Accept(node, f)]
  <2>2. Down(k) \subseteq Down(k + 1)
      BY <1>2, LayersAre
  <2>3. \A node \in Down(k) : g[node] = f[node]
      BY <2>2
  <2>4. \A node \in Down(k + 1) : node \notin Down(k) => g[node] = Accept(node, f)
      OBVIOUS
  <2> HIDE DEF g
  <2>5. \A node \in Down(k + 1) : Accept(node, g) = Accept(node, f)
      BY <1>2, <2>3, AcceptSame
  <2>6. Right(g, k + 1)
      BY <2>1, <2>3, <2>4, <2>5
  <2> QED BY <2>6, <1>0, <1>2
<1>3. Depth \in S
  <2> HIDE DEF S
  <2>1. 0..Depth \subseteq S
      BY <1>0, <1>1, <1>2, UpTo
  <2> QED BY <1>0, <2>1
<1>4. PICK f : Right(f, Depth)
    BY <1>3
<1> DEFINE g == [node \in Schemas |-> f[node]]
<1>5. g = [node \in Schemas |-> Accept(node, g)]
  <2>1. \A node \in Schemas : g[node] = f[node]
      OBVIOUS
  <2>2. g = [node \in Schemas |-> g[node]]
      OBVIOUS
  <2> HIDE DEF g
  <2>3. ASSUME NEW node \in Schemas PROVE Accept(node, g) = g[node]
    <3>1. PICK k \in 0..Depth : k < Depth /\ node \in Down(k + 1)
        BY SchemaSomewhere
    <3>2. \A part \in Down(k) : g[part] = f[part]
        BY <2>1, LayersAre
    <3>3. Accept(node, g) = Accept(node, f)
        BY <3>1, <3>2, AcceptSame
    <3> QED BY <3>3, <2>1, <1>0, <1>4
  <2> QED BY <2>2, <2>3
<1> DEFINE P(h) == h = [node \in Schemas |-> Accept(node, h)]
<1>6. \E h : P(h)
    BY <1>5
<1>7. accepts = CHOOSE h : P(h)
    BY AcceptedChosen
<1> HIDE DEF P
<1>8. P(accepts)
    BY <1>6, <1>7
<1> DEFINE accepted == accepts
<1>9. accepted = [node \in Schemas |-> Accept(node, accepted)]
    BY <1>8 DEF P
<1> HIDE DEF accepted
<1>10. \A node \in Schemas : accepted[node] = Accept(node, accepted)
    BY <1>9
<1> QED BY <1>10 DEF accepted

-----------------------------------------------------------------------------
(***************************************************************************)
(* What Gemini accepts.  What comes of the schemas is layered as they are. *)
(***************************************************************************)
Results(k) == {sanitize_schema[node] : node \in Down(k)}

ResultParts(o) == CASE o.key = "properties" -> {o.of[name] : name \in DOMAIN o.of}
                    [] o.key = "items" -> {o.each}
                    [] o.key = "anyOf" -> {o.some[i] : i \in DOMAIN o.some}
                    [] OTHER -> {}

Take(result, f) == {v \in Values : GeminiTakes(result, v, f)}

LEMMA TakenChosen ==
    gemini_accepts = CHOOSE f : f = [result \in Results(Depth) |-> Take(result, f)]
<1>1. {sanitize_schema[node] : node \in Schemas} = Results(Depth)
    BY LayersAre DEF Results
<1>2. gemini_accepts = CHOOSE f : f = [result \in {sanitize_schema[node] : node \in Schemas}
                                            |-> Take(result, f)]
    BY DEF gemini_accepts, Take
<1> QED BY <1>1, <1>2

\* Every entry of a result is what an entry of the schema has become.
LEMMA PutBy ==
    ASSUME NEW node \in Schemas, NEW o \in sanitize_schema[node]
    PROVE  \E i \in DOMAIN node : o \in becomes(node[i], sanitize_schema)
<1>1. o \in Reduce(node, sanitize_schema)
    BY ReducedIs
<1> QED BY <1>1 DEF Reduce, LastPut

\* The parts of what an entry becomes are what its parts become.
LEMMA BecomesParts ==
    ASSUME NEW e, NEW f, NEW o \in becomes(e, f), NEW part \in ResultParts(o)
    PROVE  \E p \in Parts(e) : part = f[p]
<1>1. CASE e.key = "properties"
    BY <1>1 DEF becomes, Parts, ResultParts
<1>2. CASE e.key = "items"
    BY <1>2 DEF becomes, Parts, ResultParts
<1>3. CASE e.key = "anyOf"
    BY <1>3 DEF becomes, Parts, ResultParts
<1>4. CASE e.key \notin {"properties", "items", "anyOf"}
  <2>1. o.key \notin {"properties", "items", "anyOf"}
      BY <1>4 DEF becomes, schema_type, first, SCHEMA_KEYS
  <2> QED BY <2>1 DEF ResultParts
<1> QED BY <1>1, <1>2, <1>3, <1>4

LEMMA ResultBelow ==
    ASSUME NEW k \in 0..Depth, k < Depth, NEW result \in Results(k + 1), NEW o \in result
    PROVE  ResultParts(o) \subseteq Results(k)
<1> SUFFICES ASSUME NEW part \in ResultParts(o) PROVE part \in Results(k)
    OBVIOUS
<1>1. PICK node \in Down(k + 1) : result = sanitize_schema[node]
    BY DEF Results
<1>2. node \in Schemas
  <2>1. k + 1 \in 0..Depth
      BY LayersAre
  <2> QED BY <2>1, <1>1, LayersAre
<1>3. PICK i \in DOMAIN node : o \in becomes(node[i], sanitize_schema)
    BY <1>1, <1>2, PutBy
<1>4. PICK p \in Parts(node[i]) : part = sanitize_schema[p]
    BY <1>3, BecomesParts
<1>5. p \in Down(k)
  <2>1. node[i] \in ToSet(node)
      BY DEF ToSet
  <2> QED BY <2>1, <1>4, PartsBelow
<1> QED BY <1>4, <1>5 DEF Results

LEMMA GeminiAdmitsSame ==
    ASSUME NEW o, NEW v, NEW f, NEW g, \A part \in ResultParts(o) : f[part] = g[part]
    PROVE  GeminiAdmits(o, v, f) <=> GeminiAdmits(o, v, g)
<1>1. CASE o.key = "properties"
    BY <1>1 DEF GeminiAdmits, ResultParts
<1>2. CASE o.key = "items"
    BY <1>2 DEF GeminiAdmits, ResultParts
<1>3. CASE o.key = "anyOf"
    BY <1>3 DEF GeminiAdmits, ResultParts
<1>4. CASE o.key \notin {"properties", "items", "anyOf"}
    BY <1>4 DEF GeminiAdmits
<1> QED BY <1>1, <1>2, <1>3, <1>4

LEMMA TakeSame ==
    ASSUME NEW k \in 0..Depth, k < Depth, NEW result \in Results(k + 1), NEW f, NEW g,
           \A part \in Results(k) : f[part] = g[part]
    PROVE  Take(result, f) = Take(result, g)
<1>1. ASSUME NEW o \in result, NEW v \in Values
      PROVE  GeminiAdmits(o, v, f) <=> GeminiAdmits(o, v, g)
  <2>1. ResultParts(o) \subseteq Results(k)
      BY ResultBelow
  <2> QED BY <2>1, GeminiAdmitsSame
<1> QED BY <1>1 DEF Take, GeminiTakes

\* gemini_accepts is defined, and is what it says.
LEMMA TakenIs ==
    \A result \in Results(Depth) : gemini_accepts[result] = Take(result, gemini_accepts)
<1> DEFINE Right(f, k) == \A result \in Results(k) : f[result] = Take(result, f)
           S == {k \in 0..Depth : \E f : Right(f, k)}
<1>0. Depth \in Nat /\ Results(0) = {}
    BY LayersAre DEF Results
<1>a. \A k \in 0..Depth : Results(k) \subseteq Results(Depth)
    BY LayersAre DEF Results
<1>b. \A k \in 0..Depth : k < Depth => Results(k) \subseteq Results(k + 1)
    BY LayersAre DEF Results
<1>1. 0 \in S
    BY <1>0
<1>2. ASSUME NEW k \in 0..Depth, k < Depth, k \in S PROVE k + 1 \in S
  <2>1. PICK f : Right(f, k)
      BY <1>2
  <2> DEFINE g == [result \in Results(k + 1) |->
                       IF result \in Results(k) THEN f[result] ELSE Take(result, f)]
  <2>2. Results(k) \subseteq Results(k + 1)
      BY <1>2, <1>b
  <2>3. \A result \in Results(k) : g[result] = f[result]
      BY <2>2
  <2>4. \A result \in Results(k + 1) : result \notin Results(k) => g[result] = Take(result, f)
      OBVIOUS
  <2> HIDE DEF g
  <2>5. \A result \in Results(k + 1) : Take(result, g) = Take(result, f)
      BY <1>2, <2>3, TakeSame
  <2>6. Right(g, k + 1)
      BY <2>1, <2>3, <2>4, <2>5
  <2> QED BY <2>6, <1>0, <1>2
<1>3. Depth \in S
  <2> HIDE DEF S
  <2>1. 0..Depth \subseteq S
      BY <1>0, <1>1, <1>2, UpTo
  <2> QED BY <1>0, <2>1
<1>4. PICK f : Right(f, Depth)
    BY <1>3
<1> DEFINE g == [result \in Results(Depth) |-> f[result]]
<1>5. g = [result \in Results(Depth) |-> Take(result, g)]
  <2>1. \A result \in Results(Depth) : g[result] = f[result]
      OBVIOUS
  <2>2. g = [result \in Results(Depth) |-> g[result]]
      OBVIOUS
  <2> HIDE DEF g
  <2>3. ASSUME NEW result \in Results(Depth) PROVE Take(result, g) = g[result]
    <3>1. PICK k \in 0..Depth : k < Depth /\ result \in Results(k + 1)
        BY SchemaSomewhere, LayersAre DEF Results
    <3>2. \A part \in Results(k) : g[part] = f[part]
        BY <2>1, <1>a
    <3>3. Take(result, g) = Take(result, f)
        BY <3>1, <3>2, TakeSame
    <3> QED BY <3>3, <2>1, <1>4
  <2> QED BY <2>2, <2>3
<1> DEFINE P(h) == h = [result \in Results(Depth) |-> Take(result, h)]
<1>6. \E h : P(h)
    BY <1>5
<1>7. gemini_accepts = CHOOSE h : P(h)
    BY TakenChosen
<1> HIDE DEF P
<1>8. P(gemini_accepts)
    BY <1>6, <1>7
<1> DEFINE taken == gemini_accepts
<1>9. taken = [result \in Results(Depth) |-> Take(result, taken)]
    BY <1>8 DEF P
<1> HIDE DEF taken
<1>10. \A result \in Results(Depth) : taken[result] = Take(result, taken)
    BY <1>9
<1> QED BY <1>10 DEF taken
-----------------------------------------------------------------------------
(***************************************************************************)
(* Nothing is taken away.                                                  *)
(***************************************************************************)
\* Only a type or a nullable puts something under nullable.
LEMMA PutsNullable ==
    ASSUME NEW e, NEW f, NEW n \in becomes(e, f), n.key = "nullable"
    PROVE  e.key \in {"type", "nullable"} /\ (e.key = "nullable" => n = e)
BY DEF becomes, schema_type, first, SCHEMA_KEYS

\* Where null is one of the types of a schema that accepts it, the result says so.
LEMMA NullKept ==
    ASSUME NEW node \in Schemas, NEW v \in Values, v.type = "null",
           \A e \in ToSet(node) : Admits(e, v, accepts),
           NEW i \in DOMAIN node, node[i].key = "type",
           node[i].list, "null" \in ToSet(node[i].names)
    PROVE  \E o \in sanitize_schema[node] : o.key = "nullable" /\ o.flag
<1> DEFINE puts == [m \in DOMAIN node |-> becomes(node[m], sanitize_schema)]
           yes == [key |-> "nullable", flag |-> TRUE]
<1>1. sanitize_schema[node] = LastPut(puts)
    BY ReducedIs DEF Reduce
<1>2. DOMAIN puts = DOMAIN node /\ \A m \in DOMAIN node : puts[m] = becomes(node[m], sanitize_schema)
    OBVIOUS
<1>3. DOMAIN node \subseteq Nat /\ \A m, l \in DOMAIN node : node[m].key = node[l].key => m = l
    BY EntriesAre
<1>4. yes \in puts[i]
    BY <1>2 DEF becomes, schema_type
<1> HIDE DEF puts
<1>5. ASSUME NEW m \in DOMAIN node, NEW n \in puts[m], n.key = "nullable"
      PROVE  m = i \/ (node[m].key = "nullable" /\ n = node[m])
    BY <1>2, <1>3, <1>5, PutsNullable
<1>6. CASE \A j \in DOMAIN node : j > i => \A n \in puts[j] : n.key # "nullable"
  <2>1. yes \in LastPut(puts)
      BY <1>2, <1>4, <1>6 DEF LastPut
  <2> QED BY <1>1, <2>1
<1>7. CASE \E j \in DOMAIN node : j > i /\ \E n \in puts[j] : n.key = "nullable"
  <2>1. PICK j \in DOMAIN node : j > i /\ \E n \in puts[j] : n.key = "nullable"
      BY <1>7
  <2>2. node[j].key = "nullable" /\ node[j] \in puts[j]
      BY <1>3, <1>5, <2>1
  <2>3. \A l \in DOMAIN node : l > j => \A n \in puts[l] : n.key # "nullable"
      BY <1>3, <1>5, <2>1, <2>2
  <2>4. node[j] \in LastPut(puts)
      BY <1>2, <2>2, <2>3 DEF LastPut
  <2>5. node[j].flag
    <3>1. Admits(node[j], v, accepts)
        BY EntriesAre
    <3> QED BY <3>1, <2>2 DEF Admits
  <2> QED BY <1>1, <2>2, <2>4, <2>5
<1> QED BY <1>6, <1>7

\* The types of a value are the types of JSON Schema, in Gemini's spelling.
LEMMA TypeKept ==
    ASSUME OneTypeEach, NEW node \in Schemas, NEW v \in Values,
           NEW e \in ToSet(node), e.key = "type", Admits(e, v, accepts),
           NEW o \in first(e)
    PROVE  \/ GeminiAdmits(o, v, gemini_accepts)
           \/ v.type = "null" /\ e.list /\ "null" \in ToSet(e.names)
<1>1. PICK k \in arms(e) : o = [key |-> "type", type |-> upper[e.names[k]]]
    BY DEF first
<1>2. v.type \in JSON_TYPES /\ v.type \in ToSet(e.names)
    BY ValuesAssumption DEF Admits
<1>3. PICK m \in DOMAIN e.names : v.type = e.names[m]
    BY <1>2 DEF ToSet
<1>4. CASE m \in arms(e)
  <2>1. e.names[k] = v.type
      BY <1>1, <1>3, <1>4 DEF OneTypeEach
  <2> QED BY <1>1, <2>1 DEF GeminiAdmits
<1>5. CASE m \notin arms(e)
    BY <1>2, <1>3, <1>5 DEF arms
<1> QED BY <1>4, <1>5

\* One entry, given that what is in it has been kept.
LEMMA EntryKept ==
    ASSUME NEW e, e.key # "type", NEW v, Admits(e, v, accepts),
           \A p \in Parts(e) : accepts[p] \subseteq gemini_accepts[sanitize_schema[p]],
           NEW o \in becomes(e, sanitize_schema)
    PROVE  GeminiAdmits(o, v, gemini_accepts)
<1>1. CASE e.key = "const"
    BY <1>1 DEF becomes, Admits, GeminiAdmits
<1>2. CASE e.key = "properties"
  <2>1. o = [key |-> "properties", of |-> [name \in DOMAIN e.of |-> sanitize_schema[e.of[name]]]]
      BY <1>2 DEF becomes
  <2>2. \A name \in DOMAIN e.of : accepts[e.of[name]] \subseteq gemini_accepts[sanitize_schema[e.of[name]]]
      BY <1>2 DEF Parts
  <2> QED BY <1>2, <2>1, <2>2 DEF Admits, GeminiAdmits
<1>3. CASE e.key = "items"
    BY <1>3 DEF becomes, Admits, GeminiAdmits, Parts
<1>4. CASE e.key = "anyOf"
  <2>1. o = [key |-> "anyOf", some |-> [i \in DOMAIN e.some |-> sanitize_schema[e.some[i]]]]
      BY <1>4 DEF becomes
  <2>2. \A i \in DOMAIN e.some : accepts[e.some[i]] \subseteq gemini_accepts[sanitize_schema[e.some[i]]]
      BY <1>4 DEF Parts
  <2> QED BY <1>4, <2>1, <2>2 DEF Admits, GeminiAdmits
<1>5. CASE e.key \in {"nullable", "enum", "required"}
    BY <1>5 DEF becomes, Admits, GeminiAdmits, SCHEMA_KEYS
<1>6. CASE e.key \notin SCHEMA_KEYS \cup {"const"}
    BY <1>6 DEF becomes, SCHEMA_KEYS
<1> QED BY <1>1, <1>2, <1>3, <1>4, <1>5, <1>6 DEF SCHEMA_KEYS

\* One schema, given that those in it have been kept.
LEMMA SchemaKept ==
    ASSUME OneTypeEach, NEW node \in Schemas, NEW v \in accepts[node],
           \A e \in ToSet(node) : \A p \in Parts(e) :
               accepts[p] \subseteq gemini_accepts[sanitize_schema[p]]
    PROVE  v \in Values /\ GeminiTakes(sanitize_schema[node], v, gemini_accepts)
<1>1. v \in Values /\ \A e \in ToSet(node) : Admits(e, v, accepts)
    BY AcceptedIs DEF Accept
<1>2. ASSUME ~(v.type = "null" /\ \E o \in sanitize_schema[node] : o.key = "nullable" /\ o.flag),
             NEW o \in sanitize_schema[node]
      PROVE  GeminiAdmits(o, v, gemini_accepts)
  <2>1. PICK i \in DOMAIN node : o \in becomes(node[i], sanitize_schema)
      BY PutBy
  <2>2. node[i] \in ToSet(node)
      BY EntriesAre
  <2>3. CASE node[i].key = "type"
    <3>1. o \in first(node[i]) \/ o = [key |-> "nullable", flag |-> TRUE]
        BY <2>1, <2>3 DEF becomes, schema_type
    <3>2. ~(v.type = "null" /\ node[i].list /\ "null" \in ToSet(node[i].names))
        BY <1>1, <1>2, <2>3, NullKept
    <3>3. CASE o \in first(node[i])
        BY <1>1, <2>2, <2>3, <3>2, <3>3, TypeKept
    <3>4. CASE o = [key |-> "nullable", flag |-> TRUE]
        BY <3>4 DEF GeminiAdmits
    <3> QED BY <3>1, <3>3, <3>4
  <2>4. CASE node[i].key # "type"
      BY <1>1, <2>1, <2>2, <2>4, EntryKept
  <2> QED BY <2>3, <2>4
<1> QED BY <1>1, <1>2 DEF GeminiTakes

\* However deep, a schema becomes one that takes whatever it accepts.
LEMMA Kept ==
    ASSUME OneTypeEach
    PROVE  \A node \in Schemas : accepts[node] \subseteq gemini_accepts[sanitize_schema[node]]
<1> DEFINE S == {k \in 0..Depth : \A node \in Down(k) :
                     accepts[node] \subseteq gemini_accepts[sanitize_schema[node]]}
<1>0. Depth \in Nat /\ Down(0) = {} /\ Schemas = Down(Depth)
    BY LayersAre
<1>1. 0 \in S
    BY <1>0
<1>2. ASSUME NEW k \in 0..Depth, k < Depth, k \in S PROVE k + 1 \in S
  <2>1. k + 1 \in 0..Depth
      BY <1>0, <1>2
  <2>2. ASSUME NEW node \in Down(k + 1), NEW v \in accepts[node]
        PROVE  v \in gemini_accepts[sanitize_schema[node]]
    <3>1. node \in Schemas
        BY <2>1, LayersAre
    <3>2. \A e \in ToSet(node) : \A p \in Parts(e) :
              accepts[p] \subseteq gemini_accepts[sanitize_schema[p]]
        BY <1>2, PartsBelow
    <3>3. v \in Values /\ GeminiTakes(sanitize_schema[node], v, gemini_accepts)
        BY <3>1, <3>2, SchemaKept
    <3>4. sanitize_schema[node] \in Results(Depth)
        BY <1>0, <3>1 DEF Results
    <3> QED BY <3>3, <3>4, TakenIs DEF Take
  <2> QED BY <2>1, <2>2
<1>3. Depth \in S
  <2> HIDE DEF S
  <2>1. 0..Depth \subseteq S
      BY <1>0, <1>1, <1>2, UpTo
  <2> QED BY <1>0, <2>1
<1> QED BY <1>0, <1>3
-----------------------------------------------------------------------------
(***************************************************************************)
(* The loop.                                                               *)
(***************************************************************************)
\* An entry puts one thing under a key, if any.
LEMMA OneEach ==
    ASSUME NEW node \in Schemas, NEW i \in DOMAIN node, NEW f,
           NEW o \in becomes(node[i], f), NEW p \in becomes(node[i], f), o.key = p.key
    PROVE  o = p
<1> DEFINE e == node[i]
<1>1. CASE e.key = "type"
  <2>1. e.names \in Seq(STRING)
      BY <1>1, EntriesAre
  <2>2. arms(e) \subseteq Nat
      BY <2>1 DEF arms
  <2>3. \A x, y \in first(e) : x = y
      BY <2>2 DEF first
  <2>4. \A x \in first(e) : x.key = "type"
      BY DEF first
  <2> DEFINE yes == [key |-> "nullable", flag |-> TRUE]
  <2>5. becomes(e, f) \subseteq first(e) \cup {yes} /\ yes.key = "nullable"
      BY <1>1 DEF becomes, schema_type
  <2> HIDE DEF e, yes
  <2>6. o \in first(e) \/ o = yes
      BY <2>5 DEF e
  <2>7. p \in first(e) \/ p = yes
      BY <2>5 DEF e
  <2> QED BY <2>3, <2>4, <2>5, <2>6, <2>7
<1>2. CASE e.key # "type"
    BY <1>2 DEF becomes
<1> QED BY <1>1, <1>2

\* What is put in one go later overwrites what is there under its keys.
LEMMA LastPutNext ==
    ASSUME NEW n \in Nat, NEW puts, NEW more,
           DOMAIN puts = 1..n, DOMAIN more = 1..(n + 1), \A i \in 1..n : more[i] = puts[i]
    PROVE  LastPut(more) = {o \in LastPut(puts) : \A new \in more[n + 1] : new.key # o.key}
                           \cup more[n + 1]
<1> DEFINE later == {o \in LastPut(puts) : \A new \in more[n + 1] : new.key # o.key}
<1>1. ASSUME NEW o, o \in LastPut(more) PROVE o \in later \cup more[n + 1]
  <2>1. PICK i \in 1..(n + 1) : o \in more[i] /\ \A j \in 1..(n + 1) :
                                    j > i => \A new \in more[j] : new.key # o.key
      BY <1>1 DEF LastPut
  <2>2. CASE i \in 1..n
      BY <2>1, <2>2 DEF LastPut
  <2> QED BY <2>1, <2>2
<1>2. ASSUME NEW o, o \in later PROVE o \in LastPut(more)
  <2>1. PICK i \in 1..n : o \in puts[i] /\ \A j \in 1..n :
                              j > i => \A new \in puts[j] : new.key # o.key
      BY <1>2 DEF LastPut
  <2>2. \A j \in 1..(n + 1) : j \in 1..n \/ j = n + 1
      OBVIOUS
  <2>3. \A j \in 1..(n + 1) : j > i => \A new \in more[j] : new.key # o.key
      BY <1>2, <2>1, <2>2
  <2>4. i \in 1..(n + 1) /\ o \in more[i]
      BY <2>1
  <2> QED BY <2>3, <2>4 DEF LastPut
<1>3. ASSUME NEW o \in more[n + 1] PROVE o \in LastPut(more)
  <2>1. n + 1 \in 1..(n + 1) /\ \A j \in 1..(n + 1) : ~(j > n + 1)
      OBVIOUS
  <2> QED BY <2>1 DEF LastPut
<1> QED BY <1>1, <1>2, <1>3

\* What has been put together after n entries.
SoFar(n) == LastPut([i \in 1..n |-> becomes(schema[i], sanitize_schema)])

\* With no key twice.
LEMMA SoFarOnce ==
    ASSUME schema \in Schemas, NEW n \in 0..Len(schema), NEW o \in SoFar(n), NEW p \in SoFar(n),
           o.key = p.key
    PROVE  o = p
<1> DEFINE puts == [i \in 1..n |-> becomes(schema[i], sanitize_schema)]
<1>1. \A i \in 1..n : puts[i] = becomes(schema[i], sanitize_schema) /\ i \in DOMAIN schema
    BY EntriesAre
<1>2. DOMAIN puts = 1..n /\ SoFar(n) = LastPut(puts)
    BY DEF SoFar
<1> HIDE DEF puts
<1>3. PICK i \in 1..n : o \in puts[i] /\ \A j \in 1..n : j > i => \A new \in puts[j] : new.key # o.key
    BY <1>2 DEF LastPut
<1>4. PICK l \in 1..n : p \in puts[l] /\ \A j \in 1..n : j > l => \A new \in puts[j] : new.key # p.key
    BY <1>2 DEF LastPut
<1>5. i = l
    BY <1>3, <1>4
<1> QED BY <1>1, <1>3, <1>4, <1>5, OneEach

\* All of it is what sanitize_schema makes of the schema.
LEMMA AllPut ==
    ASSUME schema \in Schemas
    PROVE  SoFar(Len(schema)) = sanitize_schema[schema]
BY EntriesAre, ReducedIs DEF SoFar, Reduce

LoopInv == /\ TypeOK
           /\ out = SoFar(at)
           /\ \A d \in decls : d.parameters \subseteq out \cup {[key |-> "type", type |-> "OBJECT"]}

LEMMA LoopInit == Init => LoopInv
<1> SUFFICES ASSUME Init PROVE LoopInv
    OBVIOUS
<1>1. schema \in Schemas
    BY ToolsAssumption DEF Init, schema
<1>2. Len(schema) \in Nat
    BY <1>1, EntriesAre
<1>3. SoFar(0) = {}
    BY DEF SoFar, LastPut
<1> QED BY <1>2, <1>3 DEF Init, LoopInv, TypeOK

LEMMA LoopStep == LoopInv /\ [Next]_vars => LoopInv'
<1> SUFFICES ASSUME LoopInv, [Next]_vars PROVE LoopInv'
    OBVIOUS
<1>1. schema \in Schemas
    BY ToolsAssumption DEF LoopInv, TypeOK, schema
<1>2. Len(schema) \in Nat /\ at \in 0..Len(schema)
    BY <1>1, EntriesAre DEF LoopInv, TypeOK
<1>3. CASE Put
  <2>1. tool' = tool /\ schema' = schema /\ decls' = decls /\ at' = at + 1 /\ at < Len(schema)
      BY <1>3 DEF Put, schema
  <2>2. at' \in 0..Len(schema)
      BY <1>2, <2>1
  <2>3. out' = SoFar(at')
    <3> DEFINE puts == [i \in 1..at |-> becomes(schema[i], sanitize_schema)]
               more == [i \in 1..(at + 1) |-> becomes(schema[i], sanitize_schema)]
    <3>1. /\ DOMAIN puts = 1..at /\ DOMAIN more = 1..(at + 1)
          /\ \A i \in 1..at : more[i] = puts[i]
          /\ more[at + 1] = becomes(schema[at + 1], sanitize_schema)
        BY <1>2
    <3>2. out = LastPut(puts) /\ SoFar(at + 1) = LastPut(more)
        BY DEF LoopInv, SoFar
    <3>3. out' = {o \in out : \A n \in becomes(schema[at + 1], sanitize_schema) : n.key # o.key}
                 \cup becomes(schema[at + 1], sanitize_schema)
        BY <1>3 DEF Put
    <3> HIDE DEF puts, more
    <3>4. LastPut(more) = {o \in LastPut(puts) : \A new \in more[at + 1] : new.key # o.key}
                          \cup more[at + 1]
        BY <1>2, <3>1, LastPutNext
    <3> QED BY <2>1, <3>1, <3>2, <3>3, <3>4
  <2>4. \A o, p \in out' : o.key = p.key => o = p
      BY <1>1, <2>1, <2>2, <2>3, SoFarOnce
  <2>5. decls = {}
    <3> SUFFICES ASSUME NEW d \in decls PROVE FALSE
        OBVIOUS
    <3> QED BY <1>2, <2>1 DEF LoopInv, TypeOK
  <2> QED BY <2>1, <2>2, <2>3, <2>4, <2>5 DEF LoopInv, TypeOK, SoFar
<1>4. CASE Declare
  <2>1. /\ tool' = tool /\ schema' = schema /\ at' = at /\ out' = out /\ at = Len(schema)
        /\ SoFar(at)' = SoFar(at)
      BY <1>4 DEF Declare, schema, SoFar
  <2>2. \A d \in decls' : /\ d.name = tool.name
                          /\ d.parameters \subseteq out \cup {[key |-> "type", type |-> "OBJECT"]}
    <3> DEFINE parameters == IF \A o \in out : o.key = "properties" => DOMAIN o.of = {}
                             THEN {}
                             ELSE out \cup (IF \E o \in out : o.key = "type" THEN {}
                                            ELSE {[key |-> "type", type |-> "OBJECT"]})
    <3>1. parameters \subseteq out \cup {[key |-> "type", type |-> "OBJECT"]}
        OBVIOUS
    <3>2. decls' = {[name |-> tool.name, parameters |-> parameters]}
        BY <1>4 DEF Declare
    <3> HIDE DEF parameters
    <3> QED BY <3>1, <3>2
  <2>3. \A d, e \in decls' : d = e
      BY <1>4 DEF Declare
  <2> QED BY <2>1, <2>2, <2>3 DEF LoopInv, TypeOK
<1>5. CASE UNCHANGED vars
    BY <1>5 DEF vars, LoopInv, TypeOK, SoFar, schema
<1> QED BY <1>3, <1>4, <1>5 DEF Next

LEMMA Looping == Spec => []LoopInv
BY LoopInit, LoopStep, PTL DEF Spec

\* _to_function_declarations: the loop never leaves the schema, puts a key
\* once, and declares a tool once, under its name, when the schema is done.
THEOREM TypeCorrect == Spec => []TypeOK
<1>1. LoopInv => TypeOK
    BY DEF LoopInv
<1> QED BY <1>1, Looping, PTL

\* _to_function_declarations and _sanitize_schema: whatever is dropped, folded
\* or overwritten, and however deep, Gemini is allowed every argument that a
\* tool accepts, as long as no type of a schema lists two types besides null.
THEOREM ToolsOnlyWidened == ASSUME OneTypeEach PROVE Spec => []OnlyWidened
<1>1. LoopInv => OnlyWidened
  <2> SUFFICES ASSUME LoopInv, NEW declared \in decls, NEW v \in accepts[schema], v.type = "object"
               PROVE  GeminiTakes(declared.parameters, v, gemini_accepts)
      BY DEF OnlyWidened
  <2>1. schema \in Schemas
      BY ToolsAssumption DEF LoopInv, TypeOK, schema
  <2>2. out = sanitize_schema[schema]
      BY <2>1, AllPut DEF LoopInv, TypeOK
  <2>3. sanitize_schema[schema] \in Results(Depth)
      BY <2>1, LayersAre DEF Results
  <2>4. GeminiTakes(out, v, gemini_accepts)
      BY <2>1, <2>2, <2>3, Kept, TakenIs DEF Take
  <2>5. \A o \in out : GeminiAdmits(o, v, gemini_accepts)
      BY <2>4 DEF GeminiTakes
  <2>6. \A o : o = [key |-> "type", type |-> "OBJECT"] => GeminiAdmits(o, v, gemini_accepts)
      BY DEF GeminiAdmits, upper
  <2> QED BY <2>5, <2>6 DEF LoopInv, GeminiTakes
<1> QED BY <1>1, Looping, PTL
=============================================================================
