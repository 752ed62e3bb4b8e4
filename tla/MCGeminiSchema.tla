--------------------------- MODULE MCGeminiSchema ---------------------------
(***************************************************************************)
(* Instances of GeminiSchema for TLC.                                      *)
(***************************************************************************)
EXTENDS GeminiSchema

Null == [type |-> "null"]
Scalars == {Null, [type |-> "integer", is |-> "1"]} \cup [type : {"string"}, is : {"x", "y"}]
Lists == [type : {"array"}, items : SeqOf(Scalars, 1)]
Arguments == [type : {"object"},
              fields : UNION {[fields -> Scalars \cup Lists] : fields \in SUBSET {"p", "q"}}]
MCValues == Scalars \cup Lists \cup Arguments

Type(names) == [key |-> "type", list |-> FALSE, names |-> names]
Union(names) == [key |-> "type", list |-> TRUE, names |-> names]
Properties(of) == [key |-> "properties", of |-> of]
X == [type |-> "string", is |-> "x"]
Const == [key |-> "const", value |-> X]
Keywords == {Type(<<"string">>), Type(<<"null">>), Type(<<"any">>),
             Union(<<"string", "null">>), Union(<<"null", "integer">>), Union(<<"null">>),
             Const, [key |-> "enum", values |-> {X, Null}], [key |-> "not", schema |-> <<Const>>]}
            \cup [key : {"nullable"}, flag : BOOLEAN]

\* Schemas of up to two entries, no key twice; of the items of a list, or of the
\* first of two alternatives; of a field.
Leaves == {s \in SeqOf(Keywords, 2) : Len(s) = 2 => s[1].key # s[2].key}
Nested == {<<Type(<<"array">>), [key |-> "items", each |-> leaf]>> : leaf \in Leaves}
          \cup {<<[key |-> "anyOf", some |-> <<leaf, <<Const>>>>]>> : leaf \in Leaves}
Objects ==
    UNION {{<<Properties([p |-> field])>>,
            <<[key |-> "required", names |-> {"p"}], Type(<<"object">>),
              Properties([p |-> field, q |-> <<Const>>]),
              [key |-> "additionalProperties", names |-> {"p", "q"}]>>} :
               field \in Leaves \cup Nested}
    \cup {<<Type(<<"object">>)>>}
MCLayers == <<{<<Const>>}, Leaves, Nested, Objects>>
MCTools == [name : {"", "tool"}, input_schema : Leaves \cup Nested \cup Objects]

ASSUME OneTypeEach
=============================================================================
