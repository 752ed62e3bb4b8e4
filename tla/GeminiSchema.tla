---------------------------- MODULE GeminiSchema ----------------------------
(***************************************************************************)
(* The tools of a request, as Gemini takes them: _to_function_declarations *)
(* and, for the arguments of each, _sanitize_schema, which reduces a JSON  *)
(* Schema to the subset that Gemini knows.                                 *)
(*                                                                         *)
(* A schema is the sequence of its entries, in the order of the Python     *)
(* dict, since a later one may overwrite what an earlier one became; what  *)
(* comes out has each key once and is a set of entries.  Abstracted: the   *)
(* kept keywords that are copied unchanged, of which `required` stands for *)
(* all, and the dropped ones, for which "not" and additionalProperties do. *)
(***************************************************************************)
EXTENDS Naturals, Sequences, SequencesExt

CONSTANTS Layers,       \* the schemas, by how deep they are nested
          Tools,        \* what a request may offer
          Values        \* what a model might call them with, and the parts of it

JSON_TYPES == {"string", "integer", "array", "object", "null"}
SCHEMA_KEYS == {"type", "nullable", "enum", "items", "properties", "required", "anyOf"}
upper == [string |-> "STRING", integer |-> "INTEGER", array |-> "ARRAY",
          object |-> "OBJECT", null |-> "NULL"]

\* The schemas in an entry, and all of the schemas down from layer k.
Parts(e) == CASE e.key = "properties" -> {e.of[name] : name \in DOMAIN e.of}
              [] e.key = "items" -> {e.each}
              [] e.key = "anyOf" -> {e.some[i] : i \in DOMAIN e.some}
              [] e.key = "not" -> {e.schema}
              [] OTHER -> {}
Down(k) == UNION {Layers[j] : j \in 1..k}
Schemas == Down(Len(Layers))

\* A schema is a dict, hence with no key twice, of schemas from the layers below.
ASSUME SchemasAssumption ==
    /\ Layers \in Seq(SUBSET Schemas)
    /\ \A k \in DOMAIN Layers : \A node \in Layers[k] :
           /\ node \in Seq(ToSet(node))
           /\ \A i, j \in DOMAIN node : node[i].key = node[j].key => i = j
           /\ \A e \in ToSet(node) : Parts(e) \subseteq Down(k - 1)
           /\ \A e \in ToSet(node) : e.key = "type" => /\ e.names \in Seq(STRING)
                                                       /\ e.list \/ Len(e.names) = 1

ASSUME ToolsAssumption == \A tool \in Tools : tool.input_schema \in Schemas

ASSUME ValuesAssumption ==
    \A v \in Values : /\ v.type \in JSON_TYPES
                      /\ v.type = "object" => \A n \in DOMAIN v.fields : v.fields[n] \in Values
                      /\ v.type = "array" => \A k \in DOMAIN v.items : v.items[k] \in Values

\* What `type` becomes: at most one type, the first, in Gemini's spelling, and
\* whether null is allowed beside it.
arms(e) == {i \in DOMAIN e.names : e.names[i] \in JSON_TYPES /\ (e.list => e.names[i] # "null")}
first(e) == {[key |-> "type", type |-> upper[e.names[i]]] :
                i \in {i \in arms(e) : \A j \in arms(e) : i <= j}}

\* Mutant: null is a type no more, and nothing else either.
schema_typeForgetsNull(e) == first(e)
schema_type(e) ==
    first(e) \cup (IF e.list /\ "null" \in ToSet(e.names)
                   THEN {[key |-> "nullable", flag |-> TRUE]} ELSE {})

\* What one entry puts into the result, given what the schemas in it become.
becomes(e, reduced) ==
    CASE e.key = "const" -> {[key |-> "enum", values |-> {e.value}]}
      [] e.key = "type" -> schema_type(e)
      [] e.key = "properties" ->
            {[key |-> "properties", of |-> [name \in DOMAIN e.of |-> reduced[e.of[name]]]]}
      [] e.key = "items" -> {[key |-> "items", each |-> reduced[e.each]]}
      [] e.key = "anyOf" ->
            {[key |-> "anyOf", some |-> [i \in DOMAIN e.some |-> reduced[e.some[i]]]]}
      [] e.key \in SCHEMA_KEYS \ {"type", "properties", "items", "anyOf"} -> {e}
      [] OTHER -> {}

\* Of what is put under one key, the last stays.
LastPut(puts) ==
    UNION {{o \in puts[i] : \A j \in DOMAIN puts : j > i => \A n \in puts[j] : n.key # o.key} :
              i \in DOMAIN puts}

sanitize_schema[node \in Schemas] ==
    LastPut([i \in DOMAIN node |-> becomes(node[i], sanitize_schema)])

(***************************************************************************)
(* A tool on its way into a request: its schema is gone through entry by   *)
(* entry, the schemas in an entry in one go.                               *)
(***************************************************************************)
VARIABLES tool,         \* the tool that _to_function_declarations has come to
          at,           \* how many entries of its schema _sanitize_schema has done
          out,          \* what it has put together
          decls         \* the declaration, once there is one
vars == <<tool, at, out, decls>>

schema == tool.input_schema

TypeOK == /\ tool \in Tools
          /\ at \in 0..Len(schema)
          /\ \A o, p \in out : o.key = p.key => o = p
          /\ \A d, e \in decls : d = e
          /\ \A d \in decls : d.name = tool.name /\ at = Len(schema)

Init == /\ tool \in Tools
        /\ at = 0
        /\ out = {}
        /\ decls = {}

\* Mutant: what is there already is not looked at.
PutBeside == /\ tool.name # "" /\ at < Len(schema)
             /\ at' = at + 1
             /\ out' = out \cup becomes(schema[at + 1], sanitize_schema)
             /\ UNCHANGED <<tool, decls>>

\* One entry; a tool without a name is passed over.
Put == /\ tool.name # "" /\ at < Len(schema)
       /\ at' = at + 1
       /\ LET new == becomes(schema[at + 1], sanitize_schema)
          IN  out' = {o \in out : \A n \in new : n.key # o.key} \cup new
       /\ UNCHANGED <<tool, decls>>

\* A declaration has parameters only if there are any, and then they are an object.
Declare ==
    /\ tool.name # "" /\ at = Len(schema) /\ decls = {}
    /\ LET parameters == IF \A o \in out : o.key = "properties" => DOMAIN o.of = {}
                         THEN {}
                         ELSE out \cup (IF \E o \in out : o.key = "type" THEN {}
                                        ELSE {[key |-> "type", type |-> "OBJECT"]})
       IN  decls' = {[name |-> tool.name, parameters |-> parameters]}
    /\ UNCHANGED <<tool, at, out>>

Next == Put \/ Declare

Spec == Init /\ [][Next]_vars
-----------------------------------------------------------------------------
(***************************************************************************)
(* Properties.  The values that a schema accepts, as JSON Schema and as    *)
(* Gemini read it: every entry has its say, on the values it is about.     *)
(***************************************************************************)
Admits(e, v, accepted) ==
    CASE e.key = "type" -> v.type \in ToSet(e.names)
      [] e.key = "nullable" -> v.type = "null" => e.flag
      [] e.key = "const" -> v = e.value
      [] e.key = "enum" -> v \in e.values
      [] e.key = "properties" -> v.type = "object" =>
            \A n \in DOMAIN e.of \cap DOMAIN v.fields : v.fields[n] \in accepted[e.of[n]]
      [] e.key = "required" -> v.type = "object" => e.names \subseteq DOMAIN v.fields
      [] e.key = "items" -> v.type = "array" =>
            \A k \in DOMAIN v.items : v.items[k] \in accepted[e.each]
      [] e.key = "anyOf" -> \E k \in DOMAIN e.some : v \in accepted[e.some[k]]
      [] e.key = "not" -> v \notin accepted[e.schema]
      [] e.key = "additionalProperties" -> v.type = "object" => DOMAIN v.fields \subseteq e.names
      [] OTHER -> TRUE
accepts[node \in Schemas] == {v \in Values : \A e \in ToSet(node) : Admits(e, v, accepts)}

GeminiAdmits(o, v, accepted) ==
    CASE o.key = "type" -> o.type = upper[v.type]
      [] o.key = "nullable" -> v.type = "null" => o.flag
      [] o.key = "enum" -> v \in o.values
      [] o.key = "properties" -> v.type = "object" =>
            \A n \in DOMAIN o.of \cap DOMAIN v.fields : v.fields[n] \in accepted[o.of[n]]
      [] o.key = "required" -> v.type = "object" => o.names \subseteq DOMAIN v.fields
      [] o.key = "items" -> v.type = "array" =>
            \A k \in DOMAIN v.items : v.items[k] \in accepted[o.each]
      [] o.key = "anyOf" -> \E k \in DOMAIN o.some : v \in accepted[o.some[k]]
      [] OTHER -> TRUE
GeminiTakes(result, v, accepted) ==
    \/ v.type = "null" /\ \E o \in result : o.key = "nullable" /\ o.flag
    \/ \A o \in result : GeminiAdmits(o, v, accepted)
gemini_accepts[result \in {sanitize_schema[node] : node \in Schemas}] ==
    {v \in Values : GeminiTakes(result, v, gemini_accepts)}

\* No `type` lists two types besides null; of those that do, _schema_type keeps
\* the first.
OneTypeEach ==
    \A node \in Schemas : \A e \in ToSet(node) : e.key = "type" =>
        \A i, j \in arms(e) : e.names[i] = e.names[j]

\* Whatever is dropped, folded or overwritten, Gemini is allowed every argument
\* that a tool accepts: the declaration takes nothing away.
OnlyWidened ==
    \A declared \in decls : \A v \in accepts[schema] : v.type = "object" =>
        GeminiTakes(declared.parameters, v, gemini_accepts)
=============================================================================
