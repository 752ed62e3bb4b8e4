------------------------- MODULE RequestTranslation -------------------------
(***************************************************************************)
(* A conversation, which the callers keep in Anthropic's shape, becomes    *)
(* the body of a request: _to_contents of the Gemini wire and              *)
(* _to_openai_messages of the OpenAI wire; the Anthropic wire passes it    *)
(* through.  The two loops over messages and their blocks are unrolled     *)
(* into steps, so that an invariant can say what they compute; nothing     *)
(* else happens meanwhile.                                                 *)
(*                                                                         *)
(* Abstracted: texts, arguments and payloads.  A content given as a string *)
(* is a message of one text block, to which both loops translate it alike; *)
(* `call` says which call a tool_use is and a tool_result answers, and is  *)
(* seen by the properties only.                                            *)
(***************************************************************************)
EXTENDS Naturals, Sequences, SequencesExt

CONSTANTS Names,        \* names of tools
          NoName        \* no tool's name

\* gemini-call-<n>-<name>, or with no name the id another provider gave.
Ids == [turn : Nat, n : Nat, name : Names \cup {NoName}]
Blocks == [type : {"text", "tool_use", "tool_result"}, id : Ids,
           name : Names \cup {NoName}, call : Nat \X Nat]
Messages == [role : {"user", "assistant"}, content : Seq(Blocks)]
Turns == [role : {"user", "assistant", "model", "tool"}, parts : Seq(Blocks)]

VARIABLES wire,         \* the backend that is asked, if any
          messages,     \* req.messages
          translating,  \* the loop is running
          done,         \* messages it has dealt with
          at,           \* blocks of the next message it has dealt with
          parts,        \* of that message: text, and for Gemini calls
          tool_calls,   \* calls, for OpenAI
          results,      \* tool results, as the wire writes them
          body          \* contents / messages of the request so far
loop == <<translating, done, at, parts, tool_calls, results, body>>

TranslationTypeOK ==
    /\ wire \in {"none", "openai", "anthropic", "gemini"}
    /\ messages \in Seq(Messages)
    /\ translating \in BOOLEAN
    /\ done \in Nat /\ at \in Nat
    /\ parts \in Seq(Blocks) /\ tool_calls \in Seq(Blocks) /\ results \in Seq(Blocks)
    /\ body \in Seq(Turns)

Idle == /\ translating = FALSE
        /\ done = 0 /\ at = 0
        /\ parts = <<>> /\ tool_calls = <<>> /\ results = <<>> /\ body = <<>>

(***************************************************************************)
(* Ids and names.                                                          *)
(***************************************************************************)
Uses == {p \in UNION {{m} \X DOMAIN messages[m].content : m \in DOMAIN messages} :
            messages[p[1]].content[p[2]].type = "tool_use"}
Use(p) == messages[p[1]].content[p[2]]
Precedes(p, q) == p[1] < q[1] \/ (p[1] = q[1] /\ p[2] < q[2])

\* A later use of an id overwrites an earlier one.
tool_name_index ==
    [id \in {Use(p).id : p \in Uses} |->
        Use(CHOOSE p \in Uses : /\ Use(p).id = id
                                /\ \A q \in Uses : Use(q).id = id => ~Precedes(p, q)).name]

\* An id that is in the conversation, else a synthesized one, else the id itself.
resolve_tool_name(id) == IF id \in DOMAIN tool_name_index THEN tool_name_index[id]
                                                          ELSE id.name

(***************************************************************************)
(* The loops.                                                              *)
(***************************************************************************)
\* The Anthropic wire has none.
Build(w) == /\ wire' = w
            /\ translating' = (w # "anthropic")
            /\ body' = IF w = "anthropic"
                       THEN [m \in DOMAIN messages |-> [role |-> messages[m].role,
                                                        parts |-> messages[m].content]]
                       ELSE <<>>
            /\ done' = 0 /\ at' = 0
            /\ parts' = <<>> /\ tool_calls' = <<>> /\ results' = <<>>

Content == messages[done + 1].content

NextBlock == /\ translating /\ done < Len(messages) /\ at < Len(Content)
             /\ at' = at + 1
             /\ UNCHANGED <<wire, messages, translating, done, body>>

TakePart == /\ NextBlock
            /\ \/ Content[at + 1].type = "text"
               \/ Content[at + 1].type = "tool_use" /\ wire = "gemini"
            /\ parts' = Append(parts, Content[at + 1])
            /\ UNCHANGED <<tool_calls, results>>

TakeCall == /\ NextBlock
            /\ Content[at + 1].type = "tool_use" /\ wire = "openai"
            /\ tool_calls' = Append(tool_calls, Content[at + 1])
            /\ UNCHANGED <<parts, results>>

TakeResult == /\ NextBlock
              /\ Content[at + 1].type = "tool_result"
              /\ LET block == Content[at + 1]
                 IN  results' = Append(results,
                        IF wire = "openai" THEN block
                        ELSE [block EXCEPT !.name = resolve_tool_name(block.id)])
              /\ UNCHANGED <<parts, tool_calls>>

EndOfMessage == /\ translating /\ done < Len(messages) /\ at = Len(Content)
                /\ done' = done + 1
                /\ at' = 0 /\ parts' = <<>> /\ tool_calls' = <<>> /\ results' = <<>>
                /\ UNCHANGED <<wire, messages, translating>>

\* Mutant: every message is a turn of its own.
appendApart(contents, role, new) ==
    IF new = <<>> THEN contents ELSE Append(contents, [role |-> role, parts |-> new])

\* Gemini wants turns to alternate: parts of the same role join the last turn.
append(contents, role, new) ==
    IF new = <<>> THEN contents
    ELSE IF contents # <<>> /\ contents[Len(contents)].role = role
    THEN [contents EXCEPT ![Len(contents)].parts = @ \o new]
    ELSE Append(contents, [role |-> role, parts |-> new])

\* Mutant: text before the results beside it.
to_contentsTextFirst ==
    /\ wire = "gemini" /\ EndOfMessage
    /\ LET role == IF messages[done + 1].role = "assistant" THEN "model" ELSE "user"
       IN  body' = append(append(body, role, parts), "user", results)

to_contents ==
    /\ wire = "gemini" /\ EndOfMessage
    /\ LET role == IF messages[done + 1].role = "assistant" THEN "model" ELSE "user"
       IN  body' = append(append(body, "user", results), role, parts)

Turn(role, blocks) == [role |-> role, parts |-> blocks]

\* Mutant: a message with results has nothing else.
to_openai_messagesResultsOnly ==
    /\ wire = "openai" /\ EndOfMessage
    /\ body' = body \o
          (IF messages[done + 1].role = "assistant"
           THEN <<Turn("assistant", parts \o tool_calls)>>
           ELSE IF results # <<>>
           THEN [i \in DOMAIN results |-> Turn("tool", <<results[i]>>)]
           ELSE <<Turn("user", parts)>>)

\* OpenAI wants tool results as messages of their own, behind the calls.
to_openai_messages ==
    /\ wire = "openai" /\ EndOfMessage
    /\ body' = body \o
          (IF messages[done + 1].role = "assistant"
           THEN <<Turn("assistant", parts \o tool_calls)>>
           ELSE [i \in DOMAIN results |-> Turn("tool", <<results[i]>>)] \o
                (IF parts # <<>> \/ results = <<>> THEN <<Turn("user", parts)>> ELSE <<>>))

EndOfMessages == /\ translating /\ done = Len(messages)
                 /\ translating' = FALSE
                 /\ UNCHANGED <<wire, messages, done, at, parts, tool_calls, results, body>>

Translate == \/ TakePart \/ TakeCall \/ TakeResult
             \/ to_contents \/ to_openai_messages \/ EndOfMessages
=============================================================================
