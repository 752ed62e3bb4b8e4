# llm-transport in TLA+

A verification project for `llm_transport`: an LLM client over three provider
wires (Anthropic Messages, OpenAI chat completions, Gemini), built on `httpx`
and `asyncio`. Modules model the code, TLC checks them on small instances, and
TLAPS proves the results that matter most for every value of the constants.

To repeat a run: `tlc -config MCCalls.cfg MCCalls.tla`, and so on for the other
`.cfg` files, each of which belongs to the module whose name it begins with. To
repeat the proofs: `tlapm CallsProofs.tla`, `StreamSessionProofs.tla`,
`ThinkFilterProofs.tla`, `AnthropicStreamProofs.tla`, `OpenAIStreamProofs.tla`,
`GeminiSchemaProofs.tla`, `ConversationProofs.tla` and
`ConversationRenderingProofs.tla` (the last two take some five minutes each).

## The system

| Part | State | Operations | Talks to |
|---|---|---|---|
| `errors.py`, `_http.py` | none | the exception classes; `status_error`, `map_request_error`; `is_retryable` | raised by the wires, asked by `with_retries` and by the worker outside this package |
| `_retry.py` | `attempt`, per call | `with_retries`: try, classify, sleep, again | awaits the request function of a wire |
| `factory.py` | none | `build_transport(kind, ...)` | the three wires |
| wires: `complete` | the httpx client, shared by all calls | build a request, `post` it under `with_retries`, parse the answer | httpx's connection pool |
| wires: `stream` | `_cm`, `_response` | `__aenter__` opens under `with_retries`, `__aexit__` closes | httpx's connection pool |
| wires: the session | `_text` / `_blocks`, `_tool_calls` / `_calls`, `_finish_reason`, `_usage`, `_drained`, `_think` | `_consume`, reached through `text_stream`, `events()` and `get_final_message()` | `iter_sse_json`, the consumers |
| `sse.py` | none of its own | lines to JSON values | httpx's `aiter_lines` |
| `thinkfilter.py` | `_state`, `_buf` | `feed`, `flush`; `strip_think` | the OpenAI wire |
| request translation | none; the conversation is in the messages, ids of earlier answers included | `_to_openai_messages`; `_to_contents` with `_tool_name_index`, `_resolve_tool_name`; `_sanitize_schema` | the wires, and through the callers' messages every earlier answer |
| `compat.py`, `base.py`, `events.py`, `types.py` | none | the legacy facade, the contract, the data classes | call sites |

Every task of the process that calls a transport shares its client, hence its
pool of connections. Everything else is per call or per session, but nothing
keeps two tasks from using one session.

What is hard here:

- **Failure in the middle.** A request may fail in the pool, while connecting,
  while waiting, with an error status, while the body of *that* is read, or
  after the stream has opened; each place has its own answer to "retry?" and
  "who gives the connection back?". Any `await` may be cancelled.
- **Sessions used in an order nobody wrote.** Three surfaces start the same
  generator over a body httpx gives out once. A consumer may leave its loop
  early, be cancelled, ask for the final message twice or from another task,
  or leave the `async with` block while an iterator is suspended.
- **Pieces.** Text, tags, JSON and usage come in pieces cut anywhere, of
  several blocks or tool calls at once, and may stop at any of them.
- **Ids that come back.** Gemini's calls have no ids. The stream and `complete()`
  each make some up, in two ways, from numbers that begin anew with every
  answer; callers send them back in later requests, to any wire, and what a
  result answers must still be found.

### What makes each part correct

- Retries: no more requests than `1 + max_retries`, only after what is
  documented as retryable, none once a stream has opened; every call settles.
- Connections: held exactly while a response is awaited or read.
- Session: one reader at a time; a response only when the end of the stream has
  been read, and always the same one; the deltas are the text of the response.
- Filter: wherever the text is cut, only the leading block is hidden; the same
  answer as `strip_think`.
- Assembly: the response put together from a stream is that of `complete()`;
  one cut short is a truncation of it.
- Request translation: results next to their calls, alternating roles, every
  result named after its call and told from all others by its id; nothing lost.
- Tool declarations: a schema that is reduced may allow more, never less.

## The modules

| Module | Models | State and actions |
|---|---|---|
| `Errors` | `errors.py`, `status_error`, `map_request_error`, `_google_status_error` | operators only; an exception is its class and its status |
| `BoundedRetry` | abstract: what a caller is promised about requests | `phase`, `sent`; `Call`, `Request`, `Deliver`, `Settle` |
| `Calls` | `with_retries`, `complete()`, `__aenter__`, `__aexit__` of the three wires, `build_transport`, and httpx's pool | see below |
| `StreamContract` | abstract: what a session promises | `transcript`, `fate`, `answer`; `Grow`, `Lose`, `Complete`, `Answer` |
| `StreamSession` | the three surfaces of a session on every wire, its consumers, `iter_sse_json`, `__aexit__` | see below |
| `ThinkFilter` | `thinkfilter.py`, exactly, over a small alphabet | `state`, `buf` as in the code; `feed`, `flush` |
| `AnthropicStream` | `_AnthropicStream._consume`, `_merge_usage`, `get_final_message`; the response of `complete()` | `blocks`, `stop`, `usage`, `drained`; one action per event type |
| `GeminiStream` | `_GeminiStream._consume`, `get_final_message`; `_blocks_from_parts` part by part beside it | `text`, `calls`, `finish`, `usage`, `drained`, and `blocks` of `complete()`; one action per kind of part |
| `RequestTranslation` | `_to_contents`, `_tool_name_index`, `_resolve_tool_name`, `_to_openai_messages`, the pass-through of the Anthropic wire | the locals of the two loops and the body; one action per kind of block and one per end of a message |
| `Conversation` | callers, requests and answers over the turns of a conversation: `RequestTranslation` and `GeminiStream` composed | `messages`, `said`, `pc`; see below |
| `GeminiSchema` | `_schema_type`, `_sanitize_schema`, `_to_function_declarations` | `tool`, `at`, `out`, `decls`: the loops unrolled; one action per entry of a schema, one for the declaration |
| `OpenAIStream` | `_OpenAIStream._consume`, `get_final_message`; the response of `complete()` | `text`, `tool_calls`, `finish`, `usage`, `drained`; one action per kind of chunk |
| `MC...` | instances for TLC | |
| `...Proofs` | theorems | |

**Calls.** `pc[t]` is the place a task stands at: `acquire` (in httpx's pool),
`await` (for the response of `post`, or the headers of a stream), `errbody`
(`aread()` of a refused stream), `backoff` (the sleep), `open` and `over` (in the
`async with` block of a session, before and after the end of its body), and the
ways to settle. `attempt` is the loop counter, `status` the response's code,
`outcome` the exception last caught or raised, `holder` the task that has each
connection, `sent` the requests the provider has received for the call. `Catch`
is the `except` branch of `with_retries`; `Conclude` is what `complete()` does
outside of it, which is why a protocol error is not retried. `ErrorBodyFails` is
the one place where an httpx failure is not mapped, `Cancel` covers every
`await`. A body is abstracted to the class that decides the outcome of
`complete()`.

**StreamSession.** A *handle* is a call of one of the three surfaces; `pc[h]` says
whether it is reading, suspended at a yield, at the last yield (the text that
`flush()` releases), ended, failed or abandoned. `consumed` and `closed` are
httpx's flags: a body is given out once, and not after closing. `pos` counts
lines; a piece of text is the number of its line, so the assembled text shows at
once whether anything was lost, repeated or reordered. `Feed` allows everything
`ThinkTagFilter.feed` may do with a piece; `ThinkFilter` says what it does do. A
line may be text, something else, or JSON that is no object; the body may end,
by itself or by `[DONE]`, or fail at any point. `body` is a history of it: `over` when
a reader has met its end, `torn` when the session was left before all of it had
come in. `Exit` marks nothing else, as in the code: after it a suspended iterator
may still get lines that httpx had taken before, and only of a body that is not
torn will it meet the end; of the others httpx raises. `ContractSpec` reads `fate`
off `body` and not off `drained`, so that a response handed out because the code
takes a stream for drained that was not read to its end would break it.

**ThinkFilter.** Character for character; the tags are two words of two
characters that share their first, as `<think>` and `</think>` do.
`fed` and `out` record what went in and came out.

**AnthropicStream, OpenAIStream.** The provider picks an answer and streams it in
any order its protocol allows, with the deviations the code tolerates: blocks
without `content_block_start`, calls without `index`, arguments as an object,
usage revised, null, missing or in every chunk, and null again behind the total
(`takes_usage`). `complete` is the response the
non-streaming path returns for the same answer. The lines that build it are
modelled, so that the two can be compared.

**GeminiStream.** A part is its place in the answer, so that the assembled text and
calls say which parts they hold. `CallPart` and `TextPart` also take the same
part through the loop of `_blocks_from_parts`, which numbers a call by its part
(`call_id(taken, ...)`) where `get_final_message` numbers it by call.

**RequestTranslation.** The loops over messages and blocks are unrolled: `done` and
`at` say how far, `parts`, `tool_calls` and `results` are the lists of the message
at hand, `body` is what is written. `call` of a block says which call it is or
answers; no action of the code reads it. An id is its pieces: `n` and `name` of
`gemini-call-<n>-<name>`, or, without a name, one of another provider.

**Conversation.** The caller says something (`Say`), asks a wire (`Ask`), takes the
answer into its messages (`Receive`), answers every call (`Reply`: in any order,
in one message or several, text with the last), may cut off its oldest messages
(`Forget`) and may change the wire at every request. The caller is external and
does what Anthropic's protocol asks, which is the shape that the callers of this
package are told to keep their messages in (`types.py:3-8`). `said` is a history:
all answers, by which the properties tell whose call a result answers.

**GeminiSchema.** A schema is the sequence of its entries, since a later one may
overwrite what an earlier one became (`const` and `enum`, `nullable` and a union
with null). `Put` is one turn of the loop of `_sanitize_schema` over the schema of a
tool, `out` its local; the call of itself on a schema inside is the function
`sanitize_schema`, a recursive function on the schemas of `Layers`, each of which
refers to lower layers only, as JSON does. `Declare` is the rest of
`_to_function_declarations`. `accepts` reads a schema as JSON Schema does,
`gemini_accepts` what comes out; `nullable`, which is no keyword of JSON Schema, is
read in both as allowing null or not.

`AnthropicStream`, `OpenAIStream` and `GeminiStream` refine what `StreamSession`
abstracts to "text or something else"; `StreamSession` starts where `Calls` says
`open`. These last two are not composed (see "Not modelled").

## The runs

| Run | Module, cfg | Checks |
|---|---|---|
| `calls` | `MCCalls` | `TypeOK`, `RequestsBounded`, `ConnectionsAccounted`, `RetryVerdict`, `RefusedAsReported`, `BoundedRetrySpec` (refinement), `Settles` (liveness) |
| `session` | `MCStreamSession` | `TypeOK`, `OneReader`, `InOrder`, `DeltasAreTheText`, `ContractSpec` (refinement), `FinalSettles` (liveness) |
| `filter` | `MCThinkFilter` | `TypeOK`, `QuietUntilResolved`, `OutputIsSuffix`, `HidesOnlyTheBlock`, `SameAnswer` |
| `anthropic` | `MCAnthropicStream` | `TypeOK`, `StreamAgreesWithComplete`, `CutShortIsATruncation`, `DeltasAreKept` |
| `openai` | `MCOpenAIStream` | `TypeOK`, `StreamAgreesWithComplete`, `CutShortIsATruncation` |
| `conversation` | `MCConversation` | `TypeOK`; of every request `NamedAfterCalls`, `PairedById`, `RolesAlternate`, `AnsweredAtOnce`, `NothingLost`; of every answer of Gemini `StreamAgreesWithComplete`, `CutShortIsATruncation` |
| `schema` | `MCGeminiSchema` | `TypeOK`, `OnlyWidened` |

and five runs that end in a counterexample, each to a sentence of the repository:

| Run | The repository says | The run shows |
|---|---|---|
| `calls_drops` | `errors.py:54`: timeouts and connection drops are retryable | `aread()` of a refused stream stands outside the mapping of httpx errors; its failure ends the call at once, unmapped |
| `calls_foreign` | `errors.py:13`: `TransportError` is the base for every error a backend raises | `AttributeError` for a 200 that is no object (Anthropic wire); also `JSONDecodeError` and httpx's own errors |
| `session_partial` | `base.py:7-8`: the legacy shape is presented unchanged to existing call sites | `get_final_message` after leaving a loop early raises `StreamConsumed` |
| `session_truncated` | `events.py:5-6`: `StreamDone` carries the fully assembled response | a body that ends cleanly before any finish reason gives a response with `end_turn` |
| `filter_counterpart` | `thinkfilter.py:31`: the streaming counterpart of `strip_think` | `<think></think>` and a newline in a later piece: the filter delivers the newline |

Two more disagreements need no run. `is_retryable` is true of
`TransportProtocolError` (`errors.py:57`), which `errors.py:54` does not list. The
wires never ask it about one, since they raise it outside of `with_retries`. And
`_merge_usage` says that it keeps the input and cache fields from their first sighting
(`anthropic_wire.py:196`), where it lets a later one override them. The code is right
there, the comment is not: `StreamAgreesWithComplete` would fail if it did what it
says, since a provider that counts its input again at the end would be billed for
the first count.

What `conversation` shows of the ids: although `gemini-call-0-f` may come up in
every answer, and as the id of another call in the stream than in `complete()`, it
always stands for `f`, which is all that Gemini asks (`NamedAfterCalls`); and the
wires that pair by id see no two calls of one answer with the same id
(`PairedById`). What it does not show is that ids are unique in a request -- they
are not, and a provider that insists on it would refuse such a conversation.
`StreamAgreesWithComplete` is weaker for Gemini than for the other wires: text
behind a call moves in front of it in the stream's response, and the ids differ.

### Bounds, and why they are enough

- `MCCalls`: two tasks, one connection, two retries, one status per branch, and
  envelopes that agree with or contradict it. One connection makes the tasks
  compete, and a call that kept it would block or be seen at once; two retries
  make "one more than allowed" differ from "endless" and from "none". The
  theorems hold for any number of each and every integer `max_retries`, zero and
  negative ones included.
- `MCStreamSession`: three calls (one reading, one abandoned, one that comes
  late) over up to three lines (one held back, one that releases it, one more).
  `MaxLines` is the only bound on the length of a stream.
- `MCThinkFilter`: responses of up to six characters (`MaxLength`) in pieces of
  up to three (`MaxDelta`): a whole block and two characters around or in it,
  cut anywhere.
- `MCAnthropicStream`: up to three blocks of up to two pieces, so that every two
  interleave around a third; the usage is varied for answers of one block.
- `MCOpenAIStream`: up to three calls of up to two pieces, likewise.
- `MCConversation`: two answers (`MaxAnswers`), so that ids recur and the second
  request has calls of either wire and way in it; up to two calls in an answer
  (`MaxCalls`), of one tool or two, text before and between; five messages
  (`MaxMessages`): a question, an answer, two messages of results, and the next
  answer; a window of one message (`MaxWindow`), which cuts a result from its
  call. Tools, answers and their lengths are unbounded in the theorems. Results
  come with text in front only, since both loops put the two in lists of their
  own wherever they stand. Assumed of the provider: a call of Gemini has a name,
  other providers' ids never recur, and usage that is reported at all is reported
  with the end of the answer.
- `MCGeminiSchema`: three layers (`MCLayers`), with up to two keywords on a field, on
  the items of a list and under `anyOf`, and as values every object of up to two
  such fields; that is enough for each keyword to overwrite, contradict or hide
  each other. Unions of two types besides null are left out (`OneTypeEach`), since
  `_schema_type` keeps but the first: there the declaration does take something
  away. The theorem holds for any number of layers, keywords and values.

`CHECK_DEADLOCK FALSE` is given where the system really stops: a session that has
ended and been left, a filter that has been flushed, an answer that has been
read, a conversation at the end of its bounds, a tool that has been declared or
passed over. In `Calls` no task ever has to stop calling, and deadlock is checked.

### Fairness

`Calls` assumes weak fairness of `Progress(t)`: httpx bounds each of its waits --
for the pool, to connect, to write, to read -- by the client's timeout
(`make_client`), and a sleep ends. It assumes none of `Call`, `Exit`, `Cancel`,
`EndOfBody` and `BodyFails`, so a session may keep its connection for ever;
`Settles` holds all the same since waiting for the pool times out.
`StreamSession` assumes weak fairness of `Read(h)`: a pending read ends by a
line, the end, or the read timeout. That a provider does not send lines for ever
is an assumption, made by `MaxLines`; nothing in the code bounds it.

## The proofs

TLAPS checks every leaf; nothing is assumed but the named assumptions on
constants.

**CallsProofs.** `TypeCorrect`, then:

- `BoundedRequests`. `RequestsBounded` is not inductive. `Accounting` adds where
  the counters stand at each `pc`: `sent` is `attempt` while a connection is
  awaited and at most `attempt + 1` afterwards, and a call in `backoff` has
  attempts left. It holds for every integer `MaxRetries`.
- `ConnectionsNeverLeak`. `ConnectionsAccounted` is inductive given `TypeOK`; every
  step takes a free connection or releases all of a task's.
- `VerdictRespected`. `RetryVerdict` is inductive given `TypeOK`; the lemma
  `Classified` relates `is_retryable` to the documented classes, protocol errors
  apart, and `CatchOutcome` and `RespondOutcome` say which exceptions reach
  `with_retries`.
- `RefusalReported`: class, status and last response of a refusal agree, on every
  wire. `RefusedAsReported` needs `ErrorBodiesOnly`, that only of a response with an
  error status is the body read as an error's; `RefusalClass` is what `status_error`
  and the Google variant make of any status and envelope.
- `RetriesAreBounded`: every step of `Calls` is a step of `BoundedRetry` or a
  stutter, with `phase` read off `pc`, from `TypeOK` and `Accounting`.

**StreamSessionProofs.** `TypeCorrect`; `SingleReader`, with the invariant that no
call is active unless the body was given out; `DeltasAssemble`, which needs that
nobody but the reader writes and that nothing is assembled before the body is
given out; `SessionKeepsContract`, with `fate` read off `body`, httpx's flags
and the positions of the calls, which needs that nothing is drained that is not
`over`, that the reader is at the tail exactly when it is, and that a call that
has not ended has no answer (all in `ReaderInv`). `OrderKept`: `InOrder` is inductive given
`TypeOK`, since whatever the filter drops is dropped from the end of what it holds.

**ThinkFilterProofs.** `TypeCorrect`, `NothingComesOutEarly`, and
`OutputOnlyLosesItsHead`: for any alphabet and tags and every way to cut a
response, what comes out is a suffix of what went in. The last rests on
`QuietUntilResolved`, which ties the buffer to the input, and on lemmas about
suffixes (`FromFrom`, `FromConcat`) and about `lstrip` and `find`
(`LStripSuffix`, `FindRange`).

`OnlyTheBlockIsHidden`: after `flush()`, whatever the pieces, the output is the whole
response, or what follows its leading block, newlines in front apart. `SettledInv`
says what each state knows of the response so far: in `start` it is blank or half
a tag (`Undecided`), in `think` it opens with a tag and no end has come, in `pass`
either the end has come and the output is what follows it, or there is no block
and the output is all there is. It rests on what `find` and `lstrip` do in a
concatenation (`Settled`, `FindConcat`, `LStripConcat`): what a beginning of the
response settles, the rest of it does not change.

`StreamedAsStripped`: `SameAnswer`, that is `complete()` and the stream agree on a
response with one leading block. `strip_think` is a recursive function; that it is
defined and what it is behind the block is shown by going down from the end of
the text (`DownTo`, from the least element of a set of numbers). It needs
`TagsAssumption`, which `<think>` and `</think>` satisfy: no closing tag starts within
an opening one or in the white space before it. Without it the two would differ,
since `feed` looks for the end from the start of its buffer, tag included, and the
regular expression from behind the tag.

**AnthropicStreamProofs.** `TypeCorrect`. `SlotInv` makes each slot a function of
what was sent of its own block (`Slot`), whatever came of the others in between,
which gives `CutShort`. `StreamAgrees` adds `SentInv`, what `stop` and `usage` are at
each stage, and takes of the answers that the provider's two usage reports, merged,
are what it reports of the whole answer (`AddsUp`); all of `MCAnswers` do.
`NoDeltaIsLost`: that the text of an announced block is the deltas given out for it,
in order, is inductive given `TypeOK` and `SlotInv`, for any number of blocks.

**OpenAIStreamProofs.** The same for `OpenAIStream`. `SlotInv` holds of calls that have
a slot of their own (`Distinct`); `TypeCorrect` needs no such thing. `InputOf` says
that arguments that parse are those of the call they came for.

**ConversationProofs.** From `AnswersAssumption`, which says what an answer is. The
invariant `CallInv` that everything rests on is `TypeOK` with: a stream stays
within its answer (`InRange`); complete()'s calls are named (`BlocksNamed`); no
request or answer but during a call (`AtRest`); an answer's calls have ids that
carry the name or are unique (`SaidLinked`); and every use in the messages is one
of an answer, every result has the id of the call it answers (`MessagesLinked`).

- `TypeCorrect`. That `_resolve_tool_name` returns a name needs that a use in the
  index is the last of its id, for which a bounded set of positions has a greatest
  element (`Greatest`, from well-foundedness).
- `ContentsAlternate`, from `AppendAlternates`: `_append` is the only writer.
- `ResultsNamed`. `NamedInv` extends `NamedAfterCalls` to what the loop has put
  aside. The heart is `Resolved`: an id in the index is either one that carries
  the name, and then every use of it has that name, or another provider's, and
  then it is of one call only; outside of the index the first still carries the
  name and the second has no use in the request.
- `CutShort`, inductive as `Assembled`; and `StreamAgrees`, for which `Sorted` says
  that complete()'s blocks hold the parts that have come in, ascending within and
  across blocks of a type, and `Finished` that finish reason and usage are those of
  the whole answer once they are there.

- `ResultsPaired`. `PairedById` looks at one request; that it holds needs, in
  `PairInv`: calls of one answer have ids of their own, in the stream, where they are
  numbered, and in `complete()`, where the numbers are places (`SaidDistinct`,
  `Numbered`); in the messages only the calls of the last answer are open, so that
  what stands behind an answer answers its calls and no others (`OpenInv`); and the
  turns of a request come from the messages in their order, with at least one for
  every answer, so that "behind an answer" means the same in both (`BodyInv`). Ids
  of different answers may coincide: nothing says they do not.

**ConversationRenderingProofs.** `AnsweredNext` and `WholeConversation`, for the OpenAI
and the Gemini loop at once. The invariant `KeptInv` adds three things:

- `AtOnceInv`, of the messages: no call has two results (`ResultsOnce`), an answer
  stands there as it came (`WholeAnswers`), and all that stands behind a call, but for
  results of the same answer and text in the message of the result, stands behind
  its result (`AnsweredFirst`).
- `AsideInv`, inside a message: the lists that the loop fills hold the blocks of
  their kinds that it has passed, in their order (`Laid`).
- `RenderInv`, of the messages dealt with: there is a bijection from the blocks of
  the turns onto theirs (`Rendering`) that keeps the order of messages, and within
  a kind the order of blocks; it puts results before text of the same message, and
  keeps the calls of an answer in one turn.

A step at the end of a message extends the body by blocks that are new to it and
come behind all others -- in turns of their own or, with `_append`, at the end of
the last -- and `Grow` shows that such an extension renders one message more.
`AnsweredNext` follows by carrying `AnsweredFirst` over the bijection,
`WholeConversation` since a bijection that keeps the order of a kind keeps ranks
(`RankKept`), and no two blocks of a kind have the same (`RanksDiffer`). Calls,
results and the texts of answers are told apart by `call`; the caller's own texts are
all alike, so that of those the theorem says how many there are and between which
texts of answers they stand.

**GeminiSchemaProofs.** From `SchemasAssumption` (a schema is a dict of schemas from
lower layers), `ToolsAssumption` and `ValuesAssumption`.

- `sanitize_schema`, `accepts` and `gemini_accepts` are recursive functions, that is,
  chosen to satisfy their equations; that there is something to choose is shown
  layer by layer. What is right up to layer `k` extends to the next, since what an
  entry becomes, or admits, depends on its parts only (`BecomesSame`, `AdmitsSame`,
  `GeminiAdmitsSame`), which gives `ReducedIs`, `AcceptedIs` and `TakenIs`. The
  induction is `UpTo`, on the set of layers for which it holds.
- `Kept`, by the same induction: every schema becomes one that takes whatever it
  accepts. Each entry alone only widens (`EntryKept`, `TypeKept`). The one delicate
  case is null in a union, which lives on in `nullable` beside the type: an entry
  `nullable` that comes later overwrites it, and then null was accepted only if that
  one says the same (`NullKept`).
- `TypeCorrect` and `ToolsOnlyWidened`, from the loop invariant `LoopInv`: `out` is the
  last put under each key by the entries so far (`SoFar`, extended by one with
  `LastPutNext`), and the parameters declared hold nothing that is not in `out` but
  the type `OBJECT`. At the end of the schema `out` is what `Kept` is about (`AllPut`).
  `ToolsOnlyWidened` has the hypothesis `OneTypeEach`, without which it is false.

Only model-checked: liveness (`Settles`, `FinalSettles`), which is beyond the prover.

## Not modelled

- `compat.py`, URLs and headers, `_to_openai_tools`, optional fields of the bodies,
  `_system_text`: stateless conversions that copy, rename or join; the facade drops
  unknown keywords and delegates.
- `_function_response_payload` and JSON in general: payloads are not told apart.
- Nameless calls of Gemini, and messages that are not what `types.py` says
  (content of another type, unknown blocks), which the Gemini loop skips and the
  OpenAI loop raises on. A content given as a string is a message of one text block.
- The length of backoff sleeps, wording of messages, and what is in a body
  beyond the class that decides the outcome.
- A response with a status below 400 that is no success, or with an error
  document in a 200, is `Empty` in `Calls`; nothing says what it should be.
- A text block that a provider starts twice, and events of the Anthropic wire without
  `index`, which go to block 0 (`anthropic_wire.py:217` and `229`): every block of
  `AnthropicStream` has an index of its own and is started at most once.
- Calls of a provider that leaves `index` out of several of them (they are merged
  in slot 0), and text of a block that was never started (given to the consumer,
  not in the response): in the models as the code does it, but outside of what the
  agreement properties and `DeltasAreKept` assume.
- What a tool call whose input was cut off should become. The code hands it out with
  an empty input; `CutShortIsATruncation` accepts that, and refuses any other part.
- `Calls` and `StreamSession` as one module. The two meet in the connection of an
  open stream: `Calls` lets its body end, fail or be left at any time, and
  `StreamSession` does the same from the inside, so the composition has no
  question of its own that neither answers.

## Status

All modules above are done; there is a theorem for every safety invariant and
refinement that a passing run checks. What further work could add is listed under
"Not modelled", `_to_openai_tools` and the optional fields of the bodies first.
