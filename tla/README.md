# A TLA+ verification of bingsoo

bingsoo is a small HTTP server in C++ on Boost.Asio: a pool of threads runs one
`io_service`, a session object serves each connection, a table of factories
routes requests to handlers, and two of the handlers keep files: the CRUD API
(`/api/<entity>/<id>`) and the Markdown renderer.

This directory holds TLA+ modules translated from `src/src` and `src/include`,
TLC configurations that check them on small instances, and proofs that TLAPS
checks for every value of the constants. `PROJECT.json` is the index: it maps
each definition to its lines, and lists the runs, the mutants, the hazards and
the theorems.

Contents: [1 the system](#1-the-system), [2 the modules](#2-the-modules),
[3 the runs](#3-the-runs), [4 bounds](#4-bounds-and-why-they-are-enough),
[5 fairness](#5-fairness), [6 proofs](#6-what-is-proved),
[7 disagreements found](#7-where-the-code-and-its-documents-disagree),
[8 what is not modelled](#8-what-is-not-modelled),
[9 the plan](#9-the-plan).

## 1 The system

`server_main.cc` parses the configuration, constructs the `server` and calls
`run_threads(5)`. Five threads sit in `io_service::run()`; whichever is idle runs
the next completion handler. Nothing is locked, and no strand orders the
handlers of one session.

| component | state | operations | interacts with |
|---|---|---|---|
| `server` | acceptor, configuration, table of factories | `start_accept`, `handle_accept`, `configMap` | makes a session per accept and gives it a copy of the table |
| `session` | socket, `data_`, parser, `req_`, `response_`, its copy of the table | `start`, `handle_read`, `handle_write` | the pool runs its handlers; it calls the parser, then one request handler, on the same thread, and gives it `data_` as a C string |
| `request_parser` | one of 20 states | `parse`, `consume` | appends to the session's request |
| `CrudHandler` | none of its own; the files under `data_path` | POST, GET (one or list), PUT, DELETE | `real_filesystem`, one call at a time |
| `real_filesystem` | the disk | `file_exists`, `read_file`, `write_file`, `delete_file`, `list_files` | shared by all threads |
| `MarkdownHandler` | `<name>.html` beside `<name>.md` | render, read back, remove | the disk, directly |
| `NginxConfigParser` | the stack of open blocks, the tokens before | `ParseToken`, `Parse` | called by `main`, which refuses to start without a valid file and a port |
| `NginxConfig` | a tree of statements | `ToString`, `get_port_num`, `get_*_path`, `get_*_args` | read by `main`, `configMap`, sessions and factories |
| static, echo, health, sleep, 404, bad request handlers | none | set the session's response | static reads a file nobody writes; sleep blocks its thread |
| `main` | none | signal handler calls `exit` | ends the process between any two steps |

What is hard here, and what makes each part correct:

- **CRUD API.** A request is several file system calls, with nothing between
  requests: probe for an id then write, check then read, truncate then write.
  Right means: instances hold exactly one body unless two writes overlapped on them, and it
  is empty only if the body that was written is (or a crash cut its writer short); and, for clients that keep
  conflicting requests apart, an id is given once, every request is answered, and
  the whole is an atomic store. (Without that discipline two POSTs can get one id,
  section 7, and a write can go to a directory that is gone.)
- **Session.** Two threads can be inside one session, because each handler goes
  on using the session after starting the operation whose completion may delete
  it. Right means: a live session is in one pair of hands, deleted once and
  always in the end, and a connection's responses are bounded.
- **The bytes of a session.** A request comes in any number of reads, `data_` is
  neither terminated nor cleared, and `response_` outlives its answer. Some handler
  answers every read, also of a request that is not complete: a target that is a path
  of the table gets its own handler then, again and again, any other one the 404
  handler. Right means: it is known for which reads the handler of a request runs, what
  it echoes is what came, the body it stores is the client's as far as it came,
  and a short read does not end the process.
- **Server.** The accept loop must be one, and must go on.
- **Request parser.** Right means: `good` exactly at the end of a request, `bad`
  exactly when no request can be had any more, no access to a header that
  is not there, and the request holds what was sent.
- **Config parser.** Comments, quotes and the end of the file each end a token in
  their own way; blocks live on a stack that is popped and read without a look
  at its size; the queries index words that may not be there. Right means: valid
  files and no others are accepted, nothing of them is lost, and nothing is read
  that is not there unless something is missing in the file.
- **Markdown.** All requests for a document share one temporary file. Right
  means: a request alone gets the whole render whatever an earlier process left,
  and requests remove what they make however they overlap.
- **Routing.** `operator[]` enters null factories; several locations compete for
  one key; the type comes from a prefix and the factory from the whole target.
  Right means: a factory is always found, and it is the configured one.

The list of hazards, each at its line and with the properties that would catch
it, is in `PROJECT.json`.

## 2 The modules

| module | models |
|---|---|
| `CrudHandler` | `CrudHandler::handle_request` by the threads of one process over `real_filesystem`, crashes and restarts included |
| `CrudStore` | abstract: an atomic store of bodies under ids |
| `CrudRefinement` | the mapping under which `CrudHandler` implements `CrudStore` |
| `CrudProofs` | proofs about `CrudHandler`, and that it implements `CrudStore` |
| `Session` | the completion handlers of one session, the bytes of its client |
| `Server` | the accept loop and the pool, composed with every `Session` |
| `ServerProofs` | proofs about both |
| `Exchange` | the bytes of one session: `data_`, what handlers make of it, `response_` |
| `ExchangeProofs` | proofs about all of it |
| `RequestParser` | the automaton with the request it fills, and what a request is, stated over the whole text |
| `RequestParserProofs` | the proofs that the automaton accepts the grammar, gives up only where no request is left, and keeps what it reads |
| `Markdown` | `MarkdownHandler::handle_request`, crashes and restarts included |
| `MarkdownProofs` | proofs about `Markdown` |
| `ConfigParser` | tokens, blocks, `ToString`, the port; and what a configuration is, stated over the whole text |
| `ConfigParserProofs` | the proofs that it accepts the grammar, and that what it made of a text and main read of it is the text's |
| `Routing` | configuration queries, `configMap`, `get_request_type`, dispatch |
| `RoutingProofs` | proofs about the table and the dispatch |
| `SequenceLemmas` | lemmas about induction and `FlattenSeq` that the proofs share |
| `MC*` | the sets of requests, inputs and configurations that TLC checks |

### CrudHandler

A thread's `pc` names the next call it makes to the disk; what the code computes
between two calls belongs to the step before. `link` and `dirs` are the
directory, `data` the inodes, so that a file that is unlinked while another
request has it open keeps its contents, as on POSIX.

| code | actions |
|---|---|
| `handle_request` 14-65: methods and targets refused | `Reject`, `OtherMethod` |
| POST 67-93 | `PostLookup`, `Probe` (each `file_exists`), then `write_file` |
| PUT 218-246 | `PutLookup`, then `write_file` |
| `write_file` 27-40 | `WriteParent`, `WriteMkdir`, `OpenExisting`, `OpenCreates` or `OpenFails`, `WriteClose` |
| GET 96-171 | `GetLookup`, `ReadOpen`, `ReadAll`, or `ListLookup`, `ListFiles` |
| DELETE 174-216 | `DeleteLookup`, `RemoveFile`, `RemoveDir`, `RemoveGone` |
| exceptions out of the file system | `ListThrows`, `RemoveThrows`: nothing catches them, the process ends |
| `exit` in the signal handler; a new `main` | `Signal`, `Restart` |

Data is abstracted: a target has one of four forms (an id, a trailing slash, a
name, too few slashes), a body is short or long (a long one leaves a tail behind
when a short one is written over it without truncation) or `Empty`: a request
without a body, or one whose body comes in a later segment, writes a file of no bytes.
`cut`, `shared` and `hollow` are history: the inodes whose writer a crash stopped, those
opened for writing while another request was writing them, and those that were given
an empty body last.

`CrudStore` serves each request in one step. In `CrudRefinement` POST and PUT
take effect when they reach `w_open`: from there until the close the instance
counts as holding the new body (`Bodies`) and the request as served (`Phases`,
`Answers`). All other requests take effect at the call whose outcome they report.
The refinement holds under `Disciplined`: clients never
have two conflicting requests in flight (the server has no such rule:
`crud_post_race` shows what happens without), no signals, and the requests whose
answers the two agree on (`Agreed`: not PUT or DELETE of a target that ends in a
slash, nor GET of an id beyond `int`, see section 7).

### Session and Server

`ops[s]` are the asynchronous operations outstanding on a session; `at[t]` is
where a pool thread is, `on[t]` in which session. `HandleRead` parses what
arrived, `HandleRequest` runs some handler whatever the status is, `AsyncWrite`
starts the write, and `Log` is what `handle_read` still does afterwards;
`HandleWrite` starts the next read, and `Shutdown` is what `handle_write` still
does afterwards. Both tails may find the session deleted by another thread;
that is undefined behaviour, so the step may end the process or not.
`WriteRest` is Asio's composed write going on when the socket has room.

A client's bytes are units that a read may take together or one by one; the
parser here knows only how far a request is (`RequestParser` has the rest).
A session object is used again once no thread refers to it.

### Exchange

`OneHolder` says that the threads take turns in a session, so here `handle_read`,
the handler and `handle_write` run one after the other, over the bytes that
`Session` counts. A read overwrites the beginning of `data_`
(`ReadInto`); what a handler gets is any of `Strings(data_)`: up to the first
zero, or up to one somewhere behind the buffer, which is then the choice of the
memory. `Answers` lists, for each kind of request, every response its handler can give.

`routes_[uri]` is looked up in every read, so of the request line the model keeps what
that lookup can find: `keyed` says whether the target is a path of the table,
`TargetRead` and `PartRead` whether all of it has come or a part that may be the path of
another handler (`/echo` of `/echoes`). `RunsFor` says for which reads the handler of the request
runs, `MayAnswer` who answers the others: the bad request handler, the 404 handler, or
whoever has the path that the part of the target is (`OtherAnswers`, as far as the method allows).
`deep` is a configuration whose API path has two slashes itself, which makes the API's own targets
paths of the table.

POST and PUT store `Stored(string)`: the text behind the first blank line, and from position 3 where
there is none (`npos + 4`), or `substr` throws. `runs` is history: the reads after which the
handler of the request ran.

### RequestParser

The `switch` is the table `Moves`: for each state, classes of characters and
where they lead. `good` and `bad` leave the state alone, as in the code, because
`parse` may be called again. What each move appends to the request (`method`,
`uri`, the version's digits, the names and values of `headers`) goes with it. `IsRequest` is
the grammar, stated without the automaton, and `RequestKept` reads the request
off the text the same way.

### Markdown

Steps as in `CrudHandler`: look for the old file, remove it, open with append,
one flushed write per line, reopen, read until a read returns nothing, remove,
answer. `left` are the targets whose html file nobody is working on; a line `0` stands for
what no request of this process rendered; `overlapped` are the threads whose last
request met another one for its document.

### ConfigParser

A text is a sequence of pieces: the characters the parser tells apart and runs of
others. `ParseToken` is a step for each piece (`mode` is the tokenizer's state, `value`
what it has of the token), `Parse` a step for each token. `blocks` are the
configurations made so far, the first the caller's; a statement names its child
block by its place in it. `stack` and `depth` are `config_stack` and
the count of blocks, which the code keeps apart: `pop` does not ask whether there is
a block, so a text with more braces closed than opened ends `undefined`, and so does
a brace behind a brace, which asks an empty block for its last statement. Reading
`'\r'` into words and dropping a word that the end of the file cuts off are as in the
code. `Refuse` and `Start` are `main` and the constructor of `server`: the port, and
whether `configMap` and the factories read words that are not there (`Misreads`).

`Tokens` and `IsConfig` say what a configuration is without the tokenizer's states
or a stack; `Sound` says when nothing is missing in one.

### Routing

Paths are sequences of pieces of text, so that "begins with" is a prefix of
sequences, as `find(...) == 0` is of strings. `ConfigMap` is the chain of `Enter`s (`routes[key] = f`)
in the order of the assignments; `routes` is the session's copy, which `Entry`/`WithEntry`
read and extend as `operator[]` does. Reads come in any order within a session;
the parser is never reset, so the target only grows and is fixed after a whole request.

## 3 The runs

Passing runs. Each property has a mutant in `PROJECT.json`: a plausible bug in
one mapped definition under which the same run finds the property violated.

| run | what it shows |
|---|---|
| `crud_files` | over any undisciplined traffic and crashes, every method on every form of target: `TypeOK` (no request leaks a stream), `EmptyForAReason` (an instance without contents is being written, was cut by a crash, or was given an empty body: no other body is lost), and `TornOnlyByOverlap` (two bodies mix in a file only if two writes overlapped on it) |
| `crud_atomic` | under the discipline: `ImplementsCrudStore`, `PostNeverOverwrites`, and `Answered` (probing ends, no branch lacks an answer) |
| `server_safety` | `TypeOK`, `OneHolder` (a live session is in one pair of hands, a deleted one in none), `OneListener`, `RepliesBounded` |
| `server_live` | `Released` (a session that got something or lost its client is deleted in the end), `KeepsListening` |
| `request_parser` | against the grammar: `GoodIffRequest`, `BadIffHopeless`, `HasHeader`, and `RequestKept` (the request's fields and headers, those over several lines too, are what was sent) |
| `markdown` | every kind of target, signals at every step: `TypeOK`, `WholeWhenAlone`, `NoLeftovers`, `LeftoversNotServed`, and `Answered`, also while another request appends to the file being read |
| `routing` | `RoutedAsConfigured`, `FactoryFound` |
| `config_parser` | against the grammar: `AcceptedIffConfig`, `NothingLost` (what was accepted prints as what was written), `DerailsOnlyOnBraces`; then `HasWords`, `SoundIsRead` (no query runs off a statement of a sound configuration) and `PortAsWritten` |
| `exchange` | `HandlerRuns` (for which reads the handler of a request runs, however it is cut up), `EchoIsReceived` (the echo handler answers all of the last part, and behind it only what came before or what memory held), `BodyKept` (a body in one read with its headers is stored from its beginning, though not ended where it ends), `SubstrInRange` |

`RepliesBounded` deserves a word. After a response the session reads again and
only then shuts its socket down, so bytes that were already there are answered
too. How many responses a connection gets depends on the scheduling, but each
further one needs a thread caught between the two calls: no more than there are
threads, and one for a pool of one.

`HandlerRuns` is exact where the code is not what one would want: the handler of a request
runs when the end of its headers comes, but also for every earlier read that leaves a
target complete that is a path of the table, and for a later segment that begins with a
newline. `BodyKept` and `EchoIsReceived` let memory and earlier bytes follow a body, and nothing else.

`SubstrInRange` has a condition, `LongHeads`: the headers are longer than two characters for each
read of the session. That reads are bounded at all is `RepliesBounded`: each read is answered,
and a connection gets no more responses than the pool has threads (five in `server_main.cc`), so
headers of more than ten characters are long enough, as any request line is. Where the API's
path has two slashes, method and target must be that long before the end of that path, too.

Violation runs show a statement of the repository's documents that the code
does not keep; they are in section 7.

Deadlock is checked but for four modules. `Server` may really stop: after the process died,
after an accept error with the last connection closed, or when no client has anything more to send.
`RequestParser` stops at the end of its input, `ConfigParser` once `main` has
made up its mind, `Exchange` when its session is gone.

## 4 Bounds, and why they are enough

- `MaxId` (1 or 2): POST probes ids up to it. Two ids let one POST pass over an
  instance and two of them collide; `HasRoom` keeps clients from filling an
  entity, since the code has no limit. Without the discipline a POST that finds
  the last id taken meanwhile waits for a DELETE, which only `crud_files`, where nothing is
  said about progress, allows.
- `LargeIds`: numbers beyond `int`, one of them.
- `Inodes`: an undisciplined run needs one for each path and one for each
  thread that holds an unlinked file, so that no request ever waits for one. Under the
  discipline nobody has an unlinked file open, and one for each path is enough.
- `Threads`: 2. Each hazard is between two requests; the proofs are for any
  number of threads.
- `Entities`: one. Nothing in the code relates two entities.
- `MaxReplies` (responses counted per connection) is above the number of threads
  where `RepliesBounded` is checked, so that the cap does not make it true.
- `MaxClients`, `MaxOpen`: connections at one time and descriptors. `server_safety`
  has three connections for two descriptors, so that sessions meet in the pool
  and accepting can fail. `server_live` has one of each, so accepting never fails.
- `Sessions`: enough objects for every connection, the listener, and one that
  is deleted but still referred to.
- `Scripts`: what a client sends (`MCServer`): a request with a body that begins with
  a newline behind it, a request alone, and no request at all, each read in every
  division.
- `Lines`: one line in `markdown`, which keeps the run small; two in `markdown_race`. The proofs are for any number.
- `Inputs`: four requests that together visit every state, with every
  one-character replacement, omission and insertion over the 15 classes of
  characters. An automaton that differs from the grammar by one move differs on
  one of them.
- `Texts` of `ConfigParser`: every text of up to five pieces over eleven, which meets every
  pair of a tokenizer state and a character, and every order of three tokens; and
  each one-piece change of five configurations like those of `conf` and
  `tests/test_configs`, with blocks in blocks, ports in the range, above and below it, quotes,
  comments and both kinds of line end.
- `Texts`, `MaxLength`, `MaxReads` of `Exchange`: headers with and without a body,
  with one that overflows the buffer (of 14 characters), begins with a newline or holds a
  blank line, two requests in a row, headers that never end; each cut into up to
  three reads in every way. The headers, and the part of the target that no path of the table
  matches, are longer than two characters for each read (`LongHeads`, section 3):
  shorter ones can come in reads so small that `substr` throws.
- `Deep`: API paths with one slash and with two. That each handler has a path in the
  configuration is a bound of `Exchange`: without one the empty path is its key
  (section 7), which the first bytes of any request match.
- `Memories`: a buffer that was all zeros, and one without a zero.
- `Configs`: all 64 subsets of the sample configuration's six locations, and six odd ones
  (locations at the root, nested, doubled, and at the table's own key). `Uris`: 23
  targets, each location's path, below it, and only beginning like it.
  `RoutedAsConfigured` leaves out the two targets that are keys of the table
  itself, the empty one and `bad`; `FactoryFound` does not. What a location claims is
  README.md's "Config file format" for the handlers it speaks of. It does not name
  `CrudHandler` and `MarkdownHandler`: what they claim, every target that begins with their path
  as a string (`/apis` too), is the code's own rule (session.cc:220, 232), so for these two
  the property compares the prefix and the table, not the code and a document.

## 5 Fairness

- Weak fairness of each thread's steps (`WF_vars(Step(t))`): the operating
  system keeps running threads that are inside a handler. No handler blocks on
  another; sleep only takes time.
- Strong fairness of each session's completion handlers: `io_service` queues
  completions first come, first served, so a completion that is ready again and again
  when threads are idle gets one. Weak fairness would not do, since another
  session's handler may take the idle thread each time.
- Strong fairness of `WriteRest`: the client reads what it is sent, or the
  connection fails. This is an assumption about clients, and `Released` depends
  on it: the code has no timeout.
- None for clients, signals or restarts. `Released` therefore speaks only of
  sessions whose client sent something or left: the others wait for ever, as
  they do in the code.

## 6 What is proved

TLAPS checks the following for every value of the constants that their `ASSUME`s
allow: any number of threads, sessions, ids, documents, lines, any
set of requests, texts or configurations.

**`CrudProofs`**: `TypeCorrect`, `EmptyIsAccountedFor`, `TornNeedsOverlap` and
`PostCreates`, of `[]TypeOK`, `[]EmptyForAReason`, `[]TornOnlyByOverlap`
and the action property `PostNeverOverwrites` (the last under `Disciplined`).
None but the type invariant is inductive. The invariant `IInv` adds

- `Serving`: the id a thread works on is that of its request, or one that POST
  probes, and each call belongs to the methods that make it;
- `SoleWriter`: an inode that no two requests wrote at once (not in `shared`) has one
  writer at most, who finds it empty, and is not torn;
- `Housed`: an instance lives in a directory that exists, so a directory is only
  removed without instances, and opening fails only where nothing is;
- `Exclusive`: under the discipline, the requests in flight do not conflict;
- `PostFree`: under the discipline, the path a POST settled on stays free until it
  opens it, since whoever could create it conflicts (`Exclusive`).

In the same module, `CrudImplementsStore`: `Spec` implies
`ImplementsCrudStore` for any constants that are `Calm` (`Disciplined`, no `Signals`,
`Agreed`). The step simulation rests on `RInv`, which is `IInv` and

- the process is up;
- `Informed`: what a thread has seen of the disk (a file found, an id free, a
  directory there) still holds, since whoever could change it conflicts with it;
- `OnePath`: no inode has two names, so that a write changes one instance;
- `Whole`: an instance that nobody is writing holds exactly one body.

There is one step for each action: `Call` maps to the store's call, the step that
reaches `w_open` or makes the last look at the disk to the request's one step, the end of
a call to its return, all others to a stutter. `Exclusive` makes `Bodies` a function: at most one thread
is committed to a path.

**`ServerProofs`**: `HeldOnce` and `ListensOnce`, of `[]OneHolder` and `[]OneListener`,
`RepliesAreBounded`, of `[]RepliesBounded`, and `TypeCorrect`, of `[]TypeOK`.
`IInv` is the types, `Placed` (a thread is in a session exactly while it runs one
of its handlers), `Outstanding` (what can be outstanding on a session follows from
its state), `Held` (a thread between read and write holds its session alone, with
nothing outstanding, and an open session with nothing outstanding is held) and
`OneListener`. `RepliesAreBounded` adds `Counted`: while a session's socket is open every response but
the first has a thread of its own between the two calls of `handle_write`, so
they are no more than the (finitely many) threads. `TypeCorrect` joins both
with `TInv`, the types of the other variables, for which the state the parser is left in
after any units of a client is followed by induction (`ParseTyped`). Sessions and
threads are assumed finite, as objects in memory are.

**`RequestParserProofs`**: for any sequence of bytes, four theorems. `HeadersNeverEmpty`, of `[]HasHeader`, and
`RequestsAreGood`, of `[]GoodIffRequest`: the automaton accepts exactly what `IsRequest`
says. The invariant is `Described`: for each state, what the characters read so far are, by
the positions of their parts (where the method, the uri, the name of a header end; which lines are
`Done`). `FirstLineMoves` and `HeaderMoves` show that each move keeps it; `Sound` that a
text whose lines are done and that has one empty line more is a request, which turns positions
into the subsequences of the grammar (`FirstLinePart`, `FieldPart`, `FoldedPart`); and
`EndsTwice` that no state but the last one can be at the end of a request, so that none is missed.

`BadAreHopeless`, of `[]BadIffHopeless`, says that the parser gives up exactly at the first
character no request can go on from. One half is that each state of `Described` has an ending
(`EndingFound`), so nothing is given up too early. The other is that a character no move takes cannot be
at its place in any request: `BInv` keeps that what was read before it is `Described`
(`ReadWith`), and a request that begins so is walked along by its grammar, in the first line
(`FirstLineTaken`) or in the headers (`HeadersTaken`), to the move the state should have had (`Refused`).

`PartsAreKept`, of `[]RequestKept`, says that the fields of the request hold the whole text. The invariant `KInv`
says for each state what the text read so far, with its continued lines
joined, is made of: the parts of the first line that are written (`SpelledFirst`), then the
whole first line, the headers in their order and the one at work
(`SpelledHeaders`). The text is joined by a function that drops an end of line and the spaces after it
if a header goes on there. Which spaces these are is not known before the next character that is none,
so `Kept` says it of the text before the fold; `CharKept`, `FoldBegins`
and `FoldGoesOn` are the three ways a character can go on from there.

**`ConfigParserProofs`**: for any text, valid or not, seven theorems.

- `StatementsHaveWords`, of `[]HasWords` (the invariant adds that the stack names blocks
  that exist, and that after a word the top one has a statement), and
  `AcceptedIsClosed`: an accepted file has left only the caller's configuration on
  the stack (the stack is one longer than the count of blocks).
- `DerailsOnlyThere` and `AcceptedAreConfigs`, of `[]DerailsOnlyOnBraces` and
  `[]AcceptedIffConfig`. The tokenizer is followed by a refinement: `Left`, the tokens that
  are still to come (with the one in the making), is changed by no step of `ParseToken`
  (`SkipLeft` to `EndOfFileLeft`, each under `Lexed`, what `mode` and `value` mean at a place of the text), and `NextToken`
  takes one off it. So Parse reads `Tokens(text)`, and `Followed` says what it knows of
  the `Done` tokens it took: `last` is the last of them, `depth` their depth, each `Fits`
  the one before it. On the other side `ConfigIs` turns the grammar, a
  recursive function over pairs of places, into conditions on single tokens (`Shaped`:
  what each may follow, and a depth that comes back and never goes below where it
  began): a shaped part can be split into a statement and a shaped part
  (`ShapedSplit`), and joined (`ShapedJoin`). The two meet in `Decided`.
- `QueriesStayInside` and `ListensAsWritten`, of `[]SoundIsRead` and `[]PortAsWritten`. Here the
  invariant is `PlacedInv`: there is a function `at` that gives each statement of each block the
  place of its first word, such that it has the words that are there (`Worded`), its block
  is what is between its braces, open ones included (`Nested`), every start of a
  statement among the tokens taken has one, and every block but the caller's has an owner
  (`Owned`). When the text is accepted, `AcceptedAt` and `AcceptedInside` make of this
  what `WordsAt`, `HasBlock` and `Inside` say. `get_port_num` recurs into blocks made later
  only: that its value exists, comes from a port statement (`FoundFrom`) and, if no port is out of range,
  reaches the top (`FoundAtTop`) are inductions down and up the blocks.
- `TextsAreKept`, of `[]NothingLost`. What `ToString` writes of a tree need not be followed while
  Parse builds it: the invariant `TextInv` says that there are two functions, `W` with the text of each closed block and
  `P` with what is written before each open one (`Texted`), such that the text before the block on top and
  its own are what ought to be written of the tokens taken (`SoFar`). `Hung` adds that each open block is the last child of the one
  around it and nobody else's, so that a step changes one text only. A `}` makes the text of its block a value of `W`
  (`EndBlockTexted`). When the text is accepted only the caller's block is open, so all of `W` are what
  the recursion in `ToString` writes, which has one solution since children are made later than their parents (`SpellsSame`).

**`ExchangeProofs`**: `HandlersRunAsKnown`, `EchoesWhatCame`, `BodiesAreKept` and
`SubstrStaysInRange`, of `[]HandlerRuns`, `[]EchoIsReceived`, `[]BodyKept` and `[]SubstrInRange`, for any texts,
buffer, memory and number of reads. In all of them the parser is followed over the text one character at a time,
whatever the reads: parsing a chunk goes on where the chunk before ended, so after the reads it is where one run
over all that was received would be (`At`), up to the end of the headers, and stays in its last state from there.
`HInv` keeps that, and for each read whether the handler ran. What is known of each place in a text is shown by
induction, stated over a set of numbers (`Induction`).

For `EchoesWhatCame` the invariant `EInv` says of each place of `data_` that it `Holds` what the last
of the reads that reached it brought, or memory if none did; what echo answers is one of
`Strings(data_)`, whose characters are those of `data_`, never a zero, and at least all
of the last read, since clients send no zero. For
`BodiesAreKept`, `data_` begins with the text in the read that brings it all, so the first blank line in it is the
text's. For `SubstrStaysInRange`, a handler only stores once the target is complete; were all reads
up to then shorter than three characters, they could not have brought a second end of a line, nor a character of
the target that a path of the table can end with (`LongHeads`).

**`RoutingProofs`**: `FactoryIsFound` and `RoutesAreConfigured`, of `[]FactoryFound`
and `[]RoutedAsConfigured`, for any configurations and targets. For the first the invariant is `Reliable`: `routes` has a factory under the keys that are
used without a look at what is found: `/`, `bad` and the paths of `CrudHandler` and
`MarkdownHandler`; `operator[]` only ever adds to the table. For the second it is `Copied`: a session's
table is `ConfigMap(config)` and null entries. The rest is about one request: in a `Clear`
configuration one location at most begins a target (`OneBegins`, since two
beginnings of a text are nested), so its handler is the type, no
entry of the table overwrites another that matters (`LocationEntry`, `SlashEntry`), and a target
with an entry is claimed by a location (`EntryIsClaimed`).

**`MarkdownProofs`**: `TypeCorrect`, `AloneIsWhole`, `FilesCleanedUp` and
`LeftoversAreUnused` (of `NoLeftovers` and `LeftoversNotServed`). `IInv` adds `Roles` (which documents a
thread can be at which step with), `Apart` (files of different documents are
different, by name and by stream), `Left` (what is left over exists) and `Alone`:
what a thread that met no other finds at each of its steps. `Alone` is what makes
`WholeWhenAlone`, which speaks of answers, inductive.

Each proof shows `Init => IInv`, `IInv /\ [Next]_vars => IInv'` with one step
for each action, and `IInv =>` the property. The assumptions are the constants'
`ASSUME`s, which TLC evaluates in the runs.

Only model-checked: liveness (`Answered`, `Released`, `KeepsListening`), which is out of TLAPS's reach.

## 7 Where the code and its documents disagree

Each is a run that TLC ends with a counterexample.

| run | the code | the document |
|---|---|---|
| `crud_post_race` | two POSTs that found the same free id both write it; one body is lost | crud_request_handler.cc:76, 82 |
| `markdown_race` | two requests for a document spoil each other's answers | markdown_request_handler.cc:64 and a test |
| `exchange_body` | `handle_read` calls the handler when the headers are complete (session.cc:145): a body in the next segment is not stored, the client is told 201 | crud_request_handler.cc:82 |

Met while modelling, in the modules as the code has them, but with no run of their own:

- DELETE of an entity with instances (a target with a trailing slash) ends the
  process: `remove` throws (crud_request_handler.cc:193, `RemoveThrows`).
- A request in pieces is answered after the first, and again after each, for a target that is a path
  of the table by its own handler (a POST then stores the unfinished request, if the API has a path with two slashes)
  (session.cc:71-75, 145-157, `RunsFor`, `MayAnswer`; request_parser.h:31 has "indeterminate" for "more data is required").
- One accept that fails ends the accept loop (server.cc:49, `HandleAccept`).
- A later segment that begins with a newline runs the handler again, because
  the parser is never reset (session.cc:174, `HandlerRuns`).
- Five answers carry the length of an earlier body, or none
  (crud_request_handler.cc:112-122, 153-161, 194, 204, 236; lengths are in no module).
- A word at the end of a line keeps its `\r`: the condition names the tab twice
  (config_parser.cc:170, `WordEnds`).
- `{ {` and a `}` too many are undefined behaviour, not errors
  (config_parser.cc:240-255, `Derail`).
- A word that reaches the end of the file is dropped silently
  (config_parser.cc:186, `EndOfFile`).
- A port out of range is answered by -1, which the blocks around it take for "not found", so the search goes on
  there but not in its own block (config_parser.cc:302, `PortNum`).
- PUT to a target that ends in a slash (an empty id passes `isID`) is answered 201 and writes
  nothing (crud_request_handler.cc:46; the comment at 242 wants a bad request).
- GET of an id that does not fit an `int` lists the instance's file as a
  directory, which ends the process (crud_request_handler.cc:105).
- `async_write` is given a local string of `handle_read` (session.cc:152): a
  response the socket does not take at once is sent on from memory that is gone.
- A session reads again after its response and answers what it gets
  (session.cc:174); README.md:22 has a session for each request. `RepliesBounded` says how far that goes.
- `configMap` makes a factory for handlers that have no location, under the empty
  path, which an empty target reaches (server.cc:85).
- An EchoHandler or HealthHandler at `/` is replaced by the table's own entry (server.cc:87).

## 8 What is not modelled

- The texts of responses and their headers, `content_length` too: a list of the lines that set it
  would be all a property of it could be compared with. The table of content types.
- Zero bytes from clients, which would end the C string early.
- The version numbers as `int`s, whose sum can overflow: they are only logged. The
  request has their digits.
- Names that begin with digits: `std::stoi` takes `12abc` for 12 (crud_request_handler.cc:105), so GET
  of such an entity is read as that of an instance. In `CrudHandler` names do not begin so.
- Ports beyond an `int`, for which `atoi` is undefined.
- Two Markdown targets that name one file (`a/../x.md`) and directories named `x.md`.
- How a line of Markdown becomes HTML: a pure function of the line.
- Time: `sleep` holds its thread for as long as the scheduler likes.
- Logging (`request_info` too), `reply.cc` (used by tests), the mock file system (tests only), build
  and deployment files.
- A full disk and permissions under `data_path` (Markdown's targets have them).

## 9 The plan

Done: every component of the server that keeps state, with a grammar or an
abstract store to check it against where there is one, and proofs of all the safety
properties that the runs check.

Left: a composition of `Session` with `CrudHandler`, so that a deleted session, a second
response and a half-written instance meet in one run. The two share no state
but the threads, and `OneHolder` with the invariants of `CrudHandler` for
any threads already say that neither disturbs the other.
