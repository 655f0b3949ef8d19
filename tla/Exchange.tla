------------------------------ MODULE Exchange ------------------------------
(***************************************************************************)
(* What goes through one session: the characters each read leaves in data_, *)
(* the parts of a request its handler runs for, the body of the response,   *)
(* and what the API handler stores.  Server has the threads and shows that  *)
(* they take turns in a session (OneHolder): here handle_read, the handler  *)
(* and handle_write run one after the other.                                *)
(*                                                                         *)
(* data_ is handed on as a C string: up to the first zero in it or, if there *)
(* is none, up to one somewhere behind it.  It is never cleared, nor is      *)
(* response_.                                                              *)
(*                                                                         *)
(* Of the characters of a request line those matter that change what        *)
(* routes_[uri] finds: "U" is the last part of the target, "M" all before,   *)
(* in which no part of the target is a path of the table yet (BOUND: every   *)
(* handler has a path in the configuration, so the empty target is none).    *)
(***************************************************************************)
EXTENDS Naturals, SequencesExt

CONSTANTS
  Requests,   \* what clients ask for, a subset of Asked
  Texts,      \* what clients send, as sequences of characters
  MaxLength,  \* max_length, the size of data_
  Memories,   \* what data_ holds before the first read
  MaxReads,   \* BOUND: reads of a session
  Deep        \* whether the path of the API may have a second slash

\* The requests, by the branch of a handler they lead to, with the answers it has.
Asked == {"echo", "health", "sleep", "static", "markdown", "markdown_other",
          "one_slash", "post", "post_id", "list", "get", "delete", "put", "no_id",
          "other_method", "nowhere"}

StaticAnswers == {"file", "no file"}
MarkdownAnswers == {"rendered", "no markdown", "markdown error"}

Answers(request) ==
  CASE request = "echo"           -> {"echoed"}
    [] request = "health"         -> {"healthy"}
    [] request = "sleep"          -> {"slept"}
    [] request = "static"         -> StaticAnswers
    [] request = "markdown"       -> MarkdownAnswers
    [] request = "markdown_other" -> {"not markdown"}
    [] request = "one_slash"      -> {"one slash"}
    [] request = "post"           -> {"created"}
    [] request = "post_id"        -> {"id given"}
    [] request = "list"           -> {"listed", "no directory"}
    [] request = "get"            -> {"item", "unreadable", "no item"}
    [] request = "delete"         -> {"deleted", "not deleted", "nothing to delete"}
    [] request = "put"            -> {"edited"}
    [] request = "no_id"          -> {"no id"}
    [] request = "other_method"   -> {"no answer"}
    [] request = "nowhere"        -> {"not found"}

\* The method of a request, where its branch depends on one.
Methods(request) ==
  CASE request \in {"post", "post_id"} -> {"POST"}
    [] request \in {"list", "get"}     -> {"GET"}
    [] request = "put"                 -> {"PUT"}
    [] request = "delete"              -> {"DELETE"}
    [] request = "no_id"               -> {"PUT", "DELETE"}
    [] request = "other_method"        -> {"OTHER"}
    [] OTHER                           -> {"POST", "GET", "PUT", "DELETE", "OTHER"}

\* The requests for an instance or an entity: their targets have two slashes.
Api == {"post", "post_id", "list", "get", "delete", "put", "no_id", "other_method"}

Blank == <<"CR", "LF", "CR", "LF">>
Plain == {"M", "U", "H"}
Zero == "zero"
Junk == "junk"  \* anything else in memory that was never written

ASSUME ExchangeAssumption ==
  /\ Requests \subseteq Asked
  /\ MaxLength \in Nat \ {0} /\ MaxReads \in Nat
  /\ \A w \in Texts : w \in Seq(STRING \ {Zero})
  /\ Memories \subseteq [1 .. MaxLength -> {Zero, Junk}]
  /\ Deep \subseteq BOOLEAN

VARIABLES
  deep,       \* the path of the API has a second slash
  asked,      \* the request of the client
  keyed,      \* its target is a path of the table
  text,       \* what the client sends in all
  data_,      \* the buffer
  state,      \* where request_parser is
  reads,      \* how much of it each read and those before it brought
  runs,       \* the reads after which the handler of the request ran, for its target
  phase,      \* "read", "write", "deleted", or "dead"
  response_,  \* the body of the response
  stored      \* the files written

given == <<deep, asked, keyed, text>>
vars == <<deep, asked, keyed, text, data_, state, reads, runs, phase, response_, stored>>

----------------------------------------------------------------------------
(* The table.                                                              *)

\* Whether the target of a request may be a path of the table: it is for the
\* handlers found by nothing else, and the API answers a target with one slash
\* unless its path has two.
Keyed(request) ==
  CASE request \in {"echo", "health", "sleep", "static"} -> {TRUE}
    [] request = "nowhere"   -> {FALSE}
    [] request = "one_slash" -> {FALSE, ~deep}
    [] request \in Api       -> {FALSE, deep}
    [] OTHER                 -> BOOLEAN

\* What any path of the table may answer to the method of the request.
OtherAnswers ==
  UNION {Answers(r) : r \in {r \in Asked : /\ TRUE \in Keyed(r)
                                          /\ Methods(r) \cap Methods(asked) # {}}}

\* The first n characters end with the target, or within it.
TargetRead(n) == text[n] # "M" /\ (n = Len(text) \/ text[n + 1] # "U")
PartRead(n) == text[n] = "U" /\ n < Len(text) /\ text[n + 1] = "U"

----------------------------------------------------------------------------
(* data_                                                                   *)

ClearedBy(chunk) ==
  [i \in 1 .. MaxLength |-> IF i <= Len(chunk) THEN chunk[i] ELSE Zero]
EndedBy(chunk) ==
  SubSeq(chunk, 1, Len(chunk) - 1) \o <<Zero>> \o SubSeq(data_, Len(chunk) + 1, MaxLength)
ReadInto(chunk) == chunk \o SubSeq(data_, Len(chunk) + 1, MaxLength)

\* The strings that begin at data_.
Strings(d) ==
  LET NoZero(n) == \A m \in 1 .. n : d[m] # Zero IN
    {SubSeq(d, 1, n - 1) : n \in {n \in DOMAIN d : d[n] = Zero /\ NoZero(n - 1)}}
      \cup {w \in {d, Append(d, Junk)} : NoZero(Len(d))}

\* Where the headers end, as find tells it; npos + 4 is 3.
BlankAt(w) == {i \in 1 .. Len(w) - 3 : SubSeq(w, i, i + 3) = Blank}
KeepsNewline(w) == IF BlankAt(w) = {} THEN 1 ELSE Min(BlankAt(w)) + 1
Skipped(w) == IF BlankAt(w) = {} THEN 3 ELSE Min(BlankAt(w)) + 3

\* substr throws if there is not that much.
TooShort(w) == Len(w) < Skipped(w)
Stored(w) == SubSeq(w, Skipped(w) + 1, Len(w))

----------------------------------------------------------------------------
(* request_parser, in the states that tell where the headers end: Plain is *)
(* any other part of them, "header_value" also all that comes before them. *)

Consume(s, c) ==
  CASE s = "header_value"        /\ c = "CR" -> "expecting_newline_2"
    [] s = "header_value"        /\ c \in Plain -> "header_value"
    [] s = "expecting_newline_2" /\ c = "LF" -> "header_line_start"
    [] s = "header_line_start"   /\ c \in Plain -> "header_value"
    [] s = "header_line_start"   /\ c = "CR" -> "expecting_newline_3"
    [] s = "expecting_newline_3" /\ c = "LF" -> "good"
    [] OTHER -> "bad"

\* The parser is left where it was when a character settles the result.
ResetAfter(before, next) ==
  [before EXCEPT !.result = IF next \in {"good", "bad"} THEN next ELSE @,
                 !.state = IF next \in {"good", "bad"} THEN "header_value" ELSE next]
After(before, next) ==
  IF next \in {"good", "bad"} THEN [before EXCEPT !.result = next]
  ELSE [before EXCEPT !.state = next]

\* parse: the state of the parser after a chunk, and the result.
Start(s) == [state |-> s, result |-> "indeterminate"]
Feed(p, c) == IF p.result = "indeterminate" THEN After(p, Consume(p.state, c)) ELSE p

Parse(s, chunk) ==
  LET f[i \in 0 .. Len(chunk)] == IF i = 0 THEN Start(s) ELSE Feed(f[i - 1], chunk[i])
  IN f[Len(chunk)]

----------------------------------------------------------------------------
(* handle_read, with the handler it calls.                                 *)

\* How much the first i reads brought, and all of them.
UpTo(i) == IF i = 0 THEN 0 ELSE reads[i]
Got == UpTo(Len(reads))

\* The handler of the request runs when it is complete or when the table has what
\* is known of its target, and so does another one for a part of the target; an
\* indeterminate request is not looked at any closer.
RunsFor(result, n) ==
  result = "good" \/ (result = "indeterminate" /\ keyed /\ TargetRead(n))

MayAnswer(result, n) ==
  CASE RunsFor(result, n)             -> Answers(asked)
    [] result = "bad"                 -> {"bad request"}
    [] OTHER -> {"not found"} \cup IF PartRead(n) THEN OtherAnswers ELSE {}

\* The body is the request for echo and a text of its own for any other answer.
Handle(answer, string) ==
  IF answer \in {"created", "edited"} /\ TooShort(string)
  THEN phase' = "dead" /\ UNCHANGED <<response_, stored>>
  ELSE /\ phase' = "write"
       /\ response_' = CASE answer = "echoed"    -> string
                         [] answer = "no answer" -> response_
                         [] OTHER                -> <<answer>>
       /\ stored' = IF answer \in {"created", "edited"} THEN Append(stored, Stored(string))
                    ELSE stored

HandleRead ==
  /\ phase = "read" /\ Len(reads) < MaxReads
  /\ \E n \in 1 .. MaxLength :
       /\ Got + n <= Len(text)
       /\ LET chunk == SubSeq(text, Got + 1, Got + n)
              p == Parse(state, chunk)
          IN /\ reads' = Append(reads, Got + n)
             /\ data_' = ReadInto(chunk)
             /\ state' = p.state
             /\ runs' = IF RunsFor(p.result, Got + n) THEN runs \cup {Len(reads')} ELSE runs
             /\ \E answer \in MayAnswer(p.result, Got + n), string \in Strings(data_') :
                  Handle(answer, string)
  /\ UNCHANGED given

\* handle_write reads again.
HandleWrite ==
  /\ phase = "write"
  /\ phase' = "read"
  /\ UNCHANGED <<given, data_, state, reads, runs, response_, stored>>

\* The client or the session itself closed the connection.
Error ==
  /\ phase \in {"read", "write"}
  /\ phase' = "deleted"
  /\ UNCHANGED <<given, data_, state, reads, runs, response_, stored>>

Init ==
  /\ deep \in Deep /\ asked \in Requests /\ (deep => asked # "one_slash")
  /\ keyed \in Keyed(asked)
  /\ text \in Texts /\ data_ \in Memories
  /\ state = "header_value"
  /\ reads = <<>> /\ runs = {} /\ phase = "read"
  /\ response_ = <<>> /\ stored = <<>>

Next == HandleRead \/ HandleWrite \/ Error

Spec == Init /\ [][Next]_vars

----------------------------------------------------------------------------
(* Properties                                                              *)

\* The headers of a request, and what its client sends after them.
HasHead(w) == Parse("header_value", w).result = "good"
HeadLength(w) == Min(BlankAt(w)) + 3
Body(w) == SubSeq(w, HeadLength(w) + 1, Len(w))

\* However a request is cut up, its handler runs for these reads and no others: the
\* one that brings the end of the headers; those after it that begin with a newline,
\* since the parser still expects the last one; and, if the target is a path of the
\* table, those before it that leave the target complete.
HandlerRuns ==
  phase = "write" /\ HasHead(text) =>
    runs = {i \in DOMAIN reads :
              IF HeadLength(text) <= UpTo(i - 1) THEN text[UpTo(i - 1) + 1] = "LF"
              ELSE HeadLength(text) <= UpTo(i) \/ (keyed /\ TargetRead(UpTo(i)))}

\* The reads that reached the k-th place of the buffer.
Reached(k) == {j \in DOMAIN reads : UpTo(j - 1) + k <= UpTo(j)}

\* The echo handler answers all of the last part of the request; where an earlier
\* part was longer, the rest of it follows, each place of the buffer as the client
\* sent it last, and where no part reached, what memory held.
EchoIsReceived ==
  phase = "write" /\ asked = "echo" /\ Len(reads) \in runs =>
    /\ Len(response_) >= Got - UpTo(Len(reads) - 1)
    /\ \A k \in DOMAIN response_ :
         \/ Reached(k) = {} /\ response_[k] = Junk
         \/ \E j \in Reached(k) : /\ \A i \in Reached(k) : i <= j
                                 /\ response_[k] = text[UpTo(j - 1) + k]

\* crud_request_handler.cc:84,228: a body that came in one read with its headers is
\* stored whole and from its beginning, followed by nothing but what was in memory.
BodyKept ==
  stored # <<>> /\ HasHead(text) /\ reads[1] = Len(text) =>
    /\ IsPrefix(Body(text), stored[1])
    /\ \A i \in DOMAIN stored[1] : i > Len(Body(text)) => stored[1][i] = Junk

\* The buffer holds three characters and, in what a client sends, a second end of a
\* line comes after more than two characters for each read, as does what a path of
\* the table can match, if one of the API's own targets can be such a path.
LongHeads ==
  /\ MaxLength >= 3
  /\ \A w \in Texts : \A i, j \in DOMAIN w :
       i < j /\ w[i] = "LF" /\ w[j] = "LF" => j > 2 * MaxReads
  /\ deep => \A w \in Texts : \A i \in DOMAIN w : w[i] # "M" => i > 2 * MaxReads

\* Then substr(npos + 4) does not throw out of the thread: one of the reads before
\* left three characters in data_.
SubstrInRange == LongHeads => phase # "dead"

\* crud_request_handler.cc:82, "Write POST body contents (JSON) to newly created instance".
BodyStored == stored # <<>> => stored[1] = Body(text)
=============================================================================
