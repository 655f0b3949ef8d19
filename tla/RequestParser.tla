--------------------------- MODULE RequestParser ---------------------------
(***************************************************************************)
(* request_parser: the automaton that reads a request character by         *)
(* character, against a definition of what a request is.                   *)
(*                                                                         *)
(* A character is one of the classes the automaton tells apart.            *)
(***************************************************************************)
EXTENDS Naturals, SequencesExt

CONSTANT Inputs  \* what clients send, as sequences of characters

\* "CTL", "TSP" and "CHAR" are the control, separator and token characters that
\* have no class of their own; "HIGH" is a byte above 127, which a signed char
\* makes negative: not is_char, but not is_ctl either.
Chars == {"SP", "TAB", "CR", "LF", ":", "/", ".", "H", "T", "P", "DIGIT", "CHAR",
          "TSP", "CTL", "HIGH"}

ASSUME InputsAssumption == Inputs \subseteq Seq(Chars)

VARIABLES
  input,    \* the bytes of the connection
  pos,      \* how many of them consume() has seen
  state,    \* state_
  method,   \* req.method, and so on; the version as its digits, not as the
  uri,      \* int they are added up in
  major,
  minor,
  headers,
  result    \* what the last consume() returned

req == <<method, uri, major, minor, headers>>
vars == <<input, pos, state, req, result>>

Ctl == {"CR", "LF", "TAB", "CTL"}
Tspecial == {":", "/", "SP", "TAB", "TSP"}
Token == Chars \ (Ctl \cup Tspecial \cup {"HIGH"})
AnyText == Chars \ {"CR"}
Text == Chars \ Ctl

States == {"method_start", "method", "uri", "http_version_h", "http_version_t_1",
           "http_version_t_2", "http_version_p", "http_version_slash",
           "http_version_major_start", "http_version_major",
           "http_version_minor_start", "http_version_minor", "expecting_newline_1",
           "header_line_start", "header_lws", "header_name",
           "space_before_header_value", "header_value", "expecting_newline_2",
           "expecting_newline_3"}

\* A continuation line needs a header to continue.
LwsAlways(h) == {"SP", "TAB"}
Lws(h) == IF h THEN {"SP", "TAB"} ELSE {}

LastNewlineLax == {"LF", "CR"}
LastNewline == {"LF"}

\* Where each character leads from each state; what is not listed is bad.
Moves(h) == [
  method_start |-> {<<Token, "method">>},
  method |-> {<<{"SP"}, "uri">>, <<Token, "method">>},
  uri |-> {<<{"SP"}, "http_version_h">>, <<Text \ {"SP"}, "uri">>},
  http_version_h |-> {<<{"H"}, "http_version_t_1">>},
  http_version_t_1 |-> {<<{"T"}, "http_version_t_2">>},
  http_version_t_2 |-> {<<{"T"}, "http_version_p">>},
  http_version_p |-> {<<{"P"}, "http_version_slash">>},
  http_version_slash |-> {<<{"/"}, "http_version_major_start">>},
  http_version_major_start |-> {<<{"DIGIT"}, "http_version_major">>},
  http_version_major |-> {<<{"."}, "http_version_minor_start">>,
                          <<{"DIGIT"}, "http_version_major">>},
  http_version_minor_start |-> {<<{"DIGIT"}, "http_version_minor">>},
  http_version_minor |-> {<<{"CR"}, "expecting_newline_1">>,
                          <<{"DIGIT"}, "http_version_minor">>},
  expecting_newline_1 |-> {<<{"LF"}, "header_line_start">>},
  header_line_start |-> {<<{"CR"}, "expecting_newline_3">>, <<Lws(h), "header_lws">>,
                         <<Token, "header_name">>},
  header_lws |-> {<<{"CR"}, "expecting_newline_2">>, <<{"SP", "TAB"}, "header_lws">>,
                  <<Text \ {"SP"}, "header_value">>},
  header_name |-> {<<{":"}, "space_before_header_value">>, <<Token, "header_name">>},
  space_before_header_value |-> {<<{"SP"}, "header_value">>},
  header_value |-> {<<{"CR"}, "expecting_newline_2">>, <<Text, "header_value">>},
  expecting_newline_2 |-> {<<{"LF"}, "header_line_start">>},
  expecting_newline_3 |-> {<<LastNewline, "good">>}]

\* What is kept of a character that leads to a state: not the separators, and
\* not the space a value is continued after.
WithValue(c) == [headers EXCEPT ![Len(headers)].value = Append(@, c)]
WithSpace(c, to) == to = "header_value"
InValue(c, to) == to = "header_value" /\ state # "space_before_header_value"

NewHeader(c) == Append(headers, [name |-> <<c>>, value |-> <<>>])
WithName(c) == [headers EXCEPT ![Len(headers)].name = Append(@, c)]

Headers(c, to) ==
  IF InValue(c, to) THEN WithValue(c)
  ELSE IF to = "header_name" /\ state = "header_line_start" THEN NewHeader(c)
  ELSE IF to = "header_name" /\ state = "header_name" THEN WithName(c)
  ELSE headers

Keep(c, to) ==
  /\ method' = IF to = "method" THEN Append(method, c) ELSE method
  /\ uri' = IF to = "uri" /\ state = "uri" THEN Append(uri, c) ELSE uri
  /\ major' = IF to = "http_version_major" THEN Append(major, c) ELSE major
  /\ minor' = IF to = "http_version_minor" THEN Append(minor, c) ELSE minor
  /\ headers' = Headers(c, to)

\* consume(): good leaves the state as it is, and so does bad.
Consume(c) ==
  \/ \E m \in Moves(headers # <<>>)[state] :
       /\ c \in m[1]
       /\ result' = IF m[2] = "good" THEN "good" ELSE "indeterminate"
       /\ state' = IF m[2] = "good" THEN state ELSE m[2]
       /\ Keep(c, m[2])
  \/ /\ \A m \in Moves(headers # <<>>)[state] : c \notin m[1]
     /\ result' = "bad"
     /\ UNCHANGED <<state, req>>

\* parse() feeds characters until one settles the result.
Next ==
  /\ result = "indeterminate" /\ pos < Len(input)
  /\ Consume(input[pos + 1])
  /\ pos' = pos + 1
  /\ UNCHANGED input

Init ==
  /\ input \in Inputs
  /\ pos = 0
  /\ state = "method_start"
  /\ method = <<>> /\ uri = <<>> /\ major = <<>> /\ minor = <<>> /\ headers = <<>>
  /\ result = "indeterminate"

Spec == Init /\ [][Next]_vars

----------------------------------------------------------------------------
(* What a request is, stated over the whole text.                          *)

Set(w) == {w[i] : i \in 1 .. Len(w)}
From(w, i) == SubSeq(w, i, Len(w))
IsToken(w) == w # <<>> /\ Set(w) \subseteq Token
IsNumber(w) == w # <<>> /\ Set(w) = {"DIGIT"}

IsVersion(w) ==
  /\ Len(w) > 5 /\ SubSeq(w, 1, 5) = <<"H", "T", "T", "P", "/">>
  /\ \E k \in 6 .. Len(w) :
       w[k] = "." /\ IsNumber(SubSeq(w, 6, k - 1)) /\ IsNumber(From(w, k + 1))

IsRequestLine(w) ==
  \E i \in 1 .. Len(w) : \E j \in i + 1 .. Len(w) :
    /\ w[i] = "SP" /\ w[j] = "SP"
    /\ IsToken(SubSeq(w, 1, i - 1))
    /\ Set(SubSeq(w, i + 1, j - 1)) \cap (Ctl \cup {"SP"}) = {}
    /\ IsVersion(From(w, j + 1))

IsHeader(w) ==
  \E i \in 1 .. Len(w) - 1 :
    /\ w[i] = ":" /\ w[i + 1] = "SP"
    /\ IsToken(SubSeq(w, 1, i - 1))
    /\ Set(From(w, i + 2)) \cap Ctl = {}

IsContinuation(w) ==
  \E i \in 1 .. Len(w) :
    Set(SubSeq(w, 1, i)) \subseteq {"SP", "TAB"} /\ Set(From(w, i + 1)) \cap Ctl = {}

\* Lines end in CR LF; a request line, headers that continuations may follow,
\* and one empty line at the end.
IsRequest(w) ==
  LET ends == {i \in 1 .. Len(w) : w[i] = "CR"}
      starts == {1} \cup {i + 2 : i \in ends}
      Line(p) == SubSeq(w, p, (CHOOSE q \in ends : q >= p /\ \A r \in ends : r >= p => q <= r) - 1)
  IN /\ Len(w) > 4 /\ From(w, Len(w) - 3) = <<"CR", "LF", "CR", "LF">>
     /\ \A i \in ends : w[i + 1] = "LF"
     /\ \A p \in starts \ {Len(w) + 1} :
          LET line == Line(p)
              second == \E q \in ends : p = q + 2 /\ \A r \in ends : q <= r
          IN CASE p = 1 -> IsRequestLine(line)
               [] p = Len(w) - 1 -> line = <<>>
               [] OTHER -> IsHeader(line) \/ (IsContinuation(line) /\ ~second)

----------------------------------------------------------------------------
(* Properties                                                              *)

Seen == SubSeq(input, 1, pos)

\* request_parser.h:31: "good" at the last character of a request, and only then,
\* whatever the characters before it were.
GoodIffRequest == result = "good" <=> IsRequest(Seen)

\* A request that visits every state; its endings are all that a text can still need.
FullRequest ==
  <<"CHAR", "SP", "/", "SP", "H", "T", "T", "P", "/", "DIGIT", ".", "DIGIT", "CR", "LF",
    "CHAR", ":", "SP", "CHAR", "CR", "LF", "SP", "CHAR", "CR", "LF", "CR", "LF">>
Endings == {From(FullRequest, i) : i \in 1 .. Len(FullRequest)}

\* "bad if the data is invalid, indeterminate when more data is required": the
\* parser gives up at the first character no request can go on from.
BadIffHopeless ==
  result # "good" => (result = "bad" <=> ~\E w \in Endings : IsRequest(Seen \o w))

\* consume() appends to req.headers.back() in these states: there is one.
HasHeader ==
  state \in {"header_lws", "header_name", "space_before_header_value", "header_value",
             "expecting_newline_2"} => headers # <<>>

\* A header's lines as one: without the end of a line that is continued and the
\* space that follows.
Unfolded(w) ==
  LET n == Len(w)
      IsFold(p, q) == /\ w[p] = "CR" /\ w[p + 1] = "LF"
                      /\ \A k \in p + 2 .. q : w[k] \in {"SP", "TAB"}
      InFold(i) == \E p \in 1 .. n - 2 : \E q \in p + 2 .. n : i \in p .. q /\ IsFold(p, q)
  IN FlattenSeq([i \in 1 .. n |-> IF InFold(i) THEN <<>> ELSE <<w[i]>>])

\* What handlers, routes and the log are given of a request is all of it: put
\* together again, the parts are the text, with its headers unfolded.
RequestKept ==
  result = "good" =>
    LET field(h) == h.name \o <<":", "SP">> \o h.value \o <<"CR", "LF">> IN
      Unfolded(Seen) =
        method \o <<"SP">> \o uri \o <<"SP", "H", "T", "T", "P", "/">> \o major \o <<".">> \o minor
          \o <<"CR", "LF">> \o FlattenSeq([i \in DOMAIN headers |-> field(headers[i])])
          \o <<"CR", "LF">>
=============================================================================
