------------------------ MODULE RequestParserProofs ------------------------
(* Proofs about RequestParser, for every input.                            *)
EXTENDS RequestParser, SequenceLemmas

\* Every move of the table leads to a state or to good, and into the states
\* that append to a header only from one of them or by starting a header.
Appending == {"header_lws", "header_name", "space_before_header_value", "header_value",
              "expecting_newline_2"}

\* The states the automaton can move to.
LEMMA MoveTargets ==
  ASSUME NEW h \in BOOLEAN, NEW s \in States, NEW m \in Moves(h)[s]
  PROVE  /\ m[2] \in States \cup {"good"}
         /\ m[2] \in Appending =>
              \/ s \in Appending
              \/ s = "header_line_start" /\ (m[2] = "header_name" \/ h \/ m[1] = {})
<1>1. CASE s \in {"method_start", "method", "uri", "http_version_h"}
  BY <1>1 DEF Moves, States, Appending
<1>2. CASE s \in {"http_version_t_1", "http_version_t_2", "http_version_p", "http_version_slash"}
  BY <1>2 DEF Moves, States, Appending
<1>3. CASE s \in {"http_version_major_start", "http_version_major",
                  "http_version_minor_start", "http_version_minor"}
  BY <1>3 DEF Moves, States, Appending
<1>4. CASE s \in {"expecting_newline_1", "expecting_newline_2", "expecting_newline_3"}
  BY <1>4 DEF Moves, States, Appending
<1>5. CASE s = "header_line_start"
  BY <1>5 DEF Moves, States, Appending, Lws
<1>6. CASE s \in {"header_lws", "header_name", "space_before_header_value", "header_value"}
  BY <1>6 DEF Moves, States, Appending
<1> QED
  BY <1>1, <1>2, <1>3, <1>4, <1>5, <1>6 DEF States

\* A header and its parts.
Header == [name : Seq(Chars), value : Seq(Chars)]

IInv ==
  /\ input \in Seq(Chars) /\ pos \in Nat
  /\ state \in States /\ headers \in Seq(Header) /\ HasHeader

\* Adding to a part of the last header leaves it a header, and the last.
LEMMA LastChanged ==
  ASSUME NEW h \in Seq(Header), h # <<>>, NEW r \in Header
  PROVE  [h EXCEPT ![Len(h)] = r] \in Seq(Header) /\ [h EXCEPT ![Len(h)] = r] # <<>>
OBVIOUS

LEMMA AppendedChar == ASSUME NEW S, NEW w \in Seq(S), NEW c \in S PROVE Append(w, c) \in Seq(S)
OBVIOUS

\* Headers are added to, and only added.
LEMMA KeepKeeps ==
  ASSUME IInv, NEW c \in Chars, NEW to, Keep(c, to),
         to \in Appending =>
           state \in Appending \/ (state = "header_line_start" /\ (to = "header_name" \/ headers # <<>>))
  PROVE  /\ headers' \in Seq(Header)
         /\ headers # <<>> => headers' # <<>>
         /\ state = "header_line_start" /\ to = "header_name" => headers' # <<>>
<1>1. headers \in Seq(Header)
  BY DEF IInv
<1>2. CASE InValue(c, to)
  <2> DEFINE last == headers[Len(headers)]
             new == [last EXCEPT !.value = Append(@, c)]
  <2>1. headers # <<>> /\ to = "header_value"
    BY <1>2 DEF InValue, Appending, IInv, HasHeader
  <2>2. last \in Header
    BY <1>1, <2>1
  <2>3. Append(last.value, c) \in Seq(Chars)
    BY <2>2, AppendedChar DEF Header
  <2>4. new \in Header
    BY <2>2, <2>3 DEF Header
  <2>5. headers' = [headers EXCEPT ![Len(headers)] = new]
    <3>1. headers' = WithValue(c)
      BY <1>2 DEF Keep, Headers
    <3> QED
      BY <3>1 DEF WithValue
  <2> HIDE DEF new
  <2> QED
    BY <1>1, <2>1, <2>4, <2>5, LastChanged
<1>3. CASE ~InValue(c, to) /\ to = "header_name" /\ state = "header_line_start"
  <2>1. headers' = Append(headers, [name |-> <<c>>, value |-> <<>>])
    BY <1>3 DEF Keep, Headers, NewHeader
  <2>2. [name |-> <<c>>, value |-> <<>>] \in Header
    BY DEF Header
  <2> QED
    BY <1>1, <2>1, <2>2
<1>4. CASE ~InValue(c, to) /\ to = "header_name" /\ state = "header_name"
  <2> DEFINE last == headers[Len(headers)]
             new == [last EXCEPT !.name = Append(@, c)]
  <2>1. headers # <<>>
    BY <1>4 DEF IInv, HasHeader
  <2>2. last \in Header
    BY <1>1, <2>1
  <2>3. Append(last.name, c) \in Seq(Chars)
    BY <2>2, AppendedChar DEF Header
  <2>4. new \in Header
    BY <2>2, <2>3 DEF Header
  <2>5. headers' = [headers EXCEPT ![Len(headers)] = new]
    <3>1. headers' = WithName(c)
      BY <1>4 DEF Keep, Headers
    <3> QED
      BY <3>1 DEF WithName
  <2> HIDE DEF new
  <2> QED
    BY <1>1, <1>4, <2>1, <2>4, <2>5, LastChanged
<1>5. CASE /\ ~InValue(c, to)
           /\ to # "header_name" \/ state \notin {"header_line_start", "header_name"}
  <2>1. headers' = headers
    BY <1>5 DEF Keep, Headers
  <2> QED
    BY <1>1, <1>5, <2>1
<1> QED
  BY <1>2, <1>3, <1>4, <1>5

LEMMA KeptInit == Init => IInv
BY InputsAssumption DEF Init, IInv, HasHeader, States

LEMMA KeptStep == IInv /\ [Next]_vars => IInv'
<1> SUFFICES ASSUME IInv, [Next]_vars PROVE IInv'
  OBVIOUS
<1>1. CASE UNCHANGED vars
  BY <1>1 DEF vars, req, IInv, HasHeader
<1>2. CASE Next
  <2> DEFINE c == input[pos + 1]
  <2>1. Consume(c) /\ c \in Chars /\ input' = input /\ pos' \in Nat
    BY <1>2 DEF Next, IInv
  <2> HIDE DEF c
  <2>2. CASE UNCHANGED <<state, req>>
    BY <2>1, <2>2 DEF req, IInv, HasHeader
  <2>3. ASSUME NEW m \in Moves(headers # <<>>)[state], c \in m[1],
               state' = (IF m[2] = "good" THEN state ELSE m[2]), Keep(c, m[2])
        PROVE  IInv'
    <3>1. /\ m[2] \in States \cup {"good"}
          /\ m[2] \in Appending =>
               \/ state \in Appending
               \/ state = "header_line_start" /\ (m[2] = "header_name" \/ headers # <<>>)
      BY <2>3, MoveTargets DEF IInv
    <3>2. /\ headers' \in Seq(Header)
          /\ headers # <<>> => headers' # <<>>
          /\ state = "header_line_start" /\ m[2] = "header_name" => headers' # <<>>
      BY <2>1, <2>3, <3>1, KeepKeeps
    <3>3. state' \in States
      BY <2>3, <3>1 DEF IInv
    <3>4. state' \in Appending => headers' # <<>>
      BY <2>3, <3>1, <3>2 DEF IInv, HasHeader, Appending
    <3>5. HasHeader'
      BY <3>4 DEF HasHeader, Appending
    <3> QED
      BY <2>1, <3>2, <3>3, <3>5 DEF IInv
  <2> QED
    BY <2>1, <2>2, <2>3 DEF Consume
<1> QED
  BY <1>1, <1>2

\* req.headers.back() is never called on an empty list, whatever the bytes.
THEOREM HeadersNeverEmpty == Spec => []HasHeader
<1>1. IInv => HasHeader
  BY DEF IInv
<1> QED
  BY <1>1, KeptInit, KeptStep, PTL DEF Spec

----------------------------------------------------------------------------
(* What the parser has read of w, by the positions of its parts.           *)

AllIn(w, a, b, S) == \A k \in a .. b : w[k] \in S
Spaced == {"SP", "TAB"}
IsTok(w, a, b) == a <= b /\ AllIn(w, a, b, Token)
IsNum(w, a, b) == a <= b /\ AllIn(w, a, b, {"DIGIT"})

\* The method ends before i, the uri before j, the major version before k, and
\* the line after e.
MethodTo(w, i) == w[i] = "SP" /\ IsTok(w, 1, i - 1)
UriTo(w, j) ==
  w[j] = "SP" /\ \E i \in 1 .. j - 1 : MethodTo(w, i) /\ AllIn(w, i + 1, j - 1, Text \ {"SP"})
SlashTo(w, j) ==
  /\ UriTo(w, j) /\ w[j + 1] = "H" /\ w[j + 2] = "T" /\ w[j + 3] = "T"
  /\ w[j + 4] = "P" /\ w[j + 5] = "/"
MajorTo(w, k) == w[k] = "." /\ \E j \in 1 .. k : SlashTo(w, j) /\ IsNum(w, j + 6, k - 1)
FirstLine(w, e) == \E k \in 1 .. e : MajorTo(w, k) /\ IsNum(w, k + 1, e)

\* The name of a header that begins at p ends before i, its line after e.
NameTo(w, p, i) == w[i] = ":" /\ IsTok(w, p, i - 1)
Field(w, p, e) ==
  \E i \in p .. e - 1 : NameTo(w, p, i) /\ w[i + 1] = "SP" /\ AllIn(w, i + 2, e, Text)
Folded(w, p, e) == \E i \in p .. e : AllIn(w, p, i, Spaced) /\ AllIn(w, i + 1, e, Text)

\* There is a header before the line that begins at p.
Later(w, p) == \E k \in 1 .. p - 3 : w[k] = "CR"
HeaderLine(w, p, e) == Field(w, p, e) \/ (Folded(w, p, e) /\ Later(w, p))

\* The line that ends at i; all lines before p.
LineOk(w, i) ==
  \E q \in 1 .. i :
    /\ \A k \in q .. i - 1 : w[k] # "CR"
    /\ \/ q = 1 /\ FirstLine(w, i - 1)
       \/ q >= 3 /\ w[q - 2] = "CR" /\ HeaderLine(w, q, i - 1)
Done(w, p) ==
  /\ p >= 3 /\ w[p - 2] = "CR"
  /\ \A i \in 1 .. p - 1 : w[i] = "CR" => i + 1 <= p - 1 /\ w[i + 1] = "LF" /\ LineOk(w, i)

InFirst == {"method_start", "method", "uri", "http_version_h", "http_version_t_1",
            "http_version_t_2", "http_version_p", "http_version_slash",
            "http_version_major_start", "http_version_major", "http_version_minor_start",
            "http_version_minor", "expecting_newline_1"}

\* What each state says of the n characters read; h is whether there are headers.
Described(w, s, n, h) ==
  /\ s \in InFirst => ~h
  /\ s = "method_start" => n = 0
  /\ s = "method" => IsTok(w, 1, n)
  /\ s = "uri" => \E i \in 1 .. n : MethodTo(w, i) /\ AllIn(w, i + 1, n, Text \ {"SP"})
  /\ s = "http_version_h" => n >= 1 /\ UriTo(w, n)
  /\ s = "http_version_t_1" => n >= 2 /\ UriTo(w, n - 1) /\ w[n] = "H"
  /\ s = "http_version_t_2" => n >= 3 /\ UriTo(w, n - 2) /\ w[n - 1] = "H" /\ w[n] = "T"
  /\ s = "http_version_p" =>
       n >= 4 /\ UriTo(w, n - 3) /\ w[n - 2] = "H" /\ w[n - 1] = "T" /\ w[n] = "T"
  /\ s = "http_version_slash" =>
       /\ n >= 5 /\ UriTo(w, n - 4) /\ w[n - 3] = "H" /\ w[n - 2] = "T" /\ w[n - 1] = "T"
       /\ w[n] = "P"
  /\ s = "http_version_major_start" => n >= 6 /\ SlashTo(w, n - 5)
  /\ s = "http_version_major" => \E j \in 1 .. n : SlashTo(w, j) /\ IsNum(w, j + 6, n)
  /\ s = "http_version_minor_start" => n >= 1 /\ MajorTo(w, n)
  /\ s = "http_version_minor" => FirstLine(w, n)
  /\ s = "expecting_newline_1" => n >= 1 /\ w[n] = "CR" /\ FirstLine(w, n - 1)
  /\ s = "header_line_start" => Done(w, n + 1) /\ (h => Later(w, n + 1))
  /\ s = "header_lws" => \E p \in 1 .. n : Done(w, p) /\ Later(w, p) /\ AllIn(w, p, n, Spaced)
  /\ s = "header_name" => \E p \in 1 .. n : Done(w, p) /\ IsTok(w, p, n)
  /\ s = "space_before_header_value" => \E p \in 1 .. n : Done(w, p) /\ NameTo(w, p, n)
  /\ s = "header_value" =>
       \E p \in 1 .. n : Done(w, p) /\ HeaderLine(w, p, n) /\ ~AllIn(w, p, n, Spaced)
  /\ s = "expecting_newline_2" =>
       w[n] = "CR" /\ \E p \in 1 .. n - 1 : Done(w, p) /\ HeaderLine(w, p, n - 1)
  /\ s = "expecting_newline_3" => n >= 1 /\ w[n] = "CR" /\ Done(w, n)

\* A part goes on with one more character of its kind.
LEMMA OneMore ==
  ASSUME NEW w, NEW a \in Int, NEW b \in Int, NEW S, AllIn(w, a, b, S), w[b + 1] \in S
  PROVE  AllIn(w, a, b + 1, S)
<1> SUFFICES ASSUME NEW k \in a .. b + 1 PROVE w[k] \in S
  BY DEF AllIn
<1>1. k \in a .. b \/ k = b + 1
  OBVIOUS
<1> QED
  BY <1>1 DEF AllIn

LEMMA Nothing == ASSUME NEW w, NEW a \in Int, NEW b \in Int, b < a, NEW S PROVE AllIn(w, a, b, S)
BY DEF AllIn

\* No line has a newline in it.
NoEnds(w, a, b) == \A k \in a .. b : w[k] \notin {"CR", "LF"}

LEMMA TokensHaveNoEnds ==
  \A S \in {Token, Text, Text \ {"SP"}, Spaced, {"DIGIT"}} : "CR" \notin S /\ "LF" \notin S
BY DEF Token, Text, Spaced, Ctl

LEMMA PartHasNoEnds ==
  ASSUME NEW w, NEW a, NEW b, NEW S \in {Token, Text, Text \ {"SP"}, Spaced, {"DIGIT"}},
         AllIn(w, a, b, S)
  PROVE  NoEnds(w, a, b)
BY TokensHaveNoEnds DEF AllIn, NoEnds

LEMMA FirstLineHasNoEnds ==
  ASSUME NEW w, NEW e \in Int, FirstLine(w, e)
  PROVE  NoEnds(w, 1, e) /\ e >= 1
<1>1. PICK k \in 1 .. e : MajorTo(w, k) /\ IsNum(w, k + 1, e)
  BY DEF FirstLine
<1>2. PICK j \in 1 .. k : SlashTo(w, j) /\ IsNum(w, j + 6, k - 1) /\ w[k] = "."
  BY <1>1 DEF MajorTo
<1>3. PICK i \in 1 .. j - 1 : /\ MethodTo(w, i) /\ AllIn(w, i + 1, j - 1, Text \ {"SP"})
                             /\ w[j] = "SP"
  BY <1>2 DEF SlashTo, UriTo
<1>4. /\ NoEnds(w, 1, i - 1) /\ NoEnds(w, i + 1, j - 1) /\ NoEnds(w, j + 6, k - 1)
      /\ NoEnds(w, k + 1, e)
  BY <1>1, <1>2, <1>3, PartHasNoEnds DEF MethodTo, IsTok, IsNum
<1>5. ASSUME NEW x \in 1 .. e PROVE w[x] \notin {"CR", "LF"}
  <2>1. \/ x \in 1 .. i - 1 \/ x = i \/ x \in i + 1 .. j - 1 \/ x = j
        \/ x \in {j + 1, j + 2, j + 3, j + 4, j + 5} \/ x \in j + 6 .. k - 1 \/ x = k
        \/ x \in k + 1 .. e
    OBVIOUS
  <2>2. CASE x \in 1 .. i - 1 \/ x \in i + 1 .. j - 1 \/ x \in j + 6 .. k - 1 \/ x \in k + 1 .. e
    BY <1>4, <2>2 DEF NoEnds
  <2>3. CASE x = i \/ x = j \/ x \in {j + 1, j + 2, j + 3, j + 4, j + 5} \/ x = k
    BY <1>2, <1>3, <2>3 DEF SlashTo, MethodTo
  <2> QED
    BY <2>1, <2>2, <2>3
<1> QED
  BY <1>5 DEF NoEnds

LEMMA HeaderLineHasNoEnds ==
  ASSUME NEW w, NEW p \in Int, NEW e \in Int, HeaderLine(w, p, e)
  PROVE  NoEnds(w, p, e) /\ p <= e
<1>1. CASE Field(w, p, e)
  <2>1. PICK i \in p .. e - 1 : NameTo(w, p, i) /\ w[i + 1] = "SP" /\ AllIn(w, i + 2, e, Text)
    BY <1>1 DEF Field
  <2>2. NoEnds(w, p, i - 1) /\ NoEnds(w, i + 2, e) /\ w[i] = ":"
    BY <2>1, PartHasNoEnds DEF NameTo, IsTok
  <2> QED
    BY <2>1, <2>2 DEF NoEnds
<1>2. CASE Folded(w, p, e)
  <2>1. PICK i \in p .. e : AllIn(w, p, i, Spaced) /\ AllIn(w, i + 1, e, Text)
    BY <1>2 DEF Folded
  <2>2. NoEnds(w, p, i) /\ NoEnds(w, i + 1, e)
    BY <2>1, PartHasNoEnds
  <2> QED
    BY <2>1, <2>2 DEF NoEnds
<1> QED
  BY <1>1, <1>2 DEF HeaderLine

\* A line is done with its newline.
LEMMA FirstDone ==
  ASSUME NEW w, NEW n \in Nat, n >= 1, w[n] = "CR", FirstLine(w, n - 1), w[n + 1] = "LF"
  PROVE  Done(w, n + 2)
<1>1. NoEnds(w, 1, n - 1) /\ n - 1 >= 1
  BY FirstLineHasNoEnds
<1>2. LineOk(w, n)
  BY <1>1 DEF LineOk, NoEnds
<1>3. ASSUME NEW i \in 1 .. n + 1, w[i] = "CR" PROVE i = n
  BY <1>1, <1>3 DEF NoEnds
<1> QED
  BY <1>1, <1>2, <1>3 DEF Done

LEMMA NextDone ==
  ASSUME NEW w, NEW n \in Nat, NEW p \in 1 .. n - 1, Done(w, p), HeaderLine(w, p, n - 1),
         w[n] = "CR", w[n + 1] = "LF"
  PROVE  Done(w, n + 2) /\ Later(w, n + 2)
<1>1. NoEnds(w, p, n - 1) /\ p >= 3 /\ w[p - 2] = "CR"
  BY HeaderLineHasNoEnds DEF Done
<1>2. LineOk(w, n)
  BY <1>1 DEF LineOk, NoEnds
<1>3. ASSUME NEW i \in 1 .. n + 1, w[i] = "CR" PROVE i \in 1 .. p - 1 \/ i = n
  BY <1>1, <1>3 DEF NoEnds
<1>4. \A i \in 1 .. p - 1 : w[i] = "CR" => i + 1 <= p - 1 /\ w[i + 1] = "LF" /\ LineOk(w, i)
  BY DEF Done
<1>5. Done(w, n + 2)
  BY <1>1, <1>2, <1>3, <1>4 DEF Done
<1>6. p - 2 \in 1 .. (n + 2) - 3
  BY <1>1
<1> QED
  BY <1>1, <1>5, <1>6 DEF Later

----------------------------------------------------------------------------
(* Every move keeps the description.                                       *)

\* A move of the first line.
LEMMA FirstLineMoves ==
  ASSUME NEW w, NEW n \in Nat, NEW h \in BOOLEAN, NEW s \in InFirst, Described(w, s, n, h),
         NEW m \in Moves(h)[s], w[n + 1] \in m[1]
  PROVE  Described(w, m[2], n + 1, h) /\ m[2] # "good"
<1>0. ~h /\ n + 1 - 1 = n
  BY DEF Described
<1>1. CASE s = "method_start"
  <2>1. n = 0 /\ m[2] = "method" /\ w[n + 1] \in Token
    BY <1>1 DEF Described, Moves
  <2>2. IsTok(w, 1, n + 1)
    BY <2>1 DEF IsTok, AllIn
  <2> QED
    BY <1>0, <2>1, <2>2 DEF Described, InFirst
<1>2. CASE s = "method"
  <2>1. IsTok(w, 1, n)
    BY <1>2 DEF Described
  <2>2. \/ m[2] = "uri" /\ w[n + 1] = "SP"
        \/ m[2] = "method" /\ w[n + 1] \in Token
    BY <1>2 DEF Moves
  <2>3. CASE m[2] = "method" /\ w[n + 1] \in Token
    <3>1. IsTok(w, 1, n + 1)
      BY <2>1, <2>3, OneMore DEF IsTok
    <3> QED
      BY <1>0, <2>3, <3>1 DEF Described, InFirst
  <2>4. CASE m[2] = "uri" /\ w[n + 1] = "SP"
    <3>1. MethodTo(w, n + 1)
      BY <1>0, <2>1, <2>4 DEF MethodTo
    <3>2. AllIn(w, n + 2, n + 1, Text \ {"SP"})
      BY Nothing
    <3>3. \E i \in 1 .. n + 1 : MethodTo(w, i) /\ AllIn(w, i + 1, n + 1, Text \ {"SP"})
      BY <3>1, <3>2
    <3> QED
      BY <1>0, <2>4, <3>3 DEF Described, InFirst
  <2> QED
    BY <2>2, <2>3, <2>4
<1>3. CASE s = "uri"
  <2>1. PICK i \in 1 .. n : MethodTo(w, i) /\ AllIn(w, i + 1, n, Text \ {"SP"})
    BY <1>3 DEF Described
  <2>2. \/ m[2] = "http_version_h" /\ w[n + 1] = "SP"
        \/ m[2] = "uri" /\ w[n + 1] \in Text \ {"SP"}
    BY <1>3 DEF Moves
  <2>3. CASE m[2] = "uri" /\ w[n + 1] \in Text \ {"SP"}
    <3>1. AllIn(w, i + 1, n + 1, Text \ {"SP"})
      BY <2>1, <2>3, OneMore
    <3> QED
      BY <1>0, <2>1, <2>3, <3>1 DEF Described, InFirst
  <2>4. CASE m[2] = "http_version_h" /\ w[n + 1] = "SP"
    <3>1. UriTo(w, n + 1)
      BY <1>0, <2>1, <2>4 DEF UriTo
    <3> QED
      BY <1>0, <2>4, <3>1 DEF Described, InFirst
  <2> QED
    BY <2>2, <2>3, <2>4
<1>4. CASE s \in {"http_version_h", "http_version_t_1"}
  <2>1. /\ s = "http_version_h" => m[2] = "http_version_t_1" /\ w[n + 1] = "H"
        /\ s = "http_version_t_1" => m[2] = "http_version_t_2" /\ w[n + 1] = "T"
    BY <1>4 DEF Moves
  <2>2. n + 1 - 2 = n - 1
    OBVIOUS
  <2> QED
    BY <1>0, <1>4, <2>1, <2>2 DEF Described, InFirst
<1>5. CASE s \in {"http_version_t_2", "http_version_p"}
  <2>1. /\ s = "http_version_t_2" => m[2] = "http_version_p" /\ w[n + 1] = "T"
        /\ s = "http_version_p" => m[2] = "http_version_slash" /\ w[n + 1] = "P"
    BY <1>5 DEF Moves
  <2>2. n + 1 - 2 = n - 1 /\ n + 1 - 3 = n - 2 /\ n + 1 - 4 = n - 3
    OBVIOUS
  <2> QED
    BY <1>0, <1>5, <2>1, <2>2 DEF Described, InFirst
<1>6. CASE s = "http_version_slash"
  <2>1. m[2] = "http_version_major_start" /\ w[n + 1] = "/"
    BY <1>6 DEF Moves
  <2>2. /\ n >= 5 /\ UriTo(w, n - 4) /\ w[n - 3] = "H" /\ w[n - 2] = "T" /\ w[n - 1] = "T"
        /\ w[n] = "P"
    BY <1>6 DEF Described
  <2>3. /\ n - 4 + 1 = n - 3 /\ n - 4 + 2 = n - 2 /\ n - 4 + 3 = n - 1 /\ n - 4 + 4 = n
        /\ n - 4 + 5 = n + 1 /\ n + 1 - 5 = n - 4
    OBVIOUS
  <2>4. SlashTo(w, n - 4)
    BY <2>1, <2>2, <2>3 DEF SlashTo
  <2> QED
    BY <1>0, <2>1, <2>2, <2>3, <2>4 DEF Described, InFirst
<1>7. CASE s = "http_version_major_start"
  <2>1. m[2] = "http_version_major" /\ w[n + 1] \in {"DIGIT"} /\ n >= 6 /\ SlashTo(w, n - 5)
    BY <1>7 DEF Moves, Described
  <2>2. IsNum(w, n - 5 + 6, n + 1) /\ n - 5 \in 1 .. n + 1
    BY <2>1 DEF IsNum, AllIn
  <2>3. \E j \in 1 .. n + 1 : SlashTo(w, j) /\ IsNum(w, j + 6, n + 1)
    BY <2>1, <2>2
  <2> QED
    BY <1>0, <2>1, <2>3 DEF Described, InFirst
<1>8. CASE s = "http_version_major"
  <2>1. PICK j \in 1 .. n : SlashTo(w, j) /\ IsNum(w, j + 6, n)
    BY <1>8 DEF Described
  <2>2. \/ m[2] = "http_version_minor_start" /\ w[n + 1] = "."
        \/ m[2] = "http_version_major" /\ w[n + 1] \in {"DIGIT"}
    BY <1>8 DEF Moves
  <2>3. CASE m[2] = "http_version_major" /\ w[n + 1] \in {"DIGIT"}
    <3>1. IsNum(w, j + 6, n + 1)
      BY <2>1, <2>3, OneMore DEF IsNum
    <3> QED
      BY <1>0, <2>1, <2>3, <3>1 DEF Described, InFirst
  <2>4. CASE m[2] = "http_version_minor_start" /\ w[n + 1] = "."
    <3>1. MajorTo(w, n + 1)
      BY <1>0, <2>1, <2>4 DEF MajorTo
    <3> QED
      BY <1>0, <2>4, <3>1 DEF Described, InFirst
  <2> QED
    BY <2>2, <2>3, <2>4
<1>9. CASE s = "http_version_minor_start"
  <2>1. m[2] = "http_version_minor" /\ w[n + 1] \in {"DIGIT"} /\ n >= 1 /\ MajorTo(w, n)
    BY <1>9 DEF Moves, Described
  <2>2. IsNum(w, n + 1, n + 1)
    BY <2>1 DEF IsNum, AllIn
  <2>3. FirstLine(w, n + 1)
    BY <2>1, <2>2 DEF FirstLine
  <2> QED
    BY <1>0, <2>1, <2>3 DEF Described, InFirst
<1>10. CASE s = "http_version_minor"
  <2>1. FirstLine(w, n)
    BY <1>10 DEF Described
  <2>2. \/ m[2] = "expecting_newline_1" /\ w[n + 1] = "CR"
        \/ m[2] = "http_version_minor" /\ w[n + 1] \in {"DIGIT"}
    BY <1>10 DEF Moves
  <2>3. CASE m[2] = "http_version_minor" /\ w[n + 1] \in {"DIGIT"}
    <3>1. PICK k \in 1 .. n : MajorTo(w, k) /\ IsNum(w, k + 1, n)
      BY <2>1 DEF FirstLine
    <3>2. IsNum(w, k + 1, n + 1)
      BY <2>3, <3>1, OneMore DEF IsNum
    <3>3. FirstLine(w, n + 1)
      BY <3>1, <3>2 DEF FirstLine
    <3> QED
      BY <1>0, <2>3, <3>3 DEF Described, InFirst
  <2>4. CASE m[2] = "expecting_newline_1" /\ w[n + 1] = "CR"
    BY <1>0, <2>1, <2>4 DEF Described, InFirst
  <2> QED
    BY <2>2, <2>3, <2>4
<1>11. CASE s = "expecting_newline_1"
  <2>1. m[2] = "header_line_start" /\ w[n + 1] = "LF"
    BY <1>11 DEF Moves
  <2>2. n >= 1 /\ w[n] = "CR" /\ FirstLine(w, n - 1)
    BY <1>11 DEF Described
  <2>3. Done(w, n + 2) /\ (n + 1) + 1 = n + 2
    BY <2>1, <2>2, FirstDone
  <2> QED
    BY <1>0, <2>1, <2>3 DEF Described, InFirst
<1> QED
  BY <1>1, <1>2, <1>3, <1>4, <1>5, <1>6, <1>7, <1>8, <1>9, <1>10, <1>11 DEF InFirst

InHeaders == {"header_line_start", "header_lws", "header_name", "space_before_header_value",
              "header_value", "expecting_newline_2"}

\* A move of the lines that follow.
LEMMA HeaderMoves ==
  ASSUME NEW w, NEW n \in Nat, NEW h \in BOOLEAN, NEW s \in InHeaders, Described(w, s, n, h),
         NEW m \in Moves(h)[s], w[n + 1] \in m[1], NEW g \in BOOLEAN
  PROVE  Described(w, m[2], n + 1, g) /\ m[2] # "good"
<1>1. CASE s = "header_line_start"
  <2>1. Done(w, n + 1) /\ (h => Later(w, n + 1))
    BY <1>1 DEF Described
  <2>2. \/ m[2] = "expecting_newline_3" /\ w[n + 1] = "CR"
        \/ m[2] = "header_lws" /\ w[n + 1] \in Spaced /\ h
        \/ m[2] = "header_name" /\ w[n + 1] \in Token
    BY <1>1 DEF Moves, Lws, Spaced
  <2>3. CASE m[2] = "expecting_newline_3" /\ w[n + 1] = "CR"
    BY <2>1, <2>3 DEF Described, InFirst
  <2>4. CASE m[2] = "header_lws" /\ w[n + 1] \in Spaced /\ h
    <3>1. AllIn(w, n + 1, n + 1, Spaced) /\ n + 1 \in 1 .. n + 1
      BY <2>4 DEF AllIn
    <3> QED
      BY <2>1, <2>4, <3>1 DEF Described, InFirst
  <2>5. CASE m[2] = "header_name" /\ w[n + 1] \in Token
    <3>1. IsTok(w, n + 1, n + 1) /\ n + 1 \in 1 .. n + 1
      BY <2>5 DEF IsTok, AllIn
    <3> QED
      BY <2>1, <2>5, <3>1 DEF Described, InFirst
  <2> QED
    BY <2>2, <2>3, <2>4, <2>5
<1>2. CASE s = "header_lws"
  <2>1. PICK p \in 1 .. n : Done(w, p) /\ Later(w, p) /\ AllIn(w, p, n, Spaced)
    BY <1>2 DEF Described
  <2>2. \/ m[2] = "expecting_newline_2" /\ w[n + 1] = "CR"
        \/ m[2] = "header_lws" /\ w[n + 1] \in Spaced
        \/ m[2] = "header_value" /\ w[n + 1] \in Text \ {"SP"}
    BY <1>2 DEF Moves, Spaced
  <2>3. CASE m[2] = "expecting_newline_2" /\ w[n + 1] = "CR"
    <3>1. HeaderLine(w, p, n)
      BY <2>1, Nothing DEF HeaderLine, Folded
    <3>2. p \in 1 .. (n + 1) - 1 /\ (n + 1) - 1 = n
      OBVIOUS
    <3> QED
      BY <2>1, <2>3, <3>1, <3>2 DEF Described, InFirst
  <2>4. CASE m[2] = "header_lws" /\ w[n + 1] \in Spaced
    <3>1. AllIn(w, p, n + 1, Spaced)
      <4>1. AllIn(w, p, n, Spaced) /\ w[n + 1] \in Spaced /\ p \in Int /\ n \in Int
        BY <2>1, <2>4
      <4> QED
        BY <4>1, OneMore
    <3> QED
      BY <2>1, <2>4, <3>1 DEF Described, InFirst
  <2>5. CASE m[2] = "header_value" /\ w[n + 1] \in Text \ {"SP"}
    <3>1. AllIn(w, n + 1, n + 1, Text) /\ n \in p .. n + 1
      BY <2>5 DEF AllIn
    <3>2. HeaderLine(w, p, n + 1)
      BY <2>1, <3>1 DEF HeaderLine, Folded
    <3>3. ~AllIn(w, p, n + 1, Spaced)
      <4>1. w[n + 1] \notin Spaced /\ n + 1 \in p .. n + 1
        BY <2>5 DEF Text, Spaced, Ctl
      <4> QED
        BY <4>1 DEF AllIn
    <3> QED
      BY <2>1, <2>5, <3>2, <3>3 DEF Described, InFirst
  <2> QED
    BY <2>2, <2>3, <2>4, <2>5
<1>3. CASE s = "header_name"
  <2>1. PICK p \in 1 .. n : Done(w, p) /\ IsTok(w, p, n)
    BY <1>3 DEF Described
  <2>2. \/ m[2] = "space_before_header_value" /\ w[n + 1] = ":"
        \/ m[2] = "header_name" /\ w[n + 1] \in Token
    BY <1>3 DEF Moves
  <2>3. CASE m[2] = "space_before_header_value" /\ w[n + 1] = ":"
    <3>1. NameTo(w, p, n + 1)
      <4>1. (n + 1) - 1 = n
        OBVIOUS
      <4> QED
        BY <2>1, <2>3, <4>1 DEF NameTo
    <3> QED
      BY <2>1, <2>3, <3>1 DEF Described, InFirst
  <2>4. CASE m[2] = "header_name" /\ w[n + 1] \in Token
    <3>1. IsTok(w, p, n + 1)
      BY <2>1, <2>4, OneMore DEF IsTok
    <3> QED
      BY <2>1, <2>4, <3>1 DEF Described, InFirst
  <2> QED
    BY <2>2, <2>3, <2>4
<1>4. CASE s = "space_before_header_value"
  <2>1. PICK p \in 1 .. n : Done(w, p) /\ NameTo(w, p, n)
    BY <1>4 DEF Described
  <2>2. m[2] = "header_value" /\ w[n + 1] = "SP"
    BY <1>4 DEF Moves
  <2>3. HeaderLine(w, p, n + 1)
    <3>1. n \in p .. (n + 1) - 1
      BY <2>1 DEF NameTo, IsTok
    <3>2. AllIn(w, n + 2, n + 1, Text)
      BY Nothing
    <3>3. Field(w, p, n + 1)
      BY <2>1, <2>2, <3>1, <3>2 DEF Field
    <3> QED
      BY <3>3 DEF HeaderLine
  <2>4. ~AllIn(w, p, n + 1, Spaced)
    <3>1. p \in p .. n - 1 /\ w[p] \in Token
      BY <2>1 DEF NameTo, IsTok, AllIn
    <3>2. w[p] \notin Spaced /\ p \in p .. n + 1
      BY <3>1 DEF Token, Tspecial, Spaced
    <3> QED
      BY <3>2 DEF AllIn
  <2> QED
    BY <2>1, <2>2, <2>3, <2>4 DEF Described, InFirst
<1>5. CASE s = "header_value"
  <2>1. PICK p \in 1 .. n : Done(w, p) /\ HeaderLine(w, p, n) /\ ~AllIn(w, p, n, Spaced)
    BY <1>5 DEF Described
  <2>2. \/ m[2] = "expecting_newline_2" /\ w[n + 1] = "CR"
        \/ m[2] = "header_value" /\ w[n + 1] \in Text
    BY <1>5 DEF Moves
  <2>3. CASE m[2] = "expecting_newline_2" /\ w[n + 1] = "CR"
    <3>1. p \in 1 .. (n + 1) - 1 /\ (n + 1) - 1 = n
      OBVIOUS
    <3> QED
      BY <2>1, <2>3, <3>1 DEF Described, InFirst
  <2>4. CASE m[2] = "header_value" /\ w[n + 1] \in Text
    <3>1. HeaderLine(w, p, n + 1)
      <4>1. CASE Field(w, p, n)
        <5>1. PICK i \in p .. n - 1 : NameTo(w, p, i) /\ w[i + 1] = "SP" /\ AllIn(w, i + 2, n, Text)
          BY <4>1 DEF Field
        <5>2. AllIn(w, i + 2, n + 1, Text) /\ i \in p .. (n + 1) - 1
          BY <2>4, <5>1, OneMore
        <5>3. Field(w, p, n + 1)
          BY <5>1, <5>2 DEF Field
        <5> QED
          BY <5>3 DEF HeaderLine
      <4>2. CASE Folded(w, p, n) /\ Later(w, p)
        <5>1. PICK i \in p .. n : AllIn(w, p, i, Spaced) /\ AllIn(w, i + 1, n, Text)
          BY <4>2 DEF Folded
        <5>2. AllIn(w, i + 1, n + 1, Text) /\ i \in p .. n + 1
          BY <2>4, <5>1, OneMore
        <5> QED
          BY <4>2, <5>1, <5>2 DEF Folded, HeaderLine
      <4> QED
        BY <2>1, <4>1, <4>2 DEF HeaderLine
    <3>2. ~AllIn(w, p, n + 1, Spaced)
      BY <2>1 DEF AllIn
    <3> QED
      BY <2>1, <2>4, <3>1, <3>2 DEF Described, InFirst
  <2> QED
    BY <2>2, <2>3, <2>4
<1>6. CASE s = "expecting_newline_2"
  <2>1. w[n] = "CR" /\ \E p \in 1 .. n - 1 : Done(w, p) /\ HeaderLine(w, p, n - 1)
    BY <1>6 DEF Described
  <2>2. m[2] = "header_line_start" /\ w[n + 1] = "LF"
    BY <1>6 DEF Moves
  <2>3. Done(w, n + 2) /\ Later(w, n + 2) /\ (n + 1) + 1 = n + 2
    BY <2>1, <2>2, NextDone
  <2> QED
    BY <2>2, <2>3 DEF Described, InFirst
<1> QED
  BY <1>1, <1>2, <1>3, <1>4, <1>5, <1>6 DEF InHeaders

----------------------------------------------------------------------------
(* What is described is a request.                                         *)

LEMMA Part ==
  ASSUME NEW S, NEW w \in Seq(S), NEW a \in Nat \ {0}, NEW b \in Nat, b <= Len(w), a <= b + 1
  PROVE  /\ SubSeq(w, a, b) \in Seq(S) /\ Len(SubSeq(w, a, b)) = b - a + 1
         /\ \A k \in 1 .. b - a + 1 : SubSeq(w, a, b)[k] = w[a + k - 1]
OBVIOUS

LEMMA SubPart ==
  ASSUME NEW S, NEW w \in Seq(S), NEW a \in Nat \ {0}, NEW b \in Nat, b <= Len(w), a <= b + 1,
         NEW c \in Nat \ {0}, NEW d \in Nat, d <= b - a + 1, c <= d + 1
  PROVE  SubSeq(SubSeq(w, a, b), c, d) = SubSeq(w, a + c - 1, a + d - 1)
<1> DEFINE x == SubSeq(w, a, b)
           y == SubSeq(x, c, d)
           z == SubSeq(w, a + c - 1, a + d - 1)
<1>1. x \in Seq(S) /\ Len(x) = b - a + 1 /\ \A k \in 1 .. b - a + 1 : x[k] = w[a + k - 1]
  BY Part
<1> HIDE DEF x
<1>2. y \in Seq(S) /\ Len(y) = d - c + 1 /\ \A k \in 1 .. d - c + 1 : y[k] = x[c + k - 1]
  BY <1>1, Part
<1>3. z \in Seq(S) /\ Len(z) = d - c + 1 /\ \A k \in 1 .. d - c + 1 : z[k] = w[a + c - 1 + k - 1]
  <2>1. /\ a + c - 1 \in Nat \ {0} /\ a + d - 1 \in Nat /\ a + d - 1 <= Len(w)
        /\ a + c - 1 <= (a + d - 1) + 1 /\ (a + d - 1) - (a + c - 1) + 1 = d - c + 1
    OBVIOUS
  <2> QED
    BY <2>1, Part
<1> HIDE DEF y, z
<1>4. \A k \in 1 .. d - c + 1 : y[k] = z[k]
  <2> TAKE k \in 1 .. d - c + 1
  <2>1. c + k - 1 \in 1 .. b - a + 1 /\ a + (c + k - 1) - 1 = a + c - 1 + k - 1
    OBVIOUS
  <2> QED
    BY <1>1, <1>2, <1>3, <2>1
<1>5. y = z
  BY <1>2, <1>3, <1>4, SeqEqual
<1> QED
  BY <1>5 DEF x, y, z

LEMMA PartIn ==
  ASSUME NEW w \in Seq(Chars), NEW a \in Nat \ {0}, NEW b \in Nat, b <= Len(w), a <= b + 1,
         NEW S, AllIn(w, a, b, S)
  PROVE  Set(SubSeq(w, a, b)) \subseteq S
<1> DEFINE x == SubSeq(w, a, b)
<1>1. Len(x) = b - a + 1 /\ \A k \in 1 .. b - a + 1 : x[k] = w[a + k - 1]
  BY Part
<1> HIDE DEF x
<1>2. \A k \in 1 .. Len(x) : x[k] \in S
  <2> TAKE k \in 1 .. Len(x)
  <2>1. a + k - 1 \in a .. b
    BY <1>1
  <2> QED
    BY <1>1, <2>1 DEF AllIn
<1> QED
  BY <1>2 DEF x, Set

LEMMA TokenPart ==
  ASSUME NEW w \in Seq(Chars), NEW a \in Nat \ {0}, NEW b \in Nat, b <= Len(w), IsTok(w, a, b)
  PROVE  IsToken(SubSeq(w, a, b))
<1>1. a <= b /\ Set(SubSeq(w, a, b)) \subseteq Token
  BY PartIn DEF IsTok
<1>2. Len(SubSeq(w, a, b)) = b - a + 1
  BY <1>1, Part
<1>3. SubSeq(w, a, b) # <<>>
  BY <1>1, <1>2
<1> QED
  BY <1>1, <1>3 DEF IsToken

LEMMA NumberPart ==
  ASSUME NEW w \in Seq(Chars), NEW a \in Nat \ {0}, NEW b \in Nat, b <= Len(w), IsNum(w, a, b)
  PROVE  IsNumber(SubSeq(w, a, b))
<1> DEFINE x == SubSeq(w, a, b)
<1>1. a <= b /\ Set(x) \subseteq {"DIGIT"}
  BY PartIn DEF IsNum
<1>2. Len(x) = b - a + 1
  BY <1>1, Part
<1> HIDE DEF x
<1>3. x # <<>> /\ x[1] \in Set(x)
  BY <1>1, <1>2 DEF Set
<1>4. Set(x) = {"DIGIT"}
  BY <1>1, <1>3
<1> QED
  BY <1>3, <1>4 DEF x, IsNumber

LEMMA FirstLinePart ==
  ASSUME NEW w \in Seq(Chars), NEW e \in Nat, e <= Len(w), FirstLine(w, e)
  PROVE  IsRequestLine(SubSeq(w, 1, e))
<1> DEFINE x == SubSeq(w, 1, e)
<1>1. PICK k \in 1 .. e : MajorTo(w, k) /\ IsNum(w, k + 1, e)
  BY DEF FirstLine
<1>2. PICK j \in 1 .. k : SlashTo(w, j) /\ IsNum(w, j + 6, k - 1) /\ w[k] = "."
  BY <1>1 DEF MajorTo
<1>3. PICK i \in 1 .. j - 1 : /\ MethodTo(w, i) /\ AllIn(w, i + 1, j - 1, Text \ {"SP"})
                             /\ w[j] = "SP"
  BY <1>2 DEF SlashTo, UriTo
<1>4. 1 <= i - 1 /\ j + 6 <= k - 1 /\ k + 1 <= e /\ w[i] = "SP"
  BY <1>1, <1>2, <1>3 DEF MethodTo, IsTok, IsNum
<1>5. Len(x) = e /\ \A l \in 1 .. e : x[l] = w[l]
  BY Part
<1>6. /\ SubSeq(x, 1, i - 1) = SubSeq(w, 1, i - 1) /\ SubSeq(x, i + 1, j - 1) = SubSeq(w, i + 1, j - 1)
      /\ SubSeq(x, j + 1, e) = SubSeq(w, j + 1, e)
  <2>1. SubSeq(x, 1, i - 1) = SubSeq(w, 1 + 1 - 1, 1 + (i - 1) - 1)
    BY <1>4, SubPart
  <2>2. SubSeq(x, i + 1, j - 1) = SubSeq(w, 1 + (i + 1) - 1, 1 + (j - 1) - 1)
    BY <1>4, SubPart
  <2>3. SubSeq(x, j + 1, e) = SubSeq(w, 1 + (j + 1) - 1, 1 + e - 1)
    BY <1>4, SubPart
  <2> QED
    BY <2>1, <2>2, <2>3
<1> HIDE DEF x
<1>7. IsToken(SubSeq(x, 1, i - 1))
  <2>1. IsTok(w, 1, i - 1) /\ i - 1 \in Nat /\ i - 1 <= Len(w)
    BY <1>3, <1>4 DEF MethodTo
  <2>2. IsToken(SubSeq(w, 1, i - 1))
    BY <2>1, TokenPart
  <2> QED
    BY <1>6, <2>2
<1>8. Set(SubSeq(x, i + 1, j - 1)) \cap (Ctl \cup {"SP"}) = {}
  <2>1. Set(SubSeq(w, i + 1, j - 1)) \subseteq Text \ {"SP"}
    BY <1>3, <1>4, PartIn
  <2> QED
    BY <1>6, <2>1 DEF Text
<1> DEFINE v == SubSeq(w, j + 1, e)
<1>9. IsVersion(v)
  <2>1. /\ v \in Seq(Chars) /\ Len(v) = e - j /\ \A l \in 1 .. e - j : v[l] = w[j + l]
        /\ e - j \in Nat /\ e - j > 6
    <3>1. e - (j + 1) + 1 = e - j /\ \A l \in Nat : (j + 1) + l - 1 = j + l
      OBVIOUS
    <3> QED
      BY <1>4, <3>1, Part
  <2>2. SubSeq(v, 6, k - j - 1) = SubSeq(w, j + 6, k - 1)
    <3>1. SubSeq(v, 6, k - j - 1) = SubSeq(w, (j + 1) + 6 - 1, (j + 1) + (k - j - 1) - 1)
      BY <1>4, SubPart
    <3> QED
      BY <3>1
  <2>3. SubSeq(v, k - j + 1, e - j) = SubSeq(w, k + 1, e)
    <3>1. SubSeq(v, k - j + 1, e - j) = SubSeq(w, (j + 1) + (k - j + 1) - 1, (j + 1) + (e - j) - 1)
      BY <1>4, SubPart
    <3> QED
      BY <3>1
  <2> HIDE DEF v
  <2>4. SubSeq(v, 1, 5) = <<"H", "T", "T", "P", "/">>
    <3>1. /\ SubSeq(v, 1, 5) \in Seq(Chars) /\ Len(SubSeq(v, 1, 5)) = 5
          /\ \A l \in 1 .. 5 : SubSeq(v, 1, 5)[l] = v[l]
      BY <1>4, <2>1
    <3>2. v[1] = "H" /\ v[2] = "T" /\ v[3] = "T" /\ v[4] = "P" /\ v[5] = "/"
      <4>1. \A l \in {1, 2, 3, 4, 5} : v[l] = w[j + l]
        BY <2>1
      <4>2. /\ w[j + 1] = "H" /\ w[j + 2] = "T" /\ w[j + 3] = "T" /\ w[j + 4] = "P"
            /\ w[j + 5] = "/"
        BY <1>2 DEF SlashTo
      <4> QED
        BY <4>1, <4>2
    <3> DEFINE y == SubSeq(v, 1, 5)
    <3>3. y[1] = "H" /\ y[2] = "T" /\ y[3] = "T" /\ y[4] = "P" /\ y[5] = "/"
      BY <3>1, <3>2
    <3> HIDE DEF y
    <3>4. y \in Seq(Chars) /\ Len(y) = 5
      BY <3>1 DEF y
    <3>5. y = <<"H", "T", "T", "P", "/">>
      BY <3>3, <3>4
    <3> QED
      BY <3>5 DEF y
  <2>5. IsNumber(SubSeq(v, 6, k - j - 1))
    <3>1. j + 6 \in Nat \ {0} /\ k - 1 \in Nat /\ k - 1 <= Len(w)
      BY <1>4
    <3>2. IsNumber(SubSeq(w, j + 6, k - 1))
      BY <1>2, <3>1, NumberPart
    <3> QED
      BY <2>2, <3>2
  <2>6. IsNumber(From(v, k - j + 1))
    <3>1. IsNumber(SubSeq(w, k + 1, e))
      BY <1>1, <1>4, NumberPart
    <3>2. From(v, k - j + 1) = SubSeq(v, k - j + 1, e - j)
      BY <2>1 DEF From
    <3> QED
      BY <2>3, <3>1, <3>2
  <2>7. k - j \in 6 .. Len(v) /\ v[k - j] = "." /\ Len(v) > 5
    BY <1>2, <1>4, <2>1
  <2> QED
    BY <2>4, <2>5, <2>6, <2>7 DEF IsVersion
<1>10. IsVersion(From(x, j + 1))
  BY <1>5, <1>6, <1>9 DEF From
<1>11. i \in 1 .. Len(x) /\ j \in i + 1 .. Len(x) /\ x[i] = "SP" /\ x[j] = "SP"
  BY <1>3, <1>4, <1>5
<1>12. IsRequestLine(x)
  BY <1>7, <1>8, <1>10, <1>11 DEF IsRequestLine
<1> QED
  BY <1>12 DEF x

LEMMA TextPart ==
  ASSUME NEW w \in Seq(Chars), NEW a \in Nat \ {0}, NEW b \in Nat, b <= Len(w), a <= b + 1,
         AllIn(w, a, b, Text)
  PROVE  Set(SubSeq(w, a, b)) \cap Ctl = {}
<1>1. Set(SubSeq(w, a, b)) \subseteq Text
  BY PartIn
<1> QED
  BY <1>1 DEF Text

LEMMA FieldPart ==
  ASSUME NEW w \in Seq(Chars), NEW p \in Nat \ {0}, NEW e \in Nat, e <= Len(w), Field(w, p, e)
  PROVE  IsHeader(SubSeq(w, p, e))
<1> DEFINE x == SubSeq(w, p, e)
<1>1. PICK i \in p .. e - 1 : NameTo(w, p, i) /\ w[i + 1] = "SP" /\ AllIn(w, i + 2, e, Text)
  BY DEF Field
<1>2. p <= i - 1 /\ w[i] = ":" /\ IsTok(w, p, i - 1)
  BY <1>1 DEF NameTo, IsTok
<1> DEFINE l == i - p + 1
<1>3. Len(x) = e - p + 1 /\ x[l] = ":" /\ x[l + 1] = "SP" /\ l \in 1 .. Len(x) - 1
  <2>1. Len(x) = e - p + 1 /\ \A k \in 1 .. e - p + 1 : x[k] = w[p + k - 1]
    BY <1>2, Part
  <2>2. l \in 1 .. e - p /\ l + 1 \in 1 .. e - p + 1 /\ p + l - 1 = i /\ p + (l + 1) - 1 = i + 1
    BY <1>2
  <2> HIDE DEF x, l
  <2>3. x[l] = w[i] /\ x[l + 1] = w[i + 1]
    BY <2>1, <2>2
  <2> QED
    BY <1>1, <1>2, <2>1, <2>2, <2>3
<1>4. SubSeq(x, 1, l - 1) = SubSeq(w, p, i - 1)
  <2>1. SubSeq(x, 1, l - 1) = SubSeq(w, p + 1 - 1, p + (l - 1) - 1)
    BY <1>2, SubPart
  <2> QED
    BY <2>1
<1>5. SubSeq(x, l + 2, e - p + 1) = SubSeq(w, i + 2, e)
  <2>1. SubSeq(x, l + 2, e - p + 1) = SubSeq(w, p + (l + 2) - 1, p + (e - p + 1) - 1)
    BY <1>2, SubPart
  <2> QED
    BY <2>1
<1>6. IsToken(SubSeq(x, 1, l - 1))
  <2>1. i - 1 \in Nat /\ i - 1 <= Len(w)
    BY <1>2
  <2>2. IsToken(SubSeq(w, p, i - 1))
    BY <1>2, <2>1, TokenPart
  <2> QED
    BY <1>4, <2>2
<1>7. Set(From(x, l + 2)) \cap Ctl = {}
  <2>1. i + 2 \in Nat \ {0} /\ i + 2 <= e + 1
    BY <1>2
  <2>2. Set(SubSeq(w, i + 2, e)) \cap Ctl = {}
    BY <1>1, <2>1, TextPart
  <2>3. From(x, l + 2) = SubSeq(x, l + 2, e - p + 1)
    BY <1>3 DEF From
  <2> QED
    BY <1>5, <2>2, <2>3
<1> HIDE DEF x, l
<1>8. IsHeader(x)
  BY <1>3, <1>6, <1>7 DEF IsHeader
<1> QED
  BY <1>8 DEF x

LEMMA FoldedPart ==
  ASSUME NEW w \in Seq(Chars), NEW p \in Nat \ {0}, NEW e \in Nat, e <= Len(w), Folded(w, p, e)
  PROVE  IsContinuation(SubSeq(w, p, e))
<1> DEFINE x == SubSeq(w, p, e)
<1>1. PICK i \in p .. e : AllIn(w, p, i, Spaced) /\ AllIn(w, i + 1, e, Text)
  BY DEF Folded
<1> DEFINE l == i - p + 1
<1>2. Len(x) = e - p + 1 /\ l \in 1 .. Len(x)
  BY Part
<1>3. SubSeq(x, 1, l) = SubSeq(w, p, i)
  <2>1. SubSeq(x, 1, l) = SubSeq(w, p + 1 - 1, p + l - 1)
    BY SubPart
  <2> QED
    BY <2>1
<1>4. SubSeq(x, l + 1, e - p + 1) = SubSeq(w, i + 1, e)
  <2>1. SubSeq(x, l + 1, e - p + 1) = SubSeq(w, p + (l + 1) - 1, p + (e - p + 1) - 1)
    BY SubPart
  <2> QED
    BY <2>1
<1>5. Set(SubSeq(x, 1, l)) \subseteq {"SP", "TAB"}
  <2>1. i \in Nat /\ i <= Len(w) /\ p <= i + 1
    OBVIOUS
  <2>2. Set(SubSeq(w, p, i)) \subseteq Spaced
    BY <1>1, <2>1, PartIn
  <2> QED
    BY <1>3, <2>2 DEF Spaced
<1>6. Set(From(x, l + 1)) \cap Ctl = {}
  <2>1. i + 1 \in Nat \ {0} /\ i + 1 <= e + 1
    OBVIOUS
  <2>2. Set(SubSeq(w, i + 1, e)) \cap Ctl = {}
    BY <1>1, <2>1, TextPart
  <2>3. From(x, l + 1) = SubSeq(x, l + 1, e - p + 1)
    BY <1>2 DEF From
  <2> QED
    BY <1>4, <2>2, <2>3
<1> HIDE DEF x, l
<1>7. IsContinuation(x)
  BY <1>2, <1>5, <1>6 DEF IsContinuation
<1> QED
  BY <1>7 DEF x

\* The line that begins at p of a text that is done before n, up to the next end.
LEMMA LineFound ==
  ASSUME NEW w \in Seq(Chars), NEW n \in Nat, n <= Len(w), Done(w, n), w[n] = "CR",
         NEW p \in 1 .. n - 1, p = 1 \/ (p >= 3 /\ w[p - 2] = "CR"),
         NEW e \in p .. n, w[e] = "CR", \A k \in p .. e - 1 : w[k] # "CR"
  PROVE  /\ e - 1 \in Nat
         /\ p = 1 => FirstLine(w, e - 1)
         /\ p # 1 => HeaderLine(w, p, e - 1)
<1>1. /\ n >= 3 /\ w[n - 2] = "CR"
      /\ \A i \in 1 .. n - 1 : w[i] = "CR" => i + 1 <= n - 1 /\ w[i + 1] = "LF" /\ LineOk(w, i)
  BY DEF Done
<1>2. p # 1 => w[p - 1] = "LF"
  <2>1. ASSUME p # 1 PROVE p - 2 \in 1 .. n - 1 /\ w[p - 2] = "CR" /\ (p - 2) + 1 = p - 1
    BY <2>1
  <2> QED
    BY <1>1, <2>1
<1>3. e <= n - 1
  <2> SUFFICES ASSUME e = n PROVE FALSE
    OBVIOUS
  <2>1. n - 2 < p
    BY <1>1
  <2>2. p = n - 1 \/ (p = 1 /\ n - 2 < 1)
    BY <2>1
  <2>3. p # n - 1 \/ p = 1
    BY <1>1, <1>2
  <2> QED
    BY <1>1, <2>1, <2>2, <2>3
<1>4. PICK q \in 1 .. e :
        /\ \A k \in q .. e - 1 : w[k] # "CR"
        /\ \/ q = 1 /\ FirstLine(w, e - 1)
           \/ q >= 3 /\ w[q - 2] = "CR" /\ HeaderLine(w, q, e - 1)
  BY <1>1, <1>3 DEF LineOk
<1>5. CASE q = 1 /\ FirstLine(w, e - 1)
  <2>1. p = 1
    <3> SUFFICES ASSUME p # 1 PROVE FALSE
      OBVIOUS
    <3>1. p - 2 \in q .. e - 1 /\ w[p - 2] = "CR"
      BY <1>5
    <3> QED
      BY <1>4, <3>1
  <2> QED
    BY <1>5, <2>1
<1>6. CASE q >= 3 /\ w[q - 2] = "CR" /\ HeaderLine(w, q, e - 1)
  <2>1. w[q - 1] = "LF"
    <3>1. q - 2 \in 1 .. n - 1 /\ (q - 2) + 1 = q - 1
      BY <1>3, <1>6
    <3> QED
      BY <1>1, <1>6, <3>1
  <2>2. q - 2 \notin p .. e - 1
    BY <1>6
  <2>3. q <= p + 1 /\ p # 1
    BY <1>6, <2>2
  <2>4. q # p + 1
    BY <1>2, <1>6, <2>3
  <2>5. p - 2 \notin q .. e - 1
    BY <1>4, <2>3
  <2>6. q >= p - 1
    BY <2>3, <2>5
  <2>7. q # p - 1
    BY <2>1, <2>3
  <2>8. q = p
    BY <2>3, <2>4, <2>6, <2>7
  <2> QED
    BY <1>6, <2>3, <2>8
<1> QED
  BY <1>4, <1>5, <1>6

\* A text that is done, with one empty line more.
LEMMA Sound ==
  ASSUME NEW w \in Seq(Chars), NEW n \in Nat, n + 1 <= Len(w), Done(w, n), w[n] = "CR",
         w[n + 1] = "LF"
  PROVE  IsRequest(SubSeq(w, 1, n + 1))
<1> DEFINE x == SubSeq(w, 1, n + 1)
           ends == {i \in 1 .. Len(x) : x[i] = "CR"}
           starts == {1} \cup {i + 2 : i \in ends}
           End(p) == CHOOSE q \in ends : q >= p /\ \A r \in ends : r >= p => q <= r
<1>1. /\ n >= 3 /\ w[n - 2] = "CR"
      /\ \A i \in 1 .. n - 1 : w[i] = "CR" => i + 1 <= n - 1 /\ w[i + 1] = "LF" /\ LineOk(w, i)
  BY DEF Done
<1>2. w[n - 1] = "LF" /\ LineOk(w, n - 2)
  <2>1. n - 2 \in 1 .. n - 1 /\ (n - 2) + 1 = n - 1
    BY <1>1
  <2> QED
    BY <1>1, <2>1
<1>3. n >= 4
  <2>1. PICK q \in 1 .. n - 2 : FirstLine(w, n - 2 - 1) \/ HeaderLine(w, q, n - 2 - 1)
    BY <1>2 DEF LineOk
  <2>2. n - 3 \in Int /\ n - 2 - 1 = n - 3
    OBVIOUS
  <2>3. FirstLine(w, n - 3) => n - 3 >= 1
    BY <2>2, FirstLineHasNoEnds
  <2>4. HeaderLine(w, q, n - 3) => q <= n - 3
    BY <2>1, <2>2, HeaderLineHasNoEnds
  <2> QED
    BY <2>1, <2>2, <2>3, <2>4
<1>4. x \in Seq(Chars) /\ Len(x) = n + 1 /\ \A k \in 1 .. n + 1 : x[k] = w[k]
  BY Part
<1>5. ASSUME NEW a \in Nat \ {0}, NEW b \in Nat, b <= n + 1, a <= b + 1
      PROVE  SubSeq(x, a, b) = SubSeq(w, a, b)
  <2>1. SubSeq(x, a, b) = SubSeq(w, 1 + a - 1, 1 + b - 1)
    BY <1>5, SubPart
  <2>2. 1 + a - 1 = a /\ 1 + b - 1 = b
    OBVIOUS
  <2> HIDE DEF x
  <2> QED
    BY <2>1, <2>2
<1>6. From(x, Len(x) - 3) = <<"CR", "LF", "CR", "LF">>
  <2> DEFINE y == SubSeq(x, n - 2, n + 1)
  <2>1. /\ y \in Seq(Chars) /\ Len(y) = 4
        /\ \A k \in 1 .. 4 : y[k] = x[n - 2 + k - 1]
    <3>1. n - 2 \in Nat \ {0} /\ (n + 1) - (n - 2) + 1 = 4
      BY <1>1
    <3> QED
      BY <1>4, <3>1, Part
  <2> HIDE DEF y
  <2> HIDE DEF x
  <2>2. y[1] = x[n - 2] /\ y[2] = x[n - 1] /\ y[3] = x[n] /\ y[4] = x[n + 1]
    <3>1. \A k \in {1, 2, 3, 4} : y[k] = x[n - 2 + k - 1]
      BY <2>1
    <3>2. /\ n - 2 + 1 - 1 = n - 2 /\ n - 2 + 2 - 1 = n - 1 /\ n - 2 + 3 - 1 = n
          /\ n - 2 + 4 - 1 = n + 1
      OBVIOUS
    <3> QED
      BY <3>1, <3>2
  <2>3. y[1] = "CR" /\ y[2] = "LF" /\ y[3] = "CR" /\ y[4] = "LF"
    BY <1>1, <1>2, <1>4, <2>2
  <2>4. y = <<"CR", "LF", "CR", "LF">>
    BY <2>1, <2>3
  <2>5. Len(x) - 3 = n - 2
    BY <1>4
  <2> QED
    BY <1>4, <2>4, <2>5 DEF From, y
<1> HIDE DEF x
<1>7. \A i \in 1 .. n + 1 : i \in ends <=> w[i] = "CR"
  BY <1>4
<1>8. \A i \in ends : i \in 1 .. n /\ w[i] = "CR" /\ x[i + 1] = "LF"
  <2> TAKE i \in ends
  <2>1. i \in 1 .. n + 1 /\ w[i] = "CR" /\ i # n + 1
    BY <1>4
  <2>2. w[i + 1] = "LF" /\ i + 1 \in 1 .. n + 1
    BY <1>1, <2>1
  <2> QED
    BY <1>4, <2>1, <2>2
<1>9. n \in ends /\ ends \subseteq Nat
  <2>1. n \in 1 .. Len(x) /\ x[n] = "CR"
    BY <1>3, <1>4
  <2>2. n \in ends
    BY <2>1
  <2>3. ends \subseteq Nat
    BY <1>4
  <2> QED
    BY <2>2, <2>3
<1>10. ASSUME NEW p \in 1 .. n
       PROVE  /\ End(p) \in ends /\ End(p) \in p .. n /\ w[End(p)] = "CR"
              /\ \A k \in p .. End(p) - 1 : w[k] # "CR"
  <2> DEFINE T == {q \in ends : q >= p}
  <2>1. PICK q \in T : \A r \in T : q <= r
    <3>1. T \subseteq Nat /\ n \in T
      BY <1>9
    <3> HIDE DEF T
    <3> QED
      BY <3>1, LeastNumber
  <2>2. \E q1 \in ends : q1 >= p /\ \A r \in ends : r >= p => q1 <= r
    BY <2>1
  <2>3. End(p) \in ends /\ End(p) >= p /\ \A r \in ends : r >= p => End(p) <= r
    BY <2>2
  <2> HIDE DEF End
  <2>4. End(p) \in 1 .. n /\ w[End(p)] = "CR"
    BY <1>8, <2>3
  <2>5. ASSUME NEW k \in p .. End(p) - 1 PROVE w[k] # "CR"
    <3>1. k \in 1 .. n + 1 /\ k \notin ends
      BY <2>3, <2>4
    <3> QED
      BY <1>7, <3>1
  <2> QED
    BY <2>3, <2>4, <2>5
<1> HIDE DEF End
<1>11. ASSUME NEW p \in starts \ {Len(x) + 1}
       PROVE  LET line == SubSeq(x, p, End(p) - 1)
                  second == \E q \in ends : p = q + 2 /\ \A r \in ends : q <= r
              IN  CASE p = 1 -> IsRequestLine(line)
                    [] p = Len(x) - 1 -> line = <<>>
                    [] OTHER -> IsHeader(line) \/ (IsContinuation(line) /\ ~second)
  <2>1. p \in 1 .. n /\ (p = 1 \/ (p >= 3 /\ w[p - 2] = "CR"))
    <3>1. CASE p = 1
      BY <1>1, <3>1
    <3>2. ASSUME NEW i \in ends, p = i + 2 PROVE p \in 1 .. n /\ p >= 3 /\ w[p - 2] = "CR"
      <4>1. i \in 1 .. n - 1 /\ w[i] = "CR"
        BY <1>4, <1>8, <3>2
      <4>2. i + 1 <= n - 1
        BY <1>1, <4>1
      <4> QED
        BY <3>2, <4>1, <4>2
    <3> QED
      BY <3>1, <3>2
  <2> DEFINE e == End(p)
             line == SubSeq(x, p, e - 1)
  <2>2. e \in p .. n /\ w[e] = "CR" /\ \A k \in p .. e - 1 : w[k] # "CR"
    BY <1>10, <2>1
  <2> HIDE DEF e
  <2>3. line = SubSeq(w, p, e - 1)
    <3>1. p \in Nat \ {0} /\ e - 1 \in Nat /\ e - 1 <= n + 1 /\ p <= (e - 1) + 1
      BY <2>1, <2>2
    <3> QED
      BY <1>5, <3>1
  <2> HIDE DEF line
  <2>4. CASE p = n
    <3>1. e = n
      BY <2>2, <2>4
    <3>2. line = <<>>
      BY <2>3, <2>4, <3>1
    <3>3. p # 1 /\ p = Len(x) - 1
      BY <1>3, <1>4, <2>4
    <3> QED
      BY <3>2, <3>3 DEF line, e
  <2>5. CASE p # n
    <3>0. p \in 1 .. n - 1 /\ p # Len(x) - 1 /\ n <= Len(w)
      BY <1>4, <2>1, <2>5
    <3>1. /\ e - 1 \in Nat
          /\ p = 1 => FirstLine(w, e - 1)
          /\ p # 1 => HeaderLine(w, p, e - 1)
      BY <2>1, <2>2, <3>0, LineFound
    <3>2. e - 1 <= Len(w) /\ p \in Nat \ {0}
      BY <2>1, <2>2
    <3>3. CASE p = 1
      <4>1. IsRequestLine(SubSeq(w, 1, e - 1))
        BY <3>1, <3>2, <3>3, FirstLinePart
      <4>2. IsRequestLine(line)
        BY <2>3, <3>3, <4>1
      <4> QED
        BY <3>0, <3>3, <4>2 DEF line, e
    <3>4. CASE p # 1
      <4>1. CASE Field(w, p, e - 1)
        <5>1. IsHeader(line)
          BY <2>3, <3>1, <3>2, <4>1, FieldPart
        <5> QED
          BY <3>0, <3>4, <5>1 DEF line, e
      <4>2. CASE Folded(w, p, e - 1) /\ Later(w, p)
        <5>1. IsContinuation(line)
          BY <2>3, <3>1, <3>2, <4>2, FoldedPart
        <5>2. PICK k \in 1 .. p - 3 : w[k] = "CR"
          BY <4>2 DEF Later
        <5>3. k \in ends /\ k < p - 2
          BY <1>7, <2>1, <5>2
        <5>4. ~\E q \in ends : p = q + 2 /\ \A r \in ends : q <= r
          BY <1>9, <5>3
        <5> QED
          BY <3>0, <3>4, <5>1, <5>4 DEF line, e
      <4> QED
        BY <3>1, <3>4, <4>1, <4>2 DEF HeaderLine
    <3> QED
      BY <3>3, <3>4
  <2> QED
    BY <2>4, <2>5
<1>12. Len(x) > 4 /\ \A i \in ends : x[i + 1] = "LF"
  BY <1>3, <1>4, <1>8
<1>13. IsRequest(x)
  BY <1>6, <1>11, <1>12 DEF IsRequest, End
<1> QED
  BY <1>13 DEF x

----------------------------------------------------------------------------
(* "good" at the last character of a request, and only then.               *)

\* No other state is one a request can end in.
LEMMA EndsTwice ==
  ASSUME NEW w \in Seq(Chars), NEW n \in Nat, n + 1 <= Len(w), IsRequest(SubSeq(w, 1, n + 1)),
         NEW h \in BOOLEAN, NEW s \in States, Described(w, s, n, h)
  PROVE  s = "expecting_newline_3" /\ w[n + 1] = "LF"
<1> DEFINE x == SubSeq(w, 1, n + 1)
<1>1. Len(x) = n + 1 /\ x \in Seq(Chars) /\ \A k \in 1 .. n + 1 : x[k] = w[k]
  BY Part
<1> HIDE DEF x
<1>2. n + 1 > 4 /\ SubSeq(x, n - 2, n + 1) = <<"CR", "LF", "CR", "LF">>
  <2>1. Len(x) > 4 /\ From(x, Len(x) - 3) = <<"CR", "LF", "CR", "LF">>
    BY DEF x, IsRequest
  <2>2. Len(x) - 3 = n - 2
    BY <1>1
  <2> QED
    BY <1>1, <2>1, <2>2 DEF From
<1>3. w[n - 1] = "LF" /\ w[n] = "CR" /\ w[n + 1] = "LF"
  <2> DEFINE y == SubSeq(x, n - 2, n + 1)
  <2>1. \A k \in {2, 3, 4} : y[k] = x[n - 2 + k - 1]
    <3>1. n - 2 \in Nat \ {0} /\ (n + 1) - (n - 2) + 1 = 4
      BY <1>2
    <3>2. \A k \in 1 .. 4 : y[k] = x[n - 2 + k - 1]
      BY <1>1, <3>1, Part
    <3> QED
      BY <3>2
  <2>0. y = <<"CR", "LF", "CR", "LF">>
    BY <1>2
  <2> HIDE DEF y
  <2>2. y[2] = "LF" /\ y[3] = "CR" /\ y[4] = "LF"
    BY <2>0
  <2>3. x[n - 1] = "LF" /\ x[n] = "CR" /\ x[n + 1] = "LF"
    <3>1. n - 2 + 2 - 1 = n - 1 /\ n - 2 + 3 - 1 = n /\ n - 2 + 4 - 1 = n + 1
      OBVIOUS
    <3> QED
      BY <2>1, <2>2, <3>1
  <2> QED
    BY <1>1, <1>2, <2>3
<1>4. ASSUME NEW S \in {Token, Text, Text \ {"SP"}, Spaced, {"DIGIT"}}, NEW a \in 1 .. n,
             AllIn(w, a, n, S)
      PROVE  FALSE
  <2>1. NoEnds(w, a, n)
    BY <1>4, PartHasNoEnds
  <2>2. n \in a .. n
    OBVIOUS
  <2> QED
    BY <1>3, <2>1, <2>2 DEF NoEnds
<1>5. s # "method_start" /\ s # "method"
  BY <1>2, <1>4 DEF Described, IsTok
<1>6. s \notin {"uri", "http_version_h", "http_version_t_1", "http_version_t_2",
                "http_version_p", "http_version_slash", "http_version_major_start",
                "http_version_minor_start"}
  <2>1. w[n] = "CR" /\ (n - 1) + 1 = n /\ (n - 5) + 5 = n
    BY <1>3
  <2>2. s # "uri"
    <3> SUFFICES ASSUME s = "uri" PROVE FALSE
      OBVIOUS
    <3>1. PICK i \in 1 .. n : w[i] = "SP" /\ AllIn(w, i + 1, n, Text \ {"SP"})
      BY DEF Described, MethodTo
    <3>2. i # n
      BY <2>1, <3>1
    <3>3. i + 1 \in 1 .. n
      BY <3>2
    <3> QED
      BY <1>4, <3>1, <3>3
  <2> QED
    BY <2>1, <2>2 DEF Described, UriTo, SlashTo, MajorTo
<1>7. s # "http_version_major"
  <2> SUFFICES ASSUME s = "http_version_major" PROVE FALSE
    OBVIOUS
  <2>1. PICK j \in 1 .. n : IsNum(w, j + 6, n)
    BY DEF Described
  <2> QED
    BY <1>4, <2>1 DEF IsNum
<1>8. s # "http_version_minor"
  <2> SUFFICES ASSUME s = "http_version_minor" PROVE FALSE
    OBVIOUS
  <2>1. FirstLine(w, n)
    BY DEF Described
  <2>2. NoEnds(w, 1, n) /\ n >= 1
    BY <2>1, FirstLineHasNoEnds
  <2> QED
    BY <1>3, <2>2 DEF NoEnds
<1>9. s # "expecting_newline_1"
  <2> SUFFICES ASSUME s = "expecting_newline_1" PROVE FALSE
    OBVIOUS
  <2>1. FirstLine(w, n - 1) /\ n - 1 \in Int
    BY DEF Described
  <2>2. NoEnds(w, 1, n - 1) /\ n - 1 >= 1
    BY <2>1, FirstLineHasNoEnds
  <2> QED
    BY <1>3, <2>2 DEF NoEnds
<1>10. s # "header_line_start"
  <2> SUFFICES ASSUME s = "header_line_start" PROVE FALSE
    OBVIOUS
  <2>1. Done(w, n + 1)
    BY DEF Described
  <2>2. n \in 1 .. (n + 1) - 1 /\ w[n] = "CR" /\ ~(n + 1 <= (n + 1) - 1)
    BY <1>2, <1>3
  <2> QED
    BY <2>1, <2>2 DEF Done
<1>11. s \notin {"header_lws", "header_name"}
  BY <1>4 DEF Described, IsTok
<1>12. s # "space_before_header_value"
  BY <1>3 DEF Described, NameTo
<1>13. s # "header_value"
  <2> SUFFICES ASSUME s = "header_value" PROVE FALSE
    OBVIOUS
  <2>1. PICK p \in 1 .. n : HeaderLine(w, p, n)
    BY DEF Described
  <2>2. NoEnds(w, p, n) /\ p <= n
    BY <2>1, HeaderLineHasNoEnds
  <2> QED
    BY <1>3, <2>2 DEF NoEnds
<1>14. s # "expecting_newline_2"
  <2> SUFFICES ASSUME s = "expecting_newline_2" PROVE FALSE
    OBVIOUS
  <2>1. PICK p \in 1 .. n - 1 : HeaderLine(w, p, n - 1)
    BY DEF Described
  <2>2. NoEnds(w, p, n - 1) /\ p <= n - 1
    BY <2>1, HeaderLineHasNoEnds
  <2> QED
    BY <1>3, <2>2 DEF NoEnds
<1> QED
  BY <1>3, <1>5, <1>6, <1>7, <1>8, <1>9, <1>10, <1>11, <1>12, <1>13, <1>14 DEF States

\* The description holds as long as more is to come; "good" is said of requests
\* and of nothing else.
PInv ==
  /\ IInv /\ pos <= Len(input)
  /\ result = "indeterminate" => Described(input, state, pos, headers # <<>>)
  /\ GoodIffRequest

\* The first line has no headers to add to.
LEMMA FirstLineTargets ==
  ASSUME NEW h \in BOOLEAN, NEW s \in InFirst, NEW m \in Moves(h)[s]
  PROVE  m[2] \notin {"header_value", "header_name"}
<1>1. CASE s \in {"method_start", "method", "uri", "http_version_h", "http_version_t_1"}
  BY <1>1 DEF Moves
<1>2. CASE s \in {"http_version_t_2", "http_version_p", "http_version_slash",
                  "http_version_major_start"}
  BY <1>2 DEF Moves
<1>3. CASE s \in {"http_version_major", "http_version_minor_start", "http_version_minor",
                  "expecting_newline_1"}
  BY <1>3 DEF Moves
<1> QED
  BY <1>1, <1>2, <1>3 DEF InFirst

LEMMA PlacedInit == Init => PInv
<1> SUFFICES ASSUME Init PROVE PInv
  OBVIOUS
<1>1. IInv /\ pos = 0 /\ input \in Seq(Chars)
  BY KeptInit, InputsAssumption DEF Init
<1>2. ~IsRequest(Seen)
  <2>1. Seen \in Seq(Chars) /\ Len(Seen) = 0
    BY <1>1, Part DEF Seen
  <2> QED
    BY <2>1 DEF IsRequest
<1>3. Described(input, "method_start", 0, FALSE)
  BY DEF Described
<1>4. pos <= Len(input)
  BY <1>1
<1> QED
  BY <1>1, <1>2, <1>3, <1>4 DEF Init, PInv, GoodIffRequest

LEMMA PlacedStep == PInv /\ [Next]_vars => PInv'
<1> SUFFICES ASSUME PInv, [Next]_vars PROVE PInv'
  OBVIOUS
<1>1. CASE UNCHANGED vars
  BY <1>1 DEF vars, req, PInv, IInv, HasHeader, GoodIffRequest, Seen
<1>2. CASE Next
  <2> DEFINE c == input[pos + 1]
             h == headers # <<>>
  <2>1. /\ Consume(c) /\ pos' = pos + 1 /\ input' = input /\ pos + 1 <= Len(input)
        /\ result = "indeterminate" /\ input \in Seq(Chars) /\ pos \in Nat /\ state \in States
    BY <1>2 DEF Next, PInv, IInv
  <2>2. IInv'
    BY <1>2, KeptStep DEF PInv
  <2>3. Described(input, state, pos, h) /\ pos' <= Len(input')
    BY <2>1 DEF PInv
  <2>4. Seen' = SubSeq(input, 1, pos + 1)
    BY <2>1 DEF Seen
  <2>5. IsRequest(Seen') => state = "expecting_newline_3" /\ c = "LF"
    BY <2>1, <2>3, <2>4, EndsTwice
  <2> HIDE DEF c, h
  <2>6. CASE /\ \A m \in Moves(h)[state] : c \notin m[1]
             /\ result' = "bad"
    <3>1. ~(state = "expecting_newline_3" /\ c = "LF")
      <4> SUFFICES ASSUME state = "expecting_newline_3", c = "LF" PROVE FALSE
        OBVIOUS
      <4>1. <<LastNewline, "good">> \in Moves(h)[state]
        BY DEF Moves
      <4>2. c \notin <<LastNewline, "good">>[1]
        BY <2>6, <4>1
      <4> QED
        BY <4>2 DEF LastNewline
    <3> QED
      BY <2>2, <2>3, <2>5, <2>6, <3>1 DEF PInv, GoodIffRequest
  <2>7. ASSUME NEW m \in Moves(h)[state], c \in m[1],
               result' = (IF m[2] = "good" THEN "good" ELSE "indeterminate"),
               state' = (IF m[2] = "good" THEN state ELSE m[2]), Keep(c, m[2])
        PROVE  PInv'
    <3>1. CASE state = "expecting_newline_3"
      <4>1. m[2] = "good" /\ c = "LF"
        BY <2>7, <3>1 DEF Moves, LastNewline
      <4>2. input[pos] = "CR" /\ Done(input, pos) /\ input[pos + 1] = "LF"
        BY <2>3, <3>1, <4>1 DEF Described, c
      <4>3. IsRequest(Seen')
        BY <2>1, <2>4, <4>2, Sound
      <4> QED
        BY <2>2, <2>3, <2>7, <4>1, <4>3 DEF PInv, GoodIffRequest
    <3>2. CASE state \in InFirst
      <4>1. Described(input, m[2], pos + 1, h) /\ m[2] # "good"
        BY <2>1, <2>3, <2>7, <3>2, FirstLineMoves DEF c, h
      <4>2. headers' = headers
        BY <2>7, <3>2, FirstLineTargets DEF Keep, Headers, InValue, h
      <4>3. Described(input', state', pos', headers' # <<>>)
        BY <2>1, <2>7, <4>1, <4>2 DEF h
      <4>4. result' # "good" /\ ~IsRequest(Seen')
        BY <2>5, <2>7, <3>2, <4>1 DEF InFirst
      <4> QED
        BY <2>2, <2>3, <4>3, <4>4 DEF PInv, GoodIffRequest
    <3>3. CASE state \in InHeaders
      <4>1. Described(input, m[2], pos + 1, headers' # <<>>) /\ m[2] # "good"
        BY <2>1, <2>3, <2>7, <3>3, HeaderMoves DEF c, h
      <4>2. Described(input', state', pos', headers' # <<>>)
        BY <2>1, <2>7, <4>1
      <4>3. result' # "good" /\ ~IsRequest(Seen')
        BY <2>5, <2>7, <3>3, <4>1 DEF InHeaders
      <4> QED
        BY <2>2, <2>3, <4>2, <4>3 DEF PInv, GoodIffRequest
    <3> QED
      BY <2>1, <3>1, <3>2, <3>3 DEF States, InFirst, InHeaders
  <2> QED
    BY <2>1, <2>6, <2>7 DEF Consume, h
<1> QED
  BY <1>1, <1>2

\* request_parser.h:31, for every sequence of bytes: the parser answers "good" at the
\* last character of a request, and at no other.
THEOREM RequestsAreGood == Spec => []GoodIffRequest
<1>1. PInv => GoodIffRequest
  BY DEF PInv
<1> QED
  BY <1>1, PlacedInit, PlacedStep, PTL DEF Spec

----------------------------------------------------------------------------
(* What a request is, by the positions of its parts.                       *)

LEMMA InPart ==
  ASSUME NEW w \in Seq(Chars), NEW a \in Nat \ {0}, NEW b \in Nat, b <= Len(w), a <= b + 1,
         NEW S, Set(SubSeq(w, a, b)) \subseteq S
  PROVE  AllIn(w, a, b, S)
<1> DEFINE x == SubSeq(w, a, b)
<1>1. Len(x) = b - a + 1 /\ \A k \in 1 .. b - a + 1 : x[k] = w[a + k - 1]
  BY Part
<1> HIDE DEF x
<1>2. ASSUME NEW k \in a .. b PROVE w[k] \in S
  <2>1. k - a + 1 \in 1 .. b - a + 1 /\ a + (k - a + 1) - 1 = k
    OBVIOUS
  <2>2. x[k - a + 1] = w[k] /\ k - a + 1 \in 1 .. Len(x)
    BY <1>1, <2>1
  <2>3. w[k] \in Set(x)
    BY <2>2 DEF Set
  <2> QED
    BY <2>3 DEF x
<1> QED
  BY <1>2 DEF AllIn

LEMMA PartEmpty ==
  ASSUME NEW w \in Seq(Chars), NEW a \in Nat \ {0}, NEW b \in Int, a > b
  PROVE  SubSeq(w, a, b) = <<>>
OBVIOUS

LEMMA PartToken ==
  ASSUME NEW w \in Seq(Chars), NEW a \in Nat \ {0}, NEW b \in Int, b <= Len(w),
         IsToken(SubSeq(w, a, b))
  PROVE  IsTok(w, a, b)
<1>1. SubSeq(w, a, b) # <<>> /\ Set(SubSeq(w, a, b)) \subseteq Token
  BY DEF IsToken
<1>2. a <= b
  BY <1>1, PartEmpty
<1>3. AllIn(w, a, b, Token)
  BY <1>1, <1>2, InPart
<1> QED
  BY <1>2, <1>3 DEF IsTok

LEMMA PartNumber ==
  ASSUME NEW w \in Seq(Chars), NEW a \in Nat \ {0}, NEW b \in Int, b <= Len(w),
         IsNumber(SubSeq(w, a, b))
  PROVE  IsNum(w, a, b)
<1>1. SubSeq(w, a, b) # <<>> /\ Set(SubSeq(w, a, b)) \subseteq {"DIGIT"}
  BY DEF IsNumber
<1>2. a <= b
  BY <1>1, PartEmpty
<1>3. AllIn(w, a, b, {"DIGIT"})
  BY <1>1, <1>2, InPart
<1> QED
  BY <1>2, <1>3 DEF IsNum

\* What is in no part of S is in the rest of the characters.
LEMMA PartWithout ==
  ASSUME NEW w \in Seq(Chars), NEW a \in Nat \ {0}, NEW b \in Nat, b <= Len(w), a <= b + 1,
         NEW S, Set(SubSeq(w, a, b)) \cap S = {}
  PROVE  AllIn(w, a, b, Chars \ S)
<1> DEFINE x == SubSeq(w, a, b)
<1>1. x \in Seq(Chars)
  BY Part
<1>2. Set(x) \subseteq Chars
  <2> HIDE DEF x
  <2> QED
    BY <1>1 DEF Set
<1>3. Set(x) \subseteq Chars \ S
  BY <1>2
<1> QED
  BY <1>3, InPart

LEMMA PartFirstLine ==
  ASSUME NEW w \in Seq(Chars), NEW e \in Nat, e <= Len(w), IsRequestLine(SubSeq(w, 1, e))
  PROVE  FirstLine(w, e)
<1> DEFINE x == SubSeq(w, 1, e)
<1>1. x \in Seq(Chars) /\ Len(x) = e /\ \A l \in 1 .. e : x[l] = w[l]
  BY Part
<1>2. IsRequestLine(x)
  OBVIOUS
<1> HIDE DEF x
<1>2a. PICK i \in 1 .. Len(x) : \E j \in i + 1 .. Len(x) :
        /\ x[i] = "SP" /\ x[j] = "SP" /\ IsToken(SubSeq(x, 1, i - 1))
        /\ Set(SubSeq(x, i + 1, j - 1)) \cap (Ctl \cup {"SP"}) = {} /\ IsVersion(From(x, j + 1))
  BY <1>2, Zenon DEF IsRequestLine
<1>2b. PICK j \in i + 1 .. Len(x) :
        /\ x[i] = "SP" /\ x[j] = "SP" /\ IsToken(SubSeq(x, 1, i - 1))
        /\ Set(SubSeq(x, i + 1, j - 1)) \cap (Ctl \cup {"SP"}) = {} /\ IsVersion(From(x, j + 1))
  BY <1>2a, Zenon
<1>3. /\ i \in 1 .. e /\ j \in 1 .. e /\ i < j /\ x[i] = "SP" /\ x[j] = "SP"
      /\ IsToken(SubSeq(x, 1, i - 1)) /\ IsVersion(From(x, j + 1))
  <2>1. i \in 1 .. e /\ j \in 1 .. e /\ i < j
    BY <1>1
  <2> QED
    BY <1>2b, <2>1, Zenon
<1>4. MethodTo(w, i)
  <2>1. IsTok(x, 1, i - 1)
    BY <1>1, <1>3, PartToken
  <2> QED
    BY <1>1, <1>3, <2>1 DEF MethodTo, IsTok, AllIn
<1>5. AllIn(w, i + 1, j - 1, Text \ {"SP"})
  <2>0. /\ i + 1 \in Nat \ {0} /\ j - 1 \in Nat /\ j - 1 <= Len(x) /\ i + 1 <= (j - 1) + 1
        /\ x \in Seq(Chars)
    BY <1>1, <1>3
  <2>1. AllIn(x, i + 1, j - 1, Chars \ (Ctl \cup {"SP"}))
    BY <1>2b, <2>0, PartWithout, Zenon
  <2> QED
    BY <1>1, <2>1 DEF AllIn, Text
<1>6. UriTo(w, j) /\ j \in 1 .. e
  BY <1>1, <1>3, <1>4, <1>5 DEF UriTo
<1> DEFINE v == SubSeq(x, j + 1, e)
<1>7. v \in Seq(Chars) /\ Len(v) = e - j /\ \A l \in 1 .. e - j : v[l] = w[j + l]
  <2>1. v \in Seq(Chars) /\ Len(v) = e - (j + 1) + 1 /\ \A l \in 1 .. e - (j + 1) + 1 : v[l] = x[j + 1 + l - 1]
    BY <1>1, <1>3, Part
  <2>2. e - (j + 1) + 1 = e - j /\ \A l \in 1 .. e - j : j + 1 + l - 1 = j + l /\ j + l \in 1 .. e
    BY <1>3
  <2> HIDE DEF v
  <2> QED
    BY <1>1, <2>1, <2>2
<1>8. IsVersion(v)
  BY <1>1, <1>3 DEF From
<1> HIDE DEF v
<1>9. PICK k \in 6 .. e - j :
        v[k] = "." /\ IsNumber(SubSeq(v, 6, k - 1)) /\ IsNumber(SubSeq(v, k + 1, e - j))
  BY <1>7, <1>8 DEF IsVersion, From
<1>10. IsNum(v, 6, k - 1) /\ IsNum(v, k + 1, e - j)
  BY <1>7, <1>9, PartNumber, SMTT(30)
<1>11. w[j + k] = "." /\ IsNum(w, j + 6, j + k - 1) /\ IsNum(w, j + k + 1, e)
  <2>0. 6 <= k - 1 /\ k + 1 <= e - j
    BY <1>10 DEF IsNum
  <2>1. w[j + k] = "." /\ 6 <= k - 1 /\ k + 1 <= e - j
    BY <1>7, <1>9, <2>0, SMTT(30)
  <2>2. ASSUME NEW l \in j + 6 .. j + k - 1 PROVE w[l] \in {"DIGIT"}
    <3>1. l - j \in 6 .. k - 1 /\ l - j \in 1 .. e - j /\ j + (l - j) = l
      BY <1>9, <2>1
    <3> QED
      BY <1>7, <1>10, <3>1 DEF IsNum, AllIn
  <2>3. ASSUME NEW l \in j + k + 1 .. e PROVE w[l] \in {"DIGIT"}
    <3>1. l - j \in k + 1 .. e - j /\ l - j \in 1 .. e - j /\ j + (l - j) = l
      BY <1>9, <2>1
    <3> QED
      BY <1>7, <1>10, <3>1 DEF IsNum, AllIn
  <2> QED
    BY <2>1, <2>2, <2>3 DEF IsNum, AllIn
<1>12. SlashTo(w, j)
  <2>1. Len(v) > 5 /\ SubSeq(v, 1, 5) = <<"H", "T", "T", "P", "/">>
    BY <1>8 DEF IsVersion
  <2>2. \A l \in {1, 2, 3, 4, 5} : l \in 1 .. 5 - 1 + 1 /\ 1 + l - 1 = l /\ l \in 1 .. e - j
    BY <1>7, <2>1
  <2> DEFINE y == SubSeq(v, 1, 5)
  <2>3. \A l \in 1 .. 5 - 1 + 1 : y[l] = v[1 + l - 1]
    BY <1>7, <2>1, Part
  <2>4. y = <<"H", "T", "T", "P", "/">> /\ \A l \in {1, 2, 3, 4, 5} : y[l] = w[j + l]
    <3> HIDE DEF y
    <3>1. \A l \in {1, 2, 3, 4, 5} : y[l] = v[l]
      BY <2>2, <2>3
    <3>2. \A l \in {1, 2, 3, 4, 5} : y[l] = w[j + l]
      <4> TAKE l \in {1, 2, 3, 4, 5}
      <4>1. l \in 1 .. e - j /\ y[l] = v[l]
        BY <2>2, <3>1
      <4> HIDE DEF y
      <4> QED
        BY <1>7, <4>1
    <3> QED
      BY <2>1, <3>2 DEF y
  <2> HIDE DEF y
  <2>5. y[1] = "H" /\ y[2] = "T" /\ y[3] = "T" /\ y[4] = "P" /\ y[5] = "/"
    BY <2>4
  <2>6. y[1] = w[j + 1] /\ y[2] = w[j + 2] /\ y[3] = w[j + 3] /\ y[4] = w[j + 4] /\ y[5] = w[j + 5]
    BY <2>4
  <2> QED
    BY <1>6, <2>5, <2>6 DEF SlashTo
<1>13. MajorTo(w, j + k) /\ j + k \in 1 .. e
  <2>1. j \in 1 .. j + k /\ j + k \in 1 .. e
    BY <1>6, <1>9
  <2> QED
    BY <1>11, <1>12, <2>1 DEF MajorTo
<1> QED
  BY <1>11, <1>13 DEF FirstLine

LEMMA PartField ==
  ASSUME NEW w \in Seq(Chars), NEW p \in Nat \ {0}, NEW e \in Nat, e <= Len(w), p <= e + 1,
         IsHeader(SubSeq(w, p, e))
  PROVE  Field(w, p, e)
<1> DEFINE x == SubSeq(w, p, e)
<1>1. x \in Seq(Chars) /\ Len(x) = e - p + 1 /\ \A l \in 1 .. e - p + 1 : x[l] = w[p + l - 1]
  BY Part
<1>2. IsHeader(x)
  OBVIOUS
<1> HIDE DEF x
<1>2a. PICK i \in 1 .. Len(x) - 1 :
        /\ x[i] = ":" /\ x[i + 1] = "SP" /\ IsToken(SubSeq(x, 1, i - 1))
        /\ Set(SubSeq(x, i + 2, Len(x))) \cap Ctl = {}
  BY <1>2, Zenon DEF IsHeader, From
<1>3. i \in 1 .. e - p /\ x[i] = ":" /\ x[i + 1] = "SP"
  BY <1>1, <1>2a
<1>4. IsTok(x, 1, i - 1) /\ AllIn(x, i + 2, e - p + 1, Chars \ Ctl)
  <2>1. IsTok(x, 1, i - 1)
    BY <1>1, <1>2a, <1>3, PartToken
  <2>2. /\ i + 2 \in Nat \ {0} /\ Len(x) \in Nat /\ Len(x) <= Len(x) /\ i + 2 <= Len(x) + 1
        /\ x \in Seq(Chars)
    BY <1>1, <1>3
  <2>3. AllIn(x, i + 2, Len(x), Chars \ Ctl)
    BY <1>2a, <2>2, PartWithout, Zenon
  <2> QED
    BY <1>1, <2>1, <2>3
<1> DEFINE q == p + i - 1
<1>5. /\ q \in p .. e - 1 /\ w[q] = ":" /\ w[q + 1] = "SP"
      /\ \A k \in p .. e : k - p + 1 \in 1 .. e - p + 1 /\ x[k - p + 1] = w[k]
  <2>1. \A k \in p .. e : k - p + 1 \in 1 .. e - p + 1 /\ p + (k - p + 1) - 1 = k
    OBVIOUS
  <2>2. \A k \in p .. e : k - p + 1 \in 1 .. e - p + 1 /\ x[k - p + 1] = w[k]
    BY <1>1, <2>1
  <2>3. q \in p .. e - 1 /\ q - p + 1 = i /\ (q + 1) - p + 1 = i + 1 /\ q + 1 \in p .. e /\ q \in p .. e
    BY <1>3
  <2> HIDE DEF q
  <2> QED
    BY <1>3, <2>2, <2>3
<1>6. IsTok(w, p, q - 1)
  <2>1. 1 <= i - 1
    BY <1>4 DEF IsTok
  <2>2. ASSUME NEW k \in p .. q - 1 PROVE w[k] \in Token
    <3>1. k - p + 1 \in 1 .. i - 1 /\ k \in p .. e
      BY <1>3
    <3>2. x[k - p + 1] \in Token
      BY <1>4, <3>1 DEF IsTok, AllIn
    <3> QED
      BY <1>5, <3>1, <3>2
  <2>3. p <= q - 1
    BY <1>3, <2>1
  <2> QED
    BY <2>2, <2>3 DEF IsTok, AllIn
<1>7. AllIn(w, q + 2, e, Text)
  <2> SUFFICES ASSUME NEW k \in q + 2 .. e PROVE w[k] \in Text
    BY DEF AllIn
  <2>1. k - p + 1 \in i + 2 .. e - p + 1 /\ k \in p .. e
    BY <1>3
  <2>2. x[k - p + 1] \in Chars \ Ctl
    BY <1>4, <2>1 DEF AllIn
  <2> QED
    BY <1>5, <2>1, <2>2 DEF Text
<1> HIDE DEF q
<1> QED
  BY <1>5, <1>6, <1>7 DEF Field, NameTo

LEMMA PartFolded ==
  ASSUME NEW w \in Seq(Chars), NEW p \in Nat \ {0}, NEW e \in Nat, e <= Len(w), p <= e + 1,
         IsContinuation(SubSeq(w, p, e))
  PROVE  Folded(w, p, e)
<1> DEFINE x == SubSeq(w, p, e)
<1>1. x \in Seq(Chars) /\ Len(x) = e - p + 1 /\ \A l \in 1 .. e - p + 1 : x[l] = w[p + l - 1]
  BY Part
<1>2. IsContinuation(x)
  OBVIOUS
<1> HIDE DEF x
<1>2a. PICK i \in 1 .. Len(x) :
        Set(SubSeq(x, 1, i)) \subseteq Spaced /\ Set(SubSeq(x, i + 1, Len(x))) \cap Ctl = {}
  BY <1>2, Zenon DEF IsContinuation, From, Spaced
<1>3. i \in 1 .. e - p + 1
  BY <1>1
<1>4. AllIn(x, 1, i, Spaced) /\ AllIn(x, i + 1, e - p + 1, Chars \ Ctl)
  <2>1. /\ i + 1 \in Nat \ {0} /\ Len(x) \in Nat /\ Len(x) <= Len(x) /\ i + 1 <= Len(x) + 1
        /\ x \in Seq(Chars) /\ 1 \in Nat \ {0} /\ i \in Nat /\ i <= Len(x) /\ 1 <= i + 1
    BY <1>1, <1>3
  <2>2. AllIn(x, 1, i, Spaced) /\ AllIn(x, i + 1, Len(x), Chars \ Ctl)
    BY <1>2a, <2>1, InPart, PartWithout, Zenon
  <2> QED
    BY <1>1, <2>2
<1> DEFINE q == p + i - 1
<1>5. \A k \in p .. e : k - p + 1 \in 1 .. e - p + 1 /\ x[k - p + 1] = w[k]
  <2>1. \A k \in p .. e : k - p + 1 \in 1 .. e - p + 1 /\ p + (k - p + 1) - 1 = k
    OBVIOUS
  <2> QED
    BY <1>1, <2>1
<1>6. AllIn(w, p, q, Spaced)
  <2> SUFFICES ASSUME NEW k \in p .. q PROVE w[k] \in Spaced
    BY DEF AllIn
  <2>1. k - p + 1 \in 1 .. i /\ k \in p .. e
    BY <1>3
  <2>2. x[k - p + 1] \in Spaced
    BY <1>4, <2>1 DEF AllIn
  <2> QED
    BY <1>5, <2>1, <2>2
<1>7. AllIn(w, q + 1, e, Text)
  <2> SUFFICES ASSUME NEW k \in q + 1 .. e PROVE w[k] \in Text
    BY DEF AllIn
  <2>1. k - p + 1 \in i + 1 .. e - p + 1 /\ k \in p .. e
    BY <1>3
  <2>2. x[k - p + 1] \in Chars \ Ctl
    BY <1>4, <2>1 DEF AllIn
  <2> QED
    BY <1>5, <2>1, <2>2 DEF Text
<1>8. q \in p .. e
  BY <1>3
<1> HIDE DEF q
<1> QED
  BY <1>6, <1>7, <1>8 DEF Folded

LEMMA RequestEnds ==
  ASSUME NEW x \in Seq(Chars), IsRequest(x)
  PROVE  /\ Len(x) \in Nat /\ Len(x) > 4 /\ x[Len(x) - 1] = "CR" /\ x[Len(x)] = "LF"
         /\ x[Len(x) - 2] = "LF"
         /\ \A i \in 1 .. Len(x) : x[i] = "CR" => i + 1 <= Len(x) /\ x[i + 1] = "LF"
<1> DEFINE n == Len(x)
           y == SubSeq(x, n - 3, n)
<1>1. /\ n > 4 /\ y = <<"CR", "LF", "CR", "LF">>
      /\ \A i \in {k \in 1 .. n : x[k] = "CR"} : x[i + 1] = "LF"
  BY DEF IsRequest, From
<1>2. n \in Nat /\ n - 3 \in Nat \ {0} /\ n <= Len(x) /\ n - 3 <= n + 1 /\ n - (n - 3) + 1 = 4
  BY <1>1
<1>3. \A k \in 1 .. n - (n - 3) + 1 : y[k] = x[n - 3 + k - 1]
  BY <1>2, Part
<1> HIDE DEF y
<1>4. y[2] = "LF" /\ y[3] = "CR" /\ y[4] = "LF"
  BY <1>1
<1>5. y[2] = x[n - 3 + 2 - 1] /\ y[3] = x[n - 3 + 3 - 1] /\ y[4] = x[n - 3 + 4 - 1]
  BY <1>2, <1>3
<1>6. n - 3 + 2 - 1 = n - 2 /\ n - 3 + 3 - 1 = n - 1 /\ n - 3 + 4 - 1 = n
  BY <1>2
<1> HIDE DEF n
<1>7. x[n - 2] = "LF" /\ x[n - 1] = "CR" /\ x[n] = "LF"
  BY <1>4, <1>5, <1>6
<1>8. ASSUME NEW i \in 1 .. n, x[i] = "CR" PROVE i + 1 <= n /\ x[i + 1] = "LF"
  <2>1. x[i + 1] = "LF"
    BY <1>1, <1>8
  <2>2. i # n
    BY <1>7, <1>8
  <2> QED
    BY <1>2, <2>1, <2>2
<1> QED
  BY <1>1, <1>2, <1>7, <1>8 DEF n

\* The line that begins at p, not the last: up to its end, it is what it has to be.
LEMMA RequestLine ==
  ASSUME NEW x \in Seq(Chars), IsRequest(x), NEW p \in 1 .. Len(x),
         p = 1 \/ (p >= 3 /\ x[p - 2] = "CR"), p = 1 \/ x[p] # "CR"
  PROVE  \E e \in p .. Len(x) - 1 :
           /\ x[e] = "CR" /\ \A k \in p .. e - 1 : x[k] # "CR"
           /\ p = 1 => FirstLine(x, e - 1)
           /\ p # 1 => Field(x, p, e - 1) \/ (Folded(x, p, e - 1) /\ Later(x, p))
<1> DEFINE n == Len(x)
           ends == {i \in 1 .. n : x[i] = "CR"}
           starts == {1} \cup {i + 2 : i \in ends}
           End == CHOOSE q \in ends : q >= p /\ \A r \in ends : r >= p => q <= r
           line == SubSeq(x, p, End - 1)
           second == \E q \in ends : p = q + 2 /\ \A r \in ends : q <= r
<1>1. /\ n \in Nat /\ n > 4 /\ x[n - 1] = "CR" /\ x[n] = "LF" /\ x[n - 2] = "LF"
      /\ \A i \in 1 .. n : x[i] = "CR" => i + 1 <= n /\ x[i + 1] = "LF"
  BY RequestEnds
<1>2. p <= n - 1
  BY <1>1
<1>3. p \in starts \ {n + 1}
  <2>1. p # 1 => p - 2 \in ends /\ p = (p - 2) + 2
    OBVIOUS
  <2> QED
    BY <1>1, <2>1
<1>4. (CASE p = 1 -> IsRequestLine(line)
         [] p = n - 1 -> line = <<>>
         [] OTHER -> IsHeader(line) \/ (IsContinuation(line) /\ ~second))
  BY <1>3, Zenon DEF IsRequest
<1>5. End \in ends /\ End >= p /\ \A r \in ends : r >= p => End <= r
  <2> DEFINE T == {q \in ends : q >= p}
  <2>1. PICK q \in T : \A r \in T : q <= r
    <3>1. T \subseteq Nat /\ n - 1 \in T
      BY <1>1, <1>2
    <3> HIDE DEF T
    <3> QED
      BY <3>1, LeastNumber
  <2>2. \E q1 \in ends : q1 >= p /\ \A r \in ends : r >= p => q1 <= r
    BY <2>1
  <2> HIDE DEF ends
  <2> QED
    BY <2>2
<1>6. second <=> p # 1 /\ \A r \in ends : p - 2 <= r
  <2>1. ASSUME second PROVE p # 1 /\ \A r \in ends : p - 2 <= r
    <3>1. PICK q \in ends : p = q + 2 /\ \A r \in ends : q <= r
      BY <2>1
    <3>2. q = p - 2 /\ p # 1
      BY <3>1
    <3> QED
      BY <3>1, <3>2
  <2>2. ASSUME p # 1, \A r \in ends : p - 2 <= r PROVE second
    <3>1. p - 2 \in ends /\ p = (p - 2) + 2
      BY <2>2
    <3> HIDE DEF ends
    <3> QED
      BY <2>2, <3>1
  <2> QED
    BY <2>1, <2>2
<1> DEFINE e == End
<1> HIDE DEF second, End
<1>7. /\ e \in p .. n - 1 /\ x[e] = "CR" /\ \A k \in p .. e - 1 : x[k] # "CR"
      /\ e - 1 \in Nat /\ e - 1 <= Len(x) /\ p \in Nat \ {0} /\ p <= (e - 1) + 1
  <2>1. e \in p .. n - 1 /\ x[e] = "CR"
    BY <1>1, <1>5
  <2>2. ASSUME NEW k \in p .. e - 1, x[k] = "CR" PROVE FALSE
    <3>1. k \in ends /\ k >= p
      BY <1>1, <1>5, <2>2
    <3> QED
      BY <1>5, <2>1, <3>1
  <2> QED
    BY <1>1, <2>1, <2>2
<1> HIDE DEF e
<1>8. CASE p = 1
  <2>0. p # n - 1
    BY <1>1, <1>8
  <2>1. IsRequestLine(SubSeq(x, 1, e - 1))
    BY <1>4, <1>8, <2>0, Zenon DEF e
  <2>2. FirstLine(x, e - 1)
    BY <1>7, <2>1, PartFirstLine
  <2> QED
    BY <1>7, <1>8, <2>2
<1>9. CASE p # 1
  <2>1. p # n - 1
    BY <1>1, <1>9
  <2>2. IsHeader(SubSeq(x, p, e - 1)) \/ (IsContinuation(SubSeq(x, p, e - 1)) /\ ~second)
    BY <1>4, <1>9, <2>1, Zenon DEF e
  <2>3. CASE IsHeader(SubSeq(x, p, e - 1))
    <3>1. Field(x, p, e - 1)
      BY <1>7, <2>3, PartField
    <3> QED
      BY <1>7, <1>9, <3>1
  <2>4. CASE IsContinuation(SubSeq(x, p, e - 1)) /\ ~second
    <3>1. Folded(x, p, e - 1)
      BY <1>7, <2>4, PartFolded
    <3>2. PICK r \in ends : ~(p - 2 <= r)
      BY <1>6, <1>9, <2>4
    <3>3. r \in 1 .. p - 3 /\ x[r] = "CR"
      BY <1>1, <3>2
    <3>4. Later(x, p)
      BY <3>3 DEF Later
    <3> QED
      BY <1>7, <1>9, <3>1, <3>4
  <2> QED
    BY <2>2, <2>3, <2>4
<1> QED
  BY <1>8, <1>9

\* The separators of the first line are at one place each.
LEMMA OneMethod ==
  ASSUME NEW w, NEW i \in Nat \ {0}, NEW j \in Nat \ {0}, MethodTo(w, i), MethodTo(w, j)
  PROVE  i = j
<1>1. \A k \in 1 .. i - 1 : w[k] # "SP"
  BY DEF MethodTo, IsTok, AllIn, Token, Tspecial
<1>2. \A k \in 1 .. j - 1 : w[k] # "SP"
  BY DEF MethodTo, IsTok, AllIn, Token, Tspecial
<1> QED
  BY <1>1, <1>2 DEF MethodTo

LEMMA OneUri ==
  ASSUME NEW w, NEW i \in Nat \ {0}, NEW j \in Nat \ {0}, UriTo(w, i), UriTo(w, j)
  PROVE  i = j
<1>1. PICK k \in 1 .. i - 1 : MethodTo(w, k) /\ AllIn(w, k + 1, i - 1, Text \ {"SP"})
  BY DEF UriTo
<1>2. PICK l \in 1 .. j - 1 : MethodTo(w, l) /\ AllIn(w, l + 1, j - 1, Text \ {"SP"})
  BY DEF UriTo
<1>3. k = l
  BY <1>1, <1>2, OneMethod
<1>4. (\A m \in k + 1 .. i - 1 : w[m] # "SP") /\ \A m \in k + 1 .. j - 1 : w[m] # "SP"
  BY <1>1, <1>2, <1>3 DEF AllIn
<1>5. i \notin k + 1 .. j - 1 /\ j \notin k + 1 .. i - 1
  BY <1>4 DEF UriTo
<1> QED
  BY <1>1, <1>2, <1>3, <1>5

LEMMA OneMajor ==
  ASSUME NEW w, NEW i \in Nat \ {0}, NEW j \in Nat \ {0}, MajorTo(w, i), MajorTo(w, j)
  PROVE  i = j
<1>1. PICK k \in 1 .. i : SlashTo(w, k) /\ IsNum(w, k + 6, i - 1)
  BY DEF MajorTo
<1>2. PICK l \in 1 .. j : SlashTo(w, l) /\ IsNum(w, l + 6, j - 1)
  BY DEF MajorTo
<1>3. k = l
  BY <1>1, <1>2, OneUri DEF SlashTo
<1>4. i \notin k + 6 .. j - 1 /\ j \notin k + 6 .. i - 1
  BY <1>1, <1>2, <1>3 DEF IsNum, AllIn, MajorTo
<1>5. k + 6 <= i - 1 /\ k + 6 <= j - 1
  BY <1>1, <1>2, <1>3 DEF IsNum
<1> QED
  BY <1>4, <1>5

----------------------------------------------------------------------------
(* A request is taken character by character.                              *)

Goes(h, s, c) == \E m \in Moves(h)[s] : c \in m[1]

\* What the states of the first line go on from, and those that follow.
LEMMA FirstLineGoes ==
  ASSUME NEW h \in BOOLEAN, NEW c
  PROVE  /\ c \in Token => Goes(h, "method_start", c)
         /\ c \in Token \cup {"SP"} => Goes(h, "method", c)
         /\ c \in Text => Goes(h, "uri", c)
         /\ c = "H" => Goes(h, "http_version_h", c)
         /\ c = "T" => Goes(h, "http_version_t_1", c) /\ Goes(h, "http_version_t_2", c)
         /\ c = "P" => Goes(h, "http_version_p", c)
         /\ c = "/" => Goes(h, "http_version_slash", c)
         /\ c = "DIGIT" => Goes(h, "http_version_major_start", c) /\ Goes(h, "http_version_minor_start", c)
         /\ c \in {"DIGIT", "."} => Goes(h, "http_version_major", c)
         /\ c \in {"DIGIT", "CR"} => Goes(h, "http_version_minor", c)
         /\ c = "LF" => Goes(h, "expecting_newline_1", c)
<1>1. c \in Token => Goes(h, "method_start", c)
  BY DEF Goes, Moves
<1>2. c \in Token \cup {"SP"} => Goes(h, "method", c)
  BY DEF Goes, Moves
<1>3. c \in Text => Goes(h, "uri", c)
  <2>1. c \in Text => c \in {"SP"} \/ c \in Text \ {"SP"}
    OBVIOUS
  <2>2. <<{"SP"}, "http_version_h">> \in Moves(h)["uri"] /\ <<Text \ {"SP"}, "uri">> \in Moves(h)["uri"]
    BY DEF Moves
  <2>3. <<{"SP"}, "http_version_h">>[1] = {"SP"} /\ <<Text \ {"SP"}, "uri">>[1] = Text \ {"SP"}
    OBVIOUS
  <2> QED
    BY <2>1, <2>2, <2>3 DEF Goes
<1>4. /\ c = "H" => Goes(h, "http_version_h", c)
      /\ c = "T" => Goes(h, "http_version_t_1", c) /\ Goes(h, "http_version_t_2", c)
  BY DEF Goes, Moves
<1>5. (c = "P" => Goes(h, "http_version_p", c)) /\ (c = "/" => Goes(h, "http_version_slash", c))
  BY DEF Goes, Moves
<1>6. c = "DIGIT" => Goes(h, "http_version_major_start", c) /\ Goes(h, "http_version_minor_start", c)
  BY DEF Goes, Moves
<1>7. c \in {"DIGIT", "."} => Goes(h, "http_version_major", c)
  BY DEF Goes, Moves
<1>8. c \in {"DIGIT", "CR"} => Goes(h, "http_version_minor", c)
  BY DEF Goes, Moves
<1>9. c = "LF" => Goes(h, "expecting_newline_1", c)
  BY DEF Goes, Moves
<1> QED
  BY <1>1, <1>2, <1>3, <1>4, <1>5, <1>6, <1>7, <1>8, <1>9

LEMMA HeadersGo ==
  ASSUME NEW h \in BOOLEAN, NEW c
  PROVE  /\ c = "CR" \/ c \in Token \/ (h /\ c \in Spaced) => Goes(h, "header_line_start", c)
         /\ c = "CR" \/ c \in Spaced \/ c \in Text => Goes(h, "header_lws", c)
         /\ c = ":" \/ c \in Token => Goes(h, "header_name", c)
         /\ c = "SP" => Goes(h, "space_before_header_value", c)
         /\ c = "CR" \/ c \in Text => Goes(h, "header_value", c)
         /\ c = "LF" => Goes(h, "expecting_newline_2", c) /\ Goes(h, "expecting_newline_3", c)
<1>1. c = "CR" \/ c \in Token \/ (h /\ c \in Spaced) => Goes(h, "header_line_start", c)
  <2>1. /\ <<{"CR"}, "expecting_newline_3">> \in Moves(h)["header_line_start"]
        /\ <<Lws(h), "header_lws">> \in Moves(h)["header_line_start"]
        /\ <<Token, "header_name">> \in Moves(h)["header_line_start"]
    BY DEF Moves
  <2>2. /\ <<{"CR"}, "expecting_newline_3">>[1] = {"CR"} /\ <<Lws(h), "header_lws">>[1] = Lws(h)
        /\ <<Token, "header_name">>[1] = Token
    OBVIOUS
  <2>3. h /\ c \in Spaced => c \in Lws(h)
    BY DEF Lws, Spaced
  <2> QED
    BY <2>1, <2>2, <2>3 DEF Goes
<1>2. c = "CR" \/ c \in Spaced \/ c \in Text => Goes(h, "header_lws", c)
  <2>1. /\ <<{"CR"}, "expecting_newline_2">> \in Moves(h)["header_lws"]
        /\ <<{"SP", "TAB"}, "header_lws">> \in Moves(h)["header_lws"]
        /\ <<Text \ {"SP"}, "header_value">> \in Moves(h)["header_lws"]
    BY DEF Moves
  <2>2. /\ <<{"CR"}, "expecting_newline_2">>[1] = {"CR"}
        /\ <<{"SP", "TAB"}, "header_lws">>[1] = Spaced
        /\ <<Text \ {"SP"}, "header_value">>[1] = Text \ {"SP"}
    BY DEF Spaced
  <2>3. c \in Text => c \in Spaced \/ c \in Text \ {"SP"}
    BY DEF Spaced
  <2> QED
    BY <2>1, <2>2, <2>3 DEF Goes
<1>3. c = ":" \/ c \in Token => Goes(h, "header_name", c)
  BY DEF Goes, Moves
<1>4. c = "SP" => Goes(h, "space_before_header_value", c)
  BY DEF Goes, Moves
<1>5. c = "CR" \/ c \in Text => Goes(h, "header_value", c)
  BY DEF Goes, Moves
<1>6. c = "LF" => Goes(h, "expecting_newline_2", c) /\ Goes(h, "expecting_newline_3", c)
  BY DEF Goes, Moves, LastNewline
<1> QED
  BY <1>1, <1>2, <1>3, <1>4, <1>5, <1>6

LEMMA FirstLineTaken ==
  ASSUME NEW w \in Seq(Chars), IsRequest(w), NEW n \in Nat, n < Len(w), NEW h \in BOOLEAN,
         NEW s \in InFirst, Described(w, s, n, h)
  PROVE  Goes(h, s, w[n + 1])
<1>1. PICK e \in 1 .. Len(w) - 1 :
        w[e] = "CR" /\ FirstLine(w, e - 1) /\ \A k \in 1 .. e - 1 : w[k] # "CR"
  BY RequestLine
<1>2. PICK k \in 1 .. e - 1 : MajorTo(w, k) /\ IsNum(w, k + 1, e - 1)
  BY <1>1 DEF FirstLine
<1>3. PICK j \in 1 .. k : SlashTo(w, j) /\ IsNum(w, j + 6, k - 1) /\ w[k] = "."
  BY <1>2 DEF MajorTo
<1>4. PICK i \in 1 .. j - 1 : MethodTo(w, i) /\ AllIn(w, i + 1, j - 1, Text \ {"SP"}) /\ w[j] = "SP"
  BY <1>3 DEF SlashTo, UriTo
<1>5. /\ 1 <= i - 1 /\ w[i] = "SP" /\ j + 6 <= k - 1 /\ k + 1 <= e - 1
      /\ \A l \in 1 .. i - 1 : w[l] \in Token
      /\ \A l \in i + 1 .. j - 1 : w[l] \in Text
      /\ \A l \in j + 6 .. k - 1 : w[l] = "DIGIT"
      /\ \A l \in k + 1 .. e - 1 : w[l] = "DIGIT"
      /\ w[j + 1] = "H" /\ w[j + 2] = "T" /\ w[j + 3] = "T" /\ w[j + 4] = "P" /\ w[j + 5] = "/"
  BY <1>2, <1>3, <1>4 DEF MethodTo, IsTok, IsNum, AllIn, SlashTo
<1>6. CASE s = "method_start"
  <2>1. n = 0
    BY <1>6 DEF Described
  <2>2. w[n + 1] \in Token
    BY <1>5, <2>1
  <2> QED
    BY <1>6, <2>2, FirstLineGoes
<1>7. CASE s = "method"
  <2>1. n >= 1 /\ \A l \in 1 .. n : w[l] \in Token
    BY <1>7 DEF Described, IsTok, AllIn
  <2>2. n < i
    BY <1>4, <1>5, <2>1 DEF Token, Tspecial
  <2>3. n + 1 \in 1 .. i - 1 \/ n + 1 = i
    BY <2>2
  <2>4. w[n + 1] \in Token \cup {"SP"}
    BY <1>5, <2>3
  <2> QED
    BY <1>7, <2>4, FirstLineGoes
<1>8. CASE s = "uri"
  <2>1. PICK a \in 1 .. n : MethodTo(w, a) /\ AllIn(w, a + 1, n, Text \ {"SP"})
    BY <1>8 DEF Described
  <2>2. a = i
    BY <1>4, <2>1, OneMethod
  <2>3. n < j
    BY <1>4, <2>1, <2>2 DEF AllIn
  <2>4. n + 1 \in i + 1 .. j - 1 \/ n + 1 = j
    BY <2>1, <2>2, <2>3
  <2>5. w[n + 1] \in Text
    BY <1>4, <1>5, <2>4 DEF Text, Ctl, Chars
  <2> QED
    BY <1>8, <2>5, FirstLineGoes
<1> DEFINE U(d) == n - d >= 1 /\ UriTo(w, n - d)
<1>9. ASSUME NEW d \in 0 .. 5, U(d) PROVE n = j + d
  <2>1. UriTo(w, j) /\ n - d \in Nat \ {0} /\ j \in Nat \ {0}
    BY <1>3, <1>9 DEF SlashTo
  <2>2. n - d = j
    BY <1>9, <2>1, OneUri
  <2> QED
    BY <2>2
<1>10. CASE s \in {"http_version_h", "http_version_t_1"}
  <2>1. (s = "http_version_h" => U(0)) /\ (s = "http_version_t_1" => U(1))
    BY <1>10 DEF Described
  <2>2. (s = "http_version_h" => n = j + 0) /\ (s = "http_version_t_1" => n = j + 1)
    BY <1>9, <2>1
  <2>3. (s = "http_version_h" => w[n + 1] = "H") /\ (s = "http_version_t_1" => w[n + 1] = "T")
    BY <1>5, <2>2
  <2> QED
    BY <1>10, <2>3, FirstLineGoes
<1>11. CASE s \in {"http_version_t_2", "http_version_p", "http_version_slash"}
  <2>1. /\ s = "http_version_t_2" => U(2)
        /\ s = "http_version_p" => U(3)
        /\ s = "http_version_slash" => U(4)
    BY <1>11 DEF Described
  <2>2. /\ s = "http_version_t_2" => n = j + 2
        /\ s = "http_version_p" => n = j + 3
        /\ s = "http_version_slash" => n = j + 4
    BY <1>9, <2>1
  <2>3. /\ s = "http_version_t_2" => w[n + 1] = "T"
        /\ s = "http_version_p" => w[n + 1] = "P"
        /\ s = "http_version_slash" => w[n + 1] = "/"
    BY <1>5, <2>2
  <2> QED
    BY <1>11, <2>3, FirstLineGoes
<1>12. CASE s = "http_version_major_start"
  <2>1. U(5)
    BY <1>12 DEF Described, SlashTo
  <2>2. n = j + 5
    BY <1>9, <2>1
  <2>3. n + 1 \in j + 6 .. k - 1
    BY <1>5, <2>2
  <2> QED
    BY <1>5, <1>12, <2>3, FirstLineGoes
<1>13. CASE s = "http_version_major"
  <2>1. PICK a \in 1 .. n : SlashTo(w, a) /\ IsNum(w, a + 6, n)
    BY <1>13 DEF Described
  <2>2. a = j
    BY <1>3, <2>1, OneUri DEF SlashTo
  <2>3. n < k /\ j + 6 <= n
    BY <1>3, <1>5, <2>1, <2>2 DEF IsNum, AllIn
  <2>4. n + 1 \in j + 6 .. k - 1 \/ n + 1 = k
    BY <2>3
  <2> QED
    BY <1>3, <1>5, <1>13, <2>4, FirstLineGoes
<1>14. CASE s = "http_version_minor_start"
  <2>1. n >= 1 /\ MajorTo(w, n)
    BY <1>14 DEF Described
  <2>2. n = k
    BY <1>2, <2>1, OneMajor
  <2>3. n + 1 \in k + 1 .. e - 1
    BY <1>5, <2>2
  <2> QED
    BY <1>5, <1>14, <2>3, FirstLineGoes
<1>15. CASE s = "http_version_minor"
  <2>1. PICK a \in 1 .. n : MajorTo(w, a) /\ IsNum(w, a + 1, n)
    BY <1>15 DEF Described, FirstLine
  <2>2. a = k
    BY <1>2, <2>1, OneMajor
  <2>3. n < e /\ k + 1 <= n
    BY <1>1, <1>5, <2>1, <2>2 DEF IsNum, AllIn
  <2>4. n + 1 \in k + 1 .. e - 1 \/ n + 1 = e
    BY <2>3
  <2> QED
    BY <1>1, <1>5, <1>15, <2>4, FirstLineGoes
<1>16. CASE s = "expecting_newline_1"
  <2>1. n \in 1 .. Len(w) /\ w[n] = "CR"
    BY <1>16 DEF Described
  <2>2. w[n + 1] = "LF"
    BY <2>1, RequestEnds
  <2> QED
    BY <1>16, <2>2, FirstLineGoes
<1> QED
  BY <1>6, <1>7, <1>8, <1>10, <1>11, <1>12, <1>13, <1>14, <1>15, <1>16 DEF InFirst

\* A line that is read has begun where one begins.
LEMMA Begun ==
  ASSUME NEW w, NEW p \in Nat, Done(w, p)
  PROVE  p >= 3 /\ w[p - 2] = "CR"
BY DEF Done

LEMMA HeadersTaken ==
  ASSUME NEW w \in Seq(Chars), IsRequest(w), NEW n \in Nat, n < Len(w), NEW h \in BOOLEAN,
         NEW s \in States \ InFirst, Described(w, s, n, h),
         s = "header_line_start" /\ Later(w, n + 1) => h
  PROVE  Goes(h, s, w[n + 1])
<1>1. ASSUME NEW p \in 1 .. Len(w), Done(w, p), w[p] # "CR"
      PROVE  \E e \in p .. Len(w) - 1 :
               /\ w[e] = "CR" /\ \A k \in p .. e - 1 : w[k] # "CR"
               /\ Field(w, p, e - 1) \/ (Folded(w, p, e - 1) /\ Later(w, p))
  BY <1>1, Begun, RequestLine
<1>2. ASSUME NEW p \in Nat, NEW e \in Nat, Field(w, p, e) PROVE w[p] \in Token
  BY <1>2 DEF Field, NameTo, IsTok, AllIn
<1>3. ASSUME NEW p \in Nat, NEW e \in Nat, Folded(w, p, e) PROVE w[p] \in Spaced
  BY <1>3 DEF Folded, AllIn
<1>4. ("CR" \notin Token \cup Spaced \cup Text) /\ Token \cap Spaced = {} /\ ":" \notin Token
  BY DEF Token, Spaced, Text, Ctl, Tspecial
<1>5. CASE s = "header_line_start"
  <2>1. Done(w, n + 1) /\ n + 1 \in 1 .. Len(w)
    BY <1>5 DEF Described
  <2>2. CASE w[n + 1] = "CR"
    BY <1>5, <2>2, HeadersGo
  <2>3. CASE w[n + 1] # "CR"
    <3>1. PICK e \in n + 1 .. Len(w) - 1 :
            Field(w, n + 1, e - 1) \/ (Folded(w, n + 1, e - 1) /\ Later(w, n + 1))
      BY <1>1, <2>1, <2>3
    <3>2. n + 1 \in Nat /\ e - 1 \in Nat
      OBVIOUS
    <3>3. w[n + 1] \in Token \/ (h /\ w[n + 1] \in Spaced)
      BY <1>2, <1>3, <1>5, <3>1, <3>2
    <3> QED
      BY <1>5, <3>3, HeadersGo
  <2> QED
    BY <2>2, <2>3
<1>6. CASE s = "header_lws"
  <2>1. PICK p \in 1 .. n : Done(w, p) /\ AllIn(w, p, n, Spaced)
    BY <1>6 DEF Described
  <2>2. (\A k \in p .. n : w[k] \in Spaced /\ w[k] # "CR") /\ p \in 1 .. Len(w)
    BY <1>4, <2>1 DEF AllIn
  <2>3. PICK e \in p .. Len(w) - 1 :
          w[e] = "CR" /\ (Field(w, p, e - 1) \/ Folded(w, p, e - 1))
    BY <1>1, <2>1, <2>2
  <2>4. e - 1 \in Nat /\ ~Field(w, p, e - 1) /\ e > n
    BY <1>2, <1>4, <2>2, <2>3
  <2>5. PICK i \in p .. e - 1 : AllIn(w, p, i, Spaced) /\ AllIn(w, i + 1, e - 1, Text)
    BY <2>3, <2>4 DEF Folded
  <2>6. n + 1 \in p .. i \/ n + 1 \in i + 1 .. e - 1 \/ n + 1 = e
    BY <2>4
  <2>7. w[n + 1] = "CR" \/ w[n + 1] \in Spaced \/ w[n + 1] \in Text
    BY <2>3, <2>5, <2>6 DEF AllIn
  <2> QED
    BY <1>6, <2>7, HeadersGo
<1>7. CASE s = "header_name"
  <2>1. PICK p \in 1 .. n : Done(w, p) /\ IsTok(w, p, n)
    BY <1>7 DEF Described
  <2>2. (\A k \in p .. n : w[k] \in Token /\ w[k] # "CR") /\ p \in 1 .. Len(w)
    BY <1>4, <2>1 DEF IsTok, AllIn
  <2>3. PICK e \in p .. Len(w) - 1 : Field(w, p, e - 1) \/ Folded(w, p, e - 1)
    BY <1>1, <2>1, <2>2
  <2>4. Field(w, p, e - 1)
    <3>1. e - 1 \in Nat /\ w[p] \in Token
      BY <2>1, <2>2
    <3> QED
      BY <1>3, <1>4, <2>3, <3>1
  <2>5. PICK i \in p .. e - 2 : NameTo(w, p, i)
    <3>1. (e - 1) - 1 = e - 2
      OBVIOUS
    <3> QED
      BY <2>4, <3>1 DEF Field
  <2>6. i \notin p .. n
    BY <1>4, <2>2, <2>5 DEF NameTo
  <2>7. n + 1 \in p .. i - 1 \/ n + 1 = i
    BY <2>5, <2>6
  <2>8. w[n + 1] = ":" \/ w[n + 1] \in Token
    BY <2>5, <2>7 DEF NameTo, IsTok, AllIn
  <2> QED
    BY <1>7, <2>8, HeadersGo
<1>8. ASSUME NEW p \in 1 .. n, NEW a \in p .. n, NameTo(w, p, a), Done(w, p)
      PROVE  \E e \in a + 2 .. Len(w) - 1 :
               w[e] = "CR" /\ w[a + 1] = "SP" /\ AllIn(w, a + 2, e - 1, Text)
  <2>1. w[p] \in Token /\ w[p] # "CR" /\ p \in 1 .. Len(w)
    BY <1>4, <1>8 DEF NameTo, IsTok, AllIn
  <2>2. PICK e \in p .. Len(w) - 1 : w[e] = "CR" /\ (Field(w, p, e - 1) \/ Folded(w, p, e - 1))
    BY <1>1, <1>8, <2>1
  <2>3. Field(w, p, e - 1)
    <3>1. e - 1 \in Nat
      OBVIOUS
    <3> QED
      BY <1>3, <1>4, <2>1, <2>2, <3>1
  <2>4. PICK i \in p .. (e - 1) - 1 :
          NameTo(w, p, i) /\ w[i + 1] = "SP" /\ AllIn(w, i + 2, e - 1, Text)
    BY <2>3 DEF Field
  <2>5. i \notin p .. a - 1 /\ a \notin p .. i - 1
    BY <1>4, <1>8, <2>4 DEF NameTo, IsTok, AllIn
  <2>6. i = a
    BY <2>5
  <2> QED
    BY <2>2, <2>4, <2>6
<1>9. CASE s = "space_before_header_value"
  <2>1. PICK p \in 1 .. n : Done(w, p) /\ NameTo(w, p, n)
    BY <1>9 DEF Described
  <2>2. w[n + 1] = "SP"
    BY <1>8, <2>1
  <2> QED
    BY <1>9, <2>2, HeadersGo
<1>10. CASE s = "header_value"
  <2>1. PICK p \in 1 .. n : Done(w, p) /\ HeaderLine(w, p, n) /\ ~AllIn(w, p, n, Spaced)
    BY <1>10 DEF Described
  <2>2. \A k \in p .. n : w[k] # "CR"
    BY <2>1, HeaderLineHasNoEnds DEF NoEnds
  <2>3. CASE Field(w, p, n)
    <3>1. PICK a \in p .. n - 1 : NameTo(w, p, a)
      BY <2>3 DEF Field
    <3>2. PICK e \in a + 2 .. Len(w) - 1 : w[e] = "CR" /\ AllIn(w, a + 2, e - 1, Text)
      BY <1>8, <2>1, <3>1
    <3>3. e \notin p .. n
      BY <2>2, <3>2
    <3>4. n + 1 \in a + 2 .. e - 1 \/ n + 1 = e
      BY <3>3
    <3>5. w[n + 1] = "CR" \/ w[n + 1] \in Text
      BY <3>2, <3>4 DEF AllIn
    <3> QED
      BY <1>10, <3>5, HeadersGo
  <2>4. CASE Folded(w, p, n)
    <3>1. w[p] \in Spaced /\ w[p] # "CR" /\ p \in 1 .. Len(w) /\ p \in Nat
      BY <1>3, <1>4, <2>4
    <3>2. PICK e \in p .. Len(w) - 1 : w[e] = "CR" /\ (Field(w, p, e - 1) \/ Folded(w, p, e - 1))
      BY <1>1, <2>1, <3>1
    <3>3. Folded(w, p, e - 1)
      <4>1. e - 1 \in Nat
        OBVIOUS
      <4> QED
        BY <1>2, <1>4, <3>1, <3>2, <4>1
    <3>4. PICK i \in p .. e - 1 : AllIn(w, p, i, Spaced) /\ AllIn(w, i + 1, e - 1, Text)
      BY <3>3 DEF Folded
    <3>5. i < n
      BY <2>1, <3>4 DEF AllIn
    <3>6. e \notin p .. n
      BY <2>2, <3>2
    <3>7. n + 1 \in i + 1 .. e - 1 \/ n + 1 = e
      BY <3>5, <3>6
    <3>8. w[n + 1] = "CR" \/ w[n + 1] \in Text
      BY <3>2, <3>4, <3>7 DEF AllIn
    <3> QED
      BY <1>10, <3>8, HeadersGo
  <2> QED
    BY <2>1, <2>3, <2>4 DEF HeaderLine
<1>11. CASE s \in {"expecting_newline_2", "expecting_newline_3"}
  <2>1. n \in 1 .. Len(w) /\ w[n] = "CR"
    BY <1>11 DEF Described
  <2>2. w[n + 1] = "LF"
    BY <2>1, RequestEnds
  <2> QED
    BY <1>11, <2>2, HeadersGo
<1> QED
  BY <1>5, <1>6, <1>7, <1>9, <1>10, <1>11 DEF States, InFirst

----------------------------------------------------------------------------
(* What the parser goes on with can become a request.                      *)

\* The state before each character of FullRequest.
FullStates ==
  <<"method_start", "method", "uri", "uri", "http_version_h", "http_version_t_1",
    "http_version_t_2", "http_version_p", "http_version_slash", "http_version_major_start",
    "http_version_major", "http_version_minor_start", "http_version_minor",
    "expecting_newline_1", "header_line_start", "header_name", "space_before_header_value",
    "header_value", "header_value", "expecting_newline_2", "header_line_start",
    "header_lws", "header_value", "expecting_newline_2", "header_line_start",
    "expecting_newline_3">>

Leads(h, s, c, t) == \E m \in Moves(h)[s] : c \in m[1] /\ m[2] = t

LEMMA FullMoves ==
  ASSUME NEW h \in BOOLEAN, NEW i \in 1 .. 25, i = 21 => h
  PROVE  Leads(h, FullStates[i], FullRequest[i], FullStates[i + 1])
<1>1. /\ Leads(h, "method_start", "CHAR", "method") /\ Leads(h, "method", "SP", "uri")
      /\ Leads(h, "uri", "/", "uri") /\ Leads(h, "uri", "SP", "http_version_h")
      /\ Leads(h, "http_version_h", "H", "http_version_t_1")
      /\ Leads(h, "http_version_t_1", "T", "http_version_t_2")
  BY DEF Leads, Moves, Token, Text, Chars, Ctl, Tspecial
<1>2. /\ Leads(h, "http_version_t_2", "T", "http_version_p")
      /\ Leads(h, "http_version_p", "P", "http_version_slash")
      /\ Leads(h, "http_version_slash", "/", "http_version_major_start")
      /\ Leads(h, "http_version_major_start", "DIGIT", "http_version_major")
      /\ Leads(h, "http_version_major", ".", "http_version_minor_start")
      /\ Leads(h, "http_version_minor_start", "DIGIT", "http_version_minor")
  BY DEF Leads, Moves
<1>3. /\ Leads(h, "http_version_minor", "CR", "expecting_newline_1")
      /\ Leads(h, "expecting_newline_1", "LF", "header_line_start")
      /\ Leads(h, "header_line_start", "CHAR", "header_name")
      /\ Leads(h, "header_name", ":", "space_before_header_value")
      /\ Leads(h, "space_before_header_value", "SP", "header_value")
  BY DEF Leads, Moves, Token, Chars, Ctl, Tspecial
<1>4. /\ Leads(h, "header_value", "CHAR", "header_value")
      /\ Leads(h, "header_value", "CR", "expecting_newline_2")
      /\ Leads(h, "expecting_newline_2", "LF", "header_line_start")
      /\ h => Leads(h, "header_line_start", "SP", "header_lws")
      /\ Leads(h, "header_lws", "CHAR", "header_value")
      /\ Leads(h, "header_line_start", "CR", "expecting_newline_3")
  BY DEF Leads, Moves, Text, Chars, Ctl, Lws
<1>5. CASE i \in {1, 2, 3, 4, 5, 6}
  BY <1>1, <1>5 DEF FullStates, FullRequest
<1>6. CASE i \in {7, 8, 9, 10, 11, 12}
  BY <1>2, <1>6 DEF FullStates, FullRequest
<1>7. CASE i \in {13, 14, 15, 16, 17}
  BY <1>3, <1>7 DEF FullStates, FullRequest
<1>8. CASE i \in {18, 19, 20, 21, 22, 23, 24, 25}
  BY <1>4, <1>8 DEF FullStates, FullRequest
<1> QED
  BY <1>5, <1>6, <1>7, <1>8

\* Where the states are on the way.
LEMMA FullIndex ==
  /\ \A i \in 1 .. 14 : FullStates[i] \in InFirst
  /\ \A i \in 15 .. 25 : FullStates[i] \in InHeaders
  /\ FullStates[26] = "expecting_newline_3"
  /\ \A s \in InFirst : \E i \in 1 .. 14 : FullStates[i] = s
  /\ \A s \in InHeaders : \E i \in 16 .. 25 : FullStates[i] = s
<1>1. \A i \in {1, 2, 3, 4, 5, 6, 7, 8, 9, 10, 11, 12, 13, 14} : FullStates[i] \in InFirst
  BY DEF FullStates, InFirst
<1>2. \A i \in {15, 16, 17, 18, 19, 20, 21, 22, 23, 24, 25} : FullStates[i] \in InHeaders
  BY DEF FullStates, InHeaders
<1>3. /\ FullStates[1] = "method_start" /\ FullStates[2] = "method" /\ FullStates[4] = "uri"
      /\ FullStates[5] = "http_version_h" /\ FullStates[6] = "http_version_t_1"
      /\ FullStates[7] = "http_version_t_2" /\ FullStates[8] = "http_version_p"
      /\ FullStates[9] = "http_version_slash" /\ FullStates[10] = "http_version_major_start"
      /\ FullStates[11] = "http_version_major" /\ FullStates[12] = "http_version_minor_start"
      /\ FullStates[13] = "http_version_minor" /\ FullStates[14] = "expecting_newline_1"
  BY DEF FullStates
<1>4. /\ FullStates[16] = "header_name" /\ FullStates[17] = "space_before_header_value"
      /\ FullStates[23] = "header_value" /\ FullStates[24] = "expecting_newline_2"
      /\ FullStates[25] = "header_line_start" /\ FullStates[22] = "header_lws"
      /\ FullStates[26] = "expecting_newline_3"
  BY DEF FullStates
<1>5. \A s \in InFirst : \E i \in 1 .. 14 : FullStates[i] = s
  <2> TAKE s \in InFirst
  <2>1. 1 \in 1 .. 14 /\ 2 \in 1 .. 14 /\ 4 \in 1 .. 14 /\ 5 \in 1 .. 14 /\ 6 \in 1 .. 14 /\ 7 \in 1 .. 14 /\ 8 \in 1 .. 14
        /\ 9 \in 1 .. 14 /\ 10 \in 1 .. 14 /\ 11 \in 1 .. 14 /\ 12 \in 1 .. 14 /\ 13 \in 1 .. 14 /\ 14 \in 1 .. 14
    OBVIOUS
  <2> QED
    BY <1>3, <2>1, Zenon DEF InFirst
<1>6. \A s \in InHeaders : \E i \in 16 .. 25 : FullStates[i] = s
  <2> TAKE s \in InHeaders
  <2>1. 16 \in 16 .. 25 /\ 17 \in 16 .. 25 /\ 22 \in 16 .. 25 /\ 23 \in 16 .. 25 /\ 24 \in 16 .. 25 /\ 25 \in 16 .. 25
    OBVIOUS
  <2> QED
    BY <1>4, <2>1, Zenon DEF InHeaders
<1>7. \A i \in 1 .. 14 : FullStates[i] \in InFirst
  BY <1>1
<1>8. \A i \in 15 .. 25 : FullStates[i] \in InHeaders
  BY <1>2
<1> QED
  BY <1>4, <1>5, <1>6, <1>7, <1>8

LEMMA Joined ==
  ASSUME NEW u \in Seq(Chars), NEW v \in Seq(Chars)
  PROVE  /\ u \o v \in Seq(Chars) /\ Len(u \o v) = Len(u) + Len(v)
         /\ \A k \in 1 .. Len(v) : (u \o v)[Len(u) + k] = v[k]
         /\ \A k \in 1 .. Len(u) : (u \o v)[k] = u[k]
<1>1. u \o v \in Seq(Chars) /\ Len(u \o v) = Len(u) + Len(v)
  BY ConcatProperties
<1>2. \A i \in 1 .. Len(u) + Len(v) : (u \o v)[i] = IF i <= Len(u) THEN u[i] ELSE v[i - Len(u)]
  BY ConcatProperties
<1>3. \A k \in 1 .. Len(v) : /\ Len(u) + k \in 1 .. Len(u) + Len(v) /\ ~(Len(u) + k <= Len(u))
                            /\ Len(u) + k - Len(u) = k
  OBVIOUS
<1>4. \A k \in 1 .. Len(u) : k \in 1 .. Len(u) + Len(v) /\ k <= Len(u)
  OBVIOUS
<1> QED
  BY <1>1, <1>2, <1>3, <1>4

LEMMA FullText == FullRequest \in Seq(Chars) /\ Len(FullRequest) = 26 /\ FullRequest[26] = "LF"
BY DEF FullRequest, Chars

\* The end of FullRequest from the state it is for.
LEMMA EndingFits ==
  ASSUME NEW w \in Seq(Chars), NEW n \in Nat, NEW i \in 1 .. 26, Len(w) = n + 27 - i,
         \A k \in i .. 26 : w[n + (k - i) + 1] = FullRequest[k],
         Described(w, FullStates[i], n, i > 15)
  PROVE  IsRequest(w)
<1> DEFINE D(j) == Described(w, FullStates[j], n + (j - i), j > 15)
           T == {j \in i .. 26 : ~D(j)}
<1>1. D(i)
  <2>1. n + (i - i) = n
    OBVIOUS
  <2> QED
    BY <2>1
<1>2. ASSUME NEW j \in i .. 25, D(j) PROVE D(j + 1)
  <2> DEFINE d == n + (j - i)
  <2>1. d \in Nat /\ d + 1 = n + ((j + 1) - i) /\ w[d + 1] = FullRequest[j] /\ (j > 15) \in BOOLEAN
    OBVIOUS
  <2>2. PICK m \in Moves(j > 15)[FullStates[j]] : FullRequest[j] \in m[1] /\ m[2] = FullStates[j + 1]
    <3>1. j \in 1 .. 25 /\ (j = 21 => j > 15)
      OBVIOUS
    <3> QED
      BY <2>1, <3>1, FullMoves DEF Leads
  <2> HIDE DEF d
  <2>3. Described(w, FullStates[j], d, j > 15)
    BY <1>2 DEF d
  <2>4. CASE j <= 14
    <3>0. j \in 1 .. 14
      BY <2>4
    <3>1. FullStates[j] \in InFirst
      BY <3>0, FullIndex, Zenon
    <3>2. Described(w, m[2], d + 1, j > 15)
      BY <2>1, <2>2, <2>3, <3>1, FirstLineMoves
    <3>3. (j > 15) = (j + 1 > 15)
      BY <2>4
    <3> QED
      BY <2>1, <2>2, <3>2, <3>3
  <2>5. CASE j >= 15
    <3>0. j \in 15 .. 25
      BY <2>5
    <3>1. FullStates[j] \in InHeaders
      BY <3>0, FullIndex, Zenon
    <3>2. Described(w, m[2], d + 1, TRUE)
      BY <2>1, <2>2, <2>3, <3>1, HeaderMoves
    <3>3. (j + 1 > 15) = TRUE
      BY <2>5
    <3> QED
      BY <2>1, <2>2, <3>2, <3>3
  <2> QED
    BY <2>4, <2>5
<1> HIDE DEF D
<1>3. T = {}
  <2> SUFFICES ASSUME T # {} PROVE FALSE
    OBVIOUS
  <2>1. PICK x \in T : \A y \in T : x <= y
    <3>1. T \subseteq Nat
      OBVIOUS
    <3> HIDE DEF T
    <3> QED
      BY <3>1, LeastNumber
  <2>2. x \in i .. 26 /\ ~D(x) /\ x # i
    BY <1>1, <2>1
  <2>3. x - 1 \in i .. 25 /\ x - 1 \in i .. 26 /\ x - 1 \notin T /\ (x - 1) + 1 = x
    BY <2>1, <2>2
  <2>4. D(x - 1)
    BY <2>3
  <2>5. D((x - 1) + 1)
    BY <1>2, <2>3, <2>4
  <2> QED
    BY <2>2, <2>3, <2>5
<1>4. D(26)
  <2>1. 26 \in i .. 26
    OBVIOUS
  <2> QED
    BY <1>3, <2>1
<1> DEFINE e == n + (26 - i)
<1>5. Described(w, "expecting_newline_3", e, 26 > 15)
  BY <1>4, FullIndex DEF D
<1>6. e \in Nat /\ e + 1 = Len(w) /\ w[e + 1] = "LF"
  BY FullText
<1> HIDE DEF e
<1>7. IsRequest(SubSeq(w, 1, e + 1))
  <2>1. w[e] = "CR" /\ Done(w, e)
    BY <1>5 DEF Described
  <2>2. e + 1 <= Len(w)
    BY <1>6
  <2> QED
    BY <1>6, <2>1, <2>2, Sound
<1>8. SubSeq(w, 1, Len(w)) = w
  OBVIOUS
<1> QED
  BY <1>6, <1>7, <1>8

\* From every state there is an ending.
LEMMA EndingFound ==
  ASSUME NEW u \in Seq(Chars), NEW h \in BOOLEAN, NEW s \in States, s \in Appending => h,
         \A v \in Seq(Chars) : Described(u \o v, s, Len(u), h)
  PROVE  \E w \in Endings : IsRequest(u \o w)
<1> DEFINE n == Len(u)
           E(i) == SubSeq(FullRequest, i, 26)
<1>1. ASSUME NEW i \in 1 .. 26
      PROVE  /\ E(i) \in Endings /\ E(i) \in Seq(Chars) /\ u \o E(i) \in Seq(Chars)
             /\ Len(u \o E(i)) = n + 27 - i
             /\ \A k \in i .. 26 : (u \o E(i))[n + (k - i) + 1] = FullRequest[k]
             /\ Described(u \o E(i), s, n, h)
  <2>1. E(i) \in Endings
    BY FullText DEF Endings, From
  <2>2. /\ E(i) \in Seq(Chars) /\ Len(E(i)) = 26 - i + 1
        /\ \A k \in 1 .. 26 - i + 1 : E(i)[k] = FullRequest[i + k - 1]
    <3>1. /\ FullRequest \in Seq(Chars) /\ i \in Nat \ {0} /\ 26 \in Nat /\ 26 <= Len(FullRequest)
          /\ i <= 26 + 1
      BY FullText
    <3> QED
      BY <3>1, Part, ZenonT(60)
  <2> HIDE DEF E
  <2>3. /\ u \o E(i) \in Seq(Chars) /\ Len(u \o E(i)) = n + (26 - i + 1)
        /\ \A k \in 1 .. 26 - i + 1 : (u \o E(i))[n + k] = E(i)[k]
    BY <2>2, Joined
  <2>4. ASSUME NEW k \in i .. 26 PROVE (u \o E(i))[n + (k - i) + 1] = FullRequest[k]
    <3>1. /\ (k - i) + 1 \in 1 .. 26 - i + 1 /\ n + (k - i) + 1 = n + ((k - i) + 1)
          /\ i + ((k - i) + 1) - 1 = k
      OBVIOUS
    <3> QED
      BY <2>2, <2>3, <3>1
  <2>5. n + (26 - i + 1) = n + 27 - i
    OBVIOUS
  <2> QED
    BY <2>1, <2>2, <2>3, <2>4, <2>5
<1>2. n \in Nat
  OBVIOUS
<1> HIDE DEF n, E
<1>3. ASSUME NEW i \in 1 .. 26, FullStates[i] = s, h = (i > 15)
      PROVE  \E w \in Endings : IsRequest(u \o w)
  <2>1. Described(u \o E(i), FullStates[i], n, i > 15)
    BY <1>1, <1>3
  <2>2. IsRequest(u \o E(i))
    BY <1>1, <1>2, <2>1, EndingFits
  <2> QED
    BY <1>1, <2>2
<1>4. CASE s \in InFirst
  <2>1. PICK i \in 1 .. 14 : FullStates[i] = s
    BY <1>4, FullIndex
  <2>2. ~h
    BY <1>1, <1>4 DEF Described
  <2> QED
    BY <1>3, <2>1, <2>2
<1>5. CASE s \in Appending
  <2>1. PICK i \in 16 .. 25 : FullStates[i] = s
    BY <1>5, FullIndex DEF Appending, InHeaders
  <2>2. i \in 1 .. 26 /\ h = (i > 15)
    <3>1. i \in 1 .. 26 /\ (i > 15) = TRUE
      BY <2>1
    <3>2. h
      BY <1>5
    <3> QED
      BY <3>1, <3>2
  <2> QED
    BY <1>3, <2>1, <2>2
<1>6. CASE s = "expecting_newline_3" \/ s = "header_line_start"
  <2> DEFINE i == IF s = "header_line_start" THEN 25 ELSE 26
             e == IF s = "header_line_start" THEN n + 1 ELSE n
             w == u \o E(i)
  <2>1. i \in 1 .. 26 /\ e \in Nat
    BY <1>2
  <2>2. /\ w \in Seq(Chars) /\ Len(w) = n + 27 - i /\ Described(w, s, n, h) /\ E(i) \in Endings
        /\ \A k \in i .. 26 : w[n + (k - i) + 1] = FullRequest[k]
    BY <1>1, <2>1
  <2> HIDE DEF w
  <2>3. /\ e + 1 = Len(w) /\ 26 \in i .. 26 /\ n + (26 - i) + 1 = e + 1
        /\ s = "header_line_start" => 25 \in i .. 26 /\ n + (25 - i) + 1 = n + 1
    BY <1>2, <1>6, <2>2
  <2>4. w[e + 1] = "LF" /\ (s = "header_line_start" => w[n + 1] = "CR")
    <3>1. FullRequest[25] = "CR" /\ FullRequest[26] = "LF"
      BY DEF FullRequest
    <3> QED
      BY <2>2, <2>3, <3>1
  <2>5. w[e] = "CR" /\ Done(w, e)
    BY <1>6, <2>2, <2>4 DEF Described
  <2> HIDE DEF e, i
  <2>6. IsRequest(SubSeq(w, 1, e + 1))
    BY <2>1, <2>2, <2>3, <2>4, <2>5, Sound
  <2>7. SubSeq(w, 1, Len(w)) = w
    BY <2>2
  <2>8. IsRequest(u \o E(i))
    BY <2>3, <2>6, <2>7 DEF w
  <2> QED
    BY <2>2, <2>8
<1> QED
  BY <1>4, <1>5, <1>6 DEF States, InFirst, Appending

\* What has been read, with anything after it: for every v, it is described, and a
\* line that follows a header line finds a header.
ReadWith(v) ==
  /\ Described(Seen \o v, state, pos, headers # <<>>)
  /\ state = "header_line_start" /\ Later(Seen \o v, pos + 1) => headers # <<>>

BInv ==
  /\ PInv /\ BadIffHopeless
  /\ result = "indeterminate" => \A v \in Seq(Chars) : ReadWith(v)

LEMMA Assoc ==
  ASSUME NEW x \in Seq(Chars), NEW y \in Seq(Chars), NEW z \in Seq(Chars)
  PROVE  x \o y \o z = x \o (y \o z)
BY ConcatAssociative

\* One character more of what is read is one less of what is not.
LEMMA Shifted ==
  ASSUME NEW w \in Seq(Chars), NEW n \in Nat, n + 1 <= Len(w), NEW v \in Seq(Chars)
  PROVE  /\ <<w[n + 1]>> \o v \in Seq(Chars)
         /\ SubSeq(w, 1, n + 1) \o v = SubSeq(w, 1, n) \o (<<w[n + 1]>> \o v)
         /\ (SubSeq(w, 1, n) \o (<<w[n + 1]>> \o v))[n + 1] = w[n + 1]
<1> DEFINE c == <<w[n + 1]>>
           a == SubSeq(w, 1, n)
           b == SubSeq(w, 1, n + 1)
<1>1. c \in Seq(Chars) /\ Len(c) = 1 /\ c[1] = w[n + 1]
  OBVIOUS
<1>2. a \in Seq(Chars) /\ Len(a) = n
  BY Part
<1>3. b = a \o c
  OBVIOUS
<1> HIDE DEF a, b, c
<1>4. c \o v \in Seq(Chars) /\ (c \o v)[1] = w[n + 1] /\ Len(c \o v) = 1 + Len(v)
  <2>1. /\ c \o v \in Seq(Chars) /\ Len(c \o v) = Len(c) + Len(v)
        /\ \A k \in 1 .. Len(c) : (c \o v)[k] = c[k]
    BY <1>1, Joined
  <2>2. 1 \in 1 .. Len(c)
    BY <1>1
  <2>3. (c \o v)[1] = c[1]
    BY <2>1, <2>2
  <2> QED
    BY <1>1, <2>1, <2>3
<1>5. b \o v = a \o (c \o v)
  <2>1. (a \o c) \o v = a \o (c \o v)
    BY <1>1, <1>2, Assoc
  <2> QED
    BY <1>3, <2>1
<1>6. (a \o (c \o v))[n + 1] = (c \o v)[1]
  <2>1. 1 \in 1 .. Len(c \o v)
    BY <1>4
  <2> QED
    BY <1>2, <1>4, <2>1, Joined
<1> QED
  BY <1>4, <1>5, <1>6 DEF a, b, c

\* Lines of headers begin after a line.
LEMMA LineStarts ==
  ASSUME NEW h \in BOOLEAN, NEW s \in States, NEW m \in Moves(h)[s], m[2] = "header_line_start"
  PROVE  s \in {"expecting_newline_1", "expecting_newline_2"}
<1>1. s \notin {"method_start", "method", "uri", "http_version_h", "http_version_t_1"}
  BY DEF Moves
<1>2. s \notin {"http_version_t_2", "http_version_p", "http_version_slash",
                "http_version_major_start"}
  BY DEF Moves
<1>3. s \notin {"http_version_major", "http_version_minor_start", "http_version_minor"}
  BY DEF Moves
<1>4. s \notin {"header_line_start", "header_lws", "header_name", "space_before_header_value"}
  BY DEF Moves
<1>5. s \notin {"header_value", "expecting_newline_3"}
  BY DEF Moves
<1> QED
  BY <1>1, <1>2, <1>3, <1>4, <1>5 DEF States

\* A text that goes on with what the parser refused is not a request.
LEMMA Refused ==
  ASSUME PInv, NEW v \in Seq(Chars), ReadWith(v), IsRequest(Seen \o v), Len(v) > 0
  PROVE  Goes(headers # <<>>, state, (Seen \o v)[pos + 1])
<1> DEFINE w == Seen \o v
           h == headers # <<>>
<1>1. /\ w \in Seq(Chars) /\ pos \in Nat /\ pos < Len(w) /\ IsRequest(w) /\ state \in States
  <2>1. /\ input \in Seq(Chars) /\ pos \in Nat /\ pos <= Len(input) /\ state \in States
    BY DEF PInv, IInv
  <2>2. Seen \in Seq(Chars) /\ Len(Seen) = pos
    BY <2>1, Part DEF Seen
  <2> QED
    BY <2>1, <2>2, Joined
<1>2. Described(w, state, pos, h) /\ (state = "header_line_start" /\ Later(w, pos + 1) => h)
  BY DEF ReadWith
<1>3. h \in BOOLEAN
  OBVIOUS
<1> HIDE DEF w, h
<1>4. CASE state \in InFirst
  <2>1. Goes(h, state, w[pos + 1])
    BY <1>1, <1>2, <1>3, <1>4, FirstLineTaken
  <2> QED
    BY <2>1 DEF w, h
<1>5. CASE state \notin InFirst
  <2>1. Goes(h, state, w[pos + 1])
    BY <1>1, <1>2, <1>3, <1>5, HeadersTaken
  <2> QED
    BY <2>1 DEF w, h
<1> QED
  BY <1>4, <1>5

\* What a state to go on in says of the text.
LEMMA StillHopeful ==
  ASSUME PInv, result = "indeterminate", \A v \in Seq(Chars) : ReadWith(v)
  PROVE  BadIffHopeless
<1>1. /\ Seen \in Seq(Chars) /\ Len(Seen) = pos /\ state \in States
      /\ state \in Appending => headers # <<>>
  <2>1. /\ input \in Seq(Chars) /\ pos \in Nat /\ pos <= Len(input) /\ state \in States /\ HasHeader
    BY DEF PInv, IInv
  <2>2. Seen \in Seq(Chars) /\ Len(Seen) = pos
    BY <2>1, Part DEF Seen
  <2> QED
    BY <2>1, <2>2 DEF HasHeader, Appending
<1>2. \A v \in Seq(Chars) : Described(Seen \o v, state, Len(Seen), headers # <<>>)
  BY <1>1 DEF ReadWith
<1>3. (headers # <<>>) \in BOOLEAN
  OBVIOUS
<1>4. \E w \in Endings : IsRequest(Seen \o w)
  BY <1>1, <1>2, <1>3, EndingFound
<1> QED
  BY <1>4 DEF BadIffHopeless

LEMMA EndingsText == \A w \in Endings : w \in Seq(Chars) /\ Len(w) > 0
<1> TAKE w \in Endings
<1>1. PICK i \in 1 .. 26 : w = SubSeq(FullRequest, i, 26)
  BY FullText DEF Endings, From
<1>2. /\ FullRequest \in Seq(Chars) /\ i \in Nat \ {0} /\ 26 \in Nat /\ 26 <= Len(FullRequest)
      /\ i <= 26 + 1
  BY FullText
<1>3. w \in Seq(Chars) /\ Len(w) = 26 - i + 1
  BY <1>1, <1>2, Part, ZenonT(60)
<1> QED
  BY <1>3

LEMMA ReadInit == Init => BInv
<1> SUFFICES ASSUME Init PROVE BInv
  OBVIOUS
<1>1. PInv
  BY PlacedInit
<1>2. ASSUME NEW v \in Seq(Chars) PROVE ReadWith(v)
  <2>1. state = "method_start" /\ pos = 0 /\ headers = <<>>
    BY DEF Init
  <2>2. Described(Seen \o v, "method_start", 0, FALSE)
    BY DEF Described
  <2> QED
    BY <2>1, <2>2 DEF ReadWith
<1> QED
  BY <1>1, <1>2, StillHopeful DEF BInv, Init

\* A move, with anything after it.
LEMMA ReadMove ==
  ASSUME BInv, PInv', result = "indeterminate", pos + 1 <= Len(input), input' = input,
         pos' = pos + 1, NEW m \in Moves(headers # <<>>)[state], input[pos + 1] \in m[1],
         m[2] # "good", state' = m[2], Keep(input[pos + 1], m[2]), NEW v \in Seq(Chars)
  PROVE  ReadWith(v)'
<1> DEFINE c == input[pos + 1]
           u == <<c>> \o v
           w == Seen \o u
           h == headers # <<>>
<1>1. input \in Seq(Chars) /\ pos \in Nat /\ state \in States /\ HasHeader /\ h \in BOOLEAN
  BY DEF BInv, PInv, IInv
<1>2. u \in Seq(Chars) /\ Seen' \o v = w /\ w[pos + 1] = c
  <2>1. Seen = SubSeq(input, 1, pos) /\ Seen' = SubSeq(input, 1, pos + 1)
    BY DEF Seen
  <2> QED
    BY <1>1, <2>1, Shifted
<1> HIDE DEF u
<1>3. Described(w, state, pos, h)
  BY <1>2 DEF BInv, ReadWith
<1> HIDE DEF w
<1>4. m[2] = "header_line_start" /\ Later(w, pos + 2) => headers' # <<>>
  <2> SUFFICES ASSUME m[2] = "header_line_start", Later(w, pos + 2) PROVE headers' # <<>>
    OBVIOUS
  <2>1. state \in {"expecting_newline_1", "expecting_newline_2"}
    BY <1>1, LineStarts
  <2>2. state # "expecting_newline_1"
    <3> SUFFICES ASSUME state = "expecting_newline_1" PROVE FALSE
      OBVIOUS
    <3>1. pos >= 1 /\ FirstLine(w, pos - 1) /\ pos - 1 \in Int
      BY <1>1, <1>3 DEF Described
    <3>2. NoEnds(w, 1, pos - 1)
      BY <3>1, FirstLineHasNoEnds
    <3>3. PICK k \in 1 .. (pos + 2) - 3 : w[k] = "CR"
      BY DEF Later
    <3>4. k \in 1 .. pos - 1
      BY <1>1
    <3> QED
      BY <3>2, <3>3, <3>4 DEF NoEnds
  <2>3. headers # <<>> /\ headers' = headers
    BY <1>1, <2>1, <2>2 DEF HasHeader, Keep, Headers, InValue
  <2> QED
    BY <2>3
<1>5. Described(w, m[2], pos + 1, headers' # <<>>)
  <2>1. CASE state \in InFirst
    <3>1. Described(w, m[2], pos + 1, h)
      BY <1>1, <1>2, <1>3, <2>1, FirstLineMoves
    <3>2. headers' = headers
      BY <1>1, <2>1, FirstLineTargets DEF Keep, Headers, InValue
    <3> QED
      BY <3>1, <3>2
  <2>2. CASE state \in InHeaders
    BY <1>1, <1>2, <1>3, <2>2, HeaderMoves
  <2>3. CASE state = "expecting_newline_3"
    BY <2>3 DEF Moves
  <2> QED
    BY <1>1, <2>1, <2>2, <2>3 DEF States, InFirst, InHeaders
<1>6. (pos + 1) + 1 = pos + 2
  BY <1>1
<1>7. /\ Described(Seen' \o v, state', pos', headers' # <<>>)
      /\ state' = "header_line_start" /\ Later(Seen' \o v, pos' + 1) => headers' # <<>>
  BY <1>2, <1>4, <1>5, <1>6
<1> QED
  BY <1>7 DEF ReadWith

LEMMA ReadStep == BInv /\ [Next]_vars => BInv'
<1> SUFFICES ASSUME BInv, [Next]_vars PROVE BInv'
  OBVIOUS
<1>1. PInv'
  BY PlacedStep DEF BInv
<1>2. CASE UNCHANGED vars
  <2>1. /\ Seen' = Seen /\ state' = state /\ pos' = pos /\ headers' = headers
        /\ result' = result
    BY <1>2 DEF vars, req, Seen
  <2>2. BadIffHopeless'
    BY <2>1 DEF BInv, BadIffHopeless
  <2>3. result' = "indeterminate" => \A v \in Seq(Chars) : ReadWith(v)'
    BY <2>1 DEF BInv, ReadWith
  <2> QED
    BY <1>1, <2>2, <2>3 DEF BInv
<1>3. CASE Next
  <2> DEFINE c == input[pos + 1]
             h == headers # <<>>
  <2>1. /\ Consume(c) /\ pos' = pos + 1 /\ input' = input /\ pos + 1 <= Len(input)
        /\ result = "indeterminate" /\ input \in Seq(Chars) /\ pos \in Nat /\ PInv
    BY <1>3 DEF Next, BInv, PInv, IInv
  <2>2. CASE (\A m \in Moves(h)[state] : c \notin m[1]) /\ result' = "bad"
    <3>1. ASSUME NEW w \in Endings, IsRequest(Seen' \o w) PROVE FALSE
      <4> DEFINE u == <<c>> \o w
      <4>1. w \in Seq(Chars) /\ Len(w) > 0
        BY EndingsText
      <4>2. u \in Seq(Chars) /\ Seen' \o w = Seen \o u /\ (Seen \o u)[pos + 1] = c
        <5>1. Seen = SubSeq(input, 1, pos) /\ Seen' = SubSeq(input, 1, pos + 1)
          BY <2>1 DEF Seen
        <5> QED
          BY <2>1, <4>1, <5>1, Shifted
      <4>3. Len(u) > 0
        BY <4>1
      <4> HIDE DEF u, c, h
      <4>4. ReadWith(u) /\ IsRequest(Seen \o u)
        BY <2>1, <3>1, <4>2 DEF BInv
      <4>5. Goes(headers # <<>>, state, (Seen \o u)[pos + 1])
        BY <2>1, <4>2, <4>3, <4>4, Refused
      <4>6. Goes(h, state, c)
        BY <4>2, <4>5 DEF h
      <4> QED
        BY <2>2, <4>6 DEF Goes
    <3>2. BadIffHopeless'
      BY <2>2, <3>1 DEF BadIffHopeless, Endings, FullRequest, From
    <3> QED
      BY <1>1, <2>2, <3>2 DEF BInv
  <2>3. ASSUME NEW m \in Moves(h)[state], c \in m[1],
               result' = (IF m[2] = "good" THEN "good" ELSE "indeterminate"),
               state' = (IF m[2] = "good" THEN state ELSE m[2]), Keep(c, m[2])
        PROVE  BInv'
    <3>1. CASE m[2] = "good"
      <4>1. result' = "good"
        BY <2>3, <3>1
      <4> QED
        BY <1>1, <4>1 DEF BInv, BadIffHopeless
    <3>2. CASE m[2] # "good"
      <4>1. result' = "indeterminate" /\ state' = m[2]
        BY <2>3, <3>2
      <4>2. \A v \in Seq(Chars) : ReadWith(v)'
        BY <1>1, <2>1, <2>3, <3>2, <4>1, ReadMove
      <4>3. BadIffHopeless'
        <5>1. (PInv /\ result = "indeterminate" /\ (\A v \in Seq(Chars) : ReadWith(v)) => BadIffHopeless)'
          BY StillHopeful, PTL
        <5> QED
          BY <1>1, <4>1, <4>2, <5>1
      <4> QED
        BY <1>1, <4>2, <4>3 DEF BInv
    <3> QED
      BY <3>1, <3>2
  <2> QED
    BY <2>1, <2>2, <2>3 DEF Consume
<1> QED
  BY <1>2, <1>3

\* request_parser.h:31, for every sequence of bytes: the parser gives up at the first
\* character no request can go on from, and at no other.
THEOREM BadAreHopeless == Spec => []BadIffHopeless
<1>1. BInv => BadIffHopeless
  BY DEF BInv
<1> QED
  BY <1>1, ReadInit, ReadStep, PTL DEF Spec

----------------------------------------------------------------------------
(* A text unfolded, character by character.                                *)

IsFoldIn(w, p, q) == w[p] = "CR" /\ w[p + 1] = "LF" /\ AllIn(w, p + 2, q, Spaced)
Folds(w, n, i) == \E p \in 1 .. n - 2 : \E q \in p + 2 .. n : i \in p .. q /\ IsFoldIn(w, p, q)
Pieces(w) == [i \in 1 .. Len(w) |-> IF Folds(w, Len(w), i) THEN <<>> ELSE <<w[i]>>]

LEMMA UnfoldedIs == \A w : Unfolded(w) = FlattenSeq(Pieces(w))
BY DEF Unfolded, Pieces, Folds, IsFoldIn, AllIn, Spaced

LEMMA PiecesType == ASSUME NEW w \in Seq(Chars) PROVE Pieces(w) \in Seq(Seq(Chars)) /\ Len(Pieces(w)) = Len(w)
<1>1. \A i \in 1 .. Len(w) : <<>> \in Seq(Chars) /\ <<w[i]>> \in Seq(Chars)
  OBVIOUS
<1>2. PICK Q : Q = Seq(Chars)
  OBVIOUS
<1>3. Pieces(w) \in Seq(Q) /\ Len(Pieces(w)) = Len(w)
  BY <1>1, <1>2 DEF Pieces
<1> QED
  BY <1>2, <1>3

\* Text that could go on as a fold: a newline and spaces are all of its end.
AtFold(u) == \E p \in 1 .. Len(u) - 1 : IsFoldIn(u, p, Len(u))

LEMMA OnePiece ==
  ASSUME NEW u \in Seq(Chars), NEW c \in Chars,
         \A i \in 1 .. Len(u) : Folds(Append(u, c), Len(u) + 1, i) <=> Folds(u, Len(u), i)
  PROVE  Pieces(Append(u, c)) =
           Append(Pieces(u), IF Folds(Append(u, c), Len(u) + 1, Len(u) + 1) THEN <<>> ELSE <<c>>)
<1> DEFINE w == Append(u, c)
           n == Len(u)
           x == IF Folds(w, n + 1, n + 1) THEN <<>> ELSE <<c>>
           P(v, m, i) == IF Folds(v, m, i) THEN <<>> ELSE <<v[i]>>
<1>1. n \in Nat /\ Len(w) = n + 1 /\ w[n + 1] = c /\ \A i \in 1 .. n : w[i] = u[i]
  OBVIOUS
<1> HIDE DEF w
<1>2. Pieces(w) = [i \in 1 .. n + 1 |-> P(w, n + 1, i)]
  BY <1>1 DEF Pieces
<1>3. Pieces(u) = [i \in 1 .. n |-> P(u, n, i)]
  BY DEF Pieces
<1>4. \A i \in 1 .. n : P(w, n + 1, i) = P(u, n, i)
  BY <1>1 DEF w
<1>5. P(w, n + 1, n + 1) = x
  BY <1>1
<1> HIDE DEF P, x
<1>6. Pieces(w) = Append(Pieces(u), x)
  BY <1>1, <1>2, <1>3, <1>4, <1>5
<1> QED
  BY <1>6 DEF w, x

\* A character that continues no fold is kept.
LEMMA CharKept ==
  ASSUME NEW u \in Seq(Chars), NEW c \in Chars, c \notin Spaced \/ ~AtFold(u)
  PROVE  Unfolded(Append(u, c)) = Append(Unfolded(u), c)
<1> DEFINE w == Append(u, c)
           n == Len(u)
<1>1. n \in Nat /\ w[n + 1] = c /\ \A i \in 1 .. n : w[i] = u[i]
  OBVIOUS
<1> HIDE DEF w, n
<1>2. ASSUME NEW p \in 1 .. n - 1, NEW q \in p + 2 .. n + 1, IsFoldIn(w, p, q)
      PROVE  q <= n /\ p <= n - 2 /\ IsFoldIn(u, p, q)
  <2>1. q # n + 1
    <3> SUFFICES ASSUME q = n + 1 PROVE FALSE
      OBVIOUS
    <3>1. n + 1 \in p + 2 .. q
      BY <1>1
    <3>2. c \in Spaced
      BY <1>1, <1>2, <3>1 DEF IsFoldIn, AllIn
    <3>3. IsFoldIn(u, p, n)
      BY <1>1, <1>2 DEF IsFoldIn, AllIn
    <3>4. AtFold(u)
      BY <3>3 DEF AtFold, n
    <3> QED
      BY <3>2, <3>4
  <2>2. q <= n /\ p <= n - 2
    BY <1>1, <2>1
  <2>3. IsFoldIn(u, p, q)
    BY <1>1, <1>2, <2>2 DEF IsFoldIn, AllIn
  <2> QED
    BY <2>2, <2>3
<1>3. ASSUME NEW p \in 1 .. n - 2, NEW q \in p + 2 .. n, IsFoldIn(u, p, q)
      PROVE  p \in 1 .. (n + 1) - 2 /\ q \in p + 2 .. n + 1 /\ IsFoldIn(w, p, q)
  BY <1>1, <1>3 DEF IsFoldIn, AllIn
<1>4. (n + 1) - 2 = n - 1
  BY <1>1
<1>5. ASSUME NEW i \in 1 .. n PROVE Folds(w, n + 1, i) <=> Folds(u, n, i)
  <2>1. ASSUME Folds(w, n + 1, i) PROVE Folds(u, n, i)
    <3>1. PICK p \in 1 .. n - 1 : \E q \in p + 2 .. n + 1 : i \in p .. q /\ IsFoldIn(w, p, q)
      BY <1>4, <2>1 DEF Folds
    <3>2. PICK q \in p + 2 .. n + 1 : i \in p .. q /\ IsFoldIn(w, p, q)
      BY <3>1
    <3>3. q <= n /\ p <= n - 2 /\ IsFoldIn(u, p, q)
      BY <1>2, <3>2
    <3>4. p \in 1 .. n - 2 /\ q \in p + 2 .. n
      BY <1>1, <3>3
    <3> QED
      BY <3>2, <3>3, <3>4 DEF Folds
  <2>2. ASSUME Folds(u, n, i) PROVE Folds(w, n + 1, i)
    <3>1. PICK p \in 1 .. n - 2 : \E q \in p + 2 .. n : i \in p .. q /\ IsFoldIn(u, p, q)
      BY <2>2 DEF Folds
    <3>2. PICK q \in p + 2 .. n : i \in p .. q /\ IsFoldIn(u, p, q)
      BY <3>1
    <3>3. p \in 1 .. (n + 1) - 2 /\ q \in p + 2 .. n + 1 /\ IsFoldIn(w, p, q)
      BY <1>3, <3>2
    <3> QED
      BY <3>2, <3>3 DEF Folds
  <2> QED
    BY <2>1, <2>2
<1>6. ~Folds(w, n + 1, n + 1)
  <2> SUFFICES ASSUME Folds(w, n + 1, n + 1) PROVE FALSE
    OBVIOUS
  <2>1. PICK p \in 1 .. n - 1 : \E q \in p + 2 .. n + 1 : n + 1 \in p .. q /\ IsFoldIn(w, p, q)
    BY <1>4 DEF Folds
  <2>2. PICK q \in p + 2 .. n + 1 : n + 1 \in p .. q /\ IsFoldIn(w, p, q)
    BY <2>1
  <2>3. q <= n
    BY <1>2, <2>2
  <2> QED
    BY <1>1, <2>2, <2>3
<1>7. Pieces(w) = Append(Pieces(u), <<c>>)
  BY <1>5, <1>6, OnePiece DEF w, n
<1>8. /\ Pieces(u) \in Seq(Seq(Chars)) /\ <<c>> \in Seq(Chars)
      /\ FlattenSeq(Pieces(u)) \in Seq(Chars)
  BY PiecesType, FlatType
<1>9. FlattenSeq(Pieces(w)) = FlattenSeq(Pieces(u)) \o <<c>>
  BY <1>7, <1>8, FlatAppend
<1>10. FlattenSeq(Pieces(u)) \o <<c>> = Append(FlattenSeq(Pieces(u)), c)
  BY <1>8
<1> QED
  BY <1>9, <1>10, UnfoldedIs DEF w

\* A space that goes on with a fold is left out.
LEMMA FoldGoesOn ==
  ASSUME NEW u \in Seq(Chars), NEW c \in Spaced, NEW p \in 1 .. Len(u) - 2,
         IsFoldIn(u, p, Len(u))
  PROVE  Unfolded(Append(u, c)) = Unfolded(u)
<1> DEFINE w == Append(u, c)
           n == Len(u)
<1>1. n \in Nat /\ w[n + 1] = c /\ (\A i \in 1 .. n : w[i] = u[i]) /\ c \in Chars
  BY DEF Spaced, Chars
<1> HIDE DEF w
<1>2. IsFoldIn(w, p, n + 1) /\ p \in 1 .. (n + 1) - 2 /\ n + 1 \in p + 2 .. n + 1
  <2>1. \A k \in p + 2 .. n + 1 : k \in p + 2 .. n \/ k = n + 1
    BY <1>1
  <2>2. w[p] = "CR" /\ w[p + 1] = "LF"
    BY <1>1 DEF IsFoldIn
  <2>3. AllIn(w, p + 2, n + 1, Spaced)
    BY <1>1, <2>1 DEF IsFoldIn, AllIn
  <2> QED
    BY <1>1, <2>2, <2>3 DEF IsFoldIn
<1>3. u[n] \in Spaced
  <2>1. n \in p + 2 .. n
    BY <1>1
  <2> QED
    BY <2>1 DEF IsFoldIn, AllIn
<1> HIDE DEF n
<1>4. (n + 1) - 2 = n - 1
  BY <1>1
<1>5. ASSUME NEW i \in 1 .. n PROVE Folds(w, n + 1, i) <=> Folds(u, n, i)
  <2>1. ASSUME Folds(w, n + 1, i) PROVE Folds(u, n, i)
    <3>1. PICK a \in 1 .. n - 1 : \E q \in a + 2 .. n + 1 : i \in a .. q /\ IsFoldIn(w, a, q)
      BY <1>4, <2>1 DEF Folds
    <3>2. PICK q \in a + 2 .. n + 1 : i \in a .. q /\ IsFoldIn(w, a, q)
      BY <3>1
    <3>3. a # n - 1
      BY <1>1, <1>3, <3>2 DEF IsFoldIn, Spaced
    <3>4. a \in 1 .. n - 2
      BY <1>1, <3>3
    <3>5. CASE q = n + 1
      <4>1. IsFoldIn(u, a, n) /\ n \in a + 2 .. n /\ i \in a .. n
        BY <1>1, <3>2, <3>4, <3>5 DEF IsFoldIn, AllIn
      <4> QED
        BY <3>4, <4>1 DEF Folds
    <3>6. CASE q # n + 1
      <4>1. IsFoldIn(u, a, q) /\ q \in a + 2 .. n
        BY <1>1, <3>2, <3>4, <3>6 DEF IsFoldIn, AllIn
      <4> QED
        BY <3>2, <3>4, <4>1 DEF Folds
    <3> QED
      BY <3>5, <3>6
  <2>2. ASSUME Folds(u, n, i) PROVE Folds(w, n + 1, i)
    <3>1. PICK a \in 1 .. n - 2 : \E q \in a + 2 .. n : i \in a .. q /\ IsFoldIn(u, a, q)
      BY <2>2 DEF Folds
    <3>2. PICK q \in a + 2 .. n : i \in a .. q /\ IsFoldIn(u, a, q)
      BY <3>1
    <3>3. a \in 1 .. (n + 1) - 2 /\ q \in a + 2 .. n + 1 /\ IsFoldIn(w, a, q)
      BY <1>1, <3>2 DEF IsFoldIn, AllIn
    <3> QED
      BY <3>2, <3>3 DEF Folds
  <2> QED
    BY <2>1, <2>2
<1>6. Folds(w, n + 1, n + 1)
  <2>1. n + 1 \in p .. n + 1
    BY <1>1, <1>2
  <2> QED
    BY <1>2, <2>1 DEF Folds
<1>7. Pieces(w) = Append(Pieces(u), <<>>)
  BY <1>1, <1>5, <1>6, OnePiece DEF w, n
<1>8. /\ Pieces(u) \in Seq(Seq(Chars)) /\ <<>> \in Seq(Chars)
      /\ FlattenSeq(Pieces(u)) \in Seq(Chars)
  BY PiecesType, FlatType
<1>9. FlattenSeq(Pieces(w)) = FlattenSeq(Pieces(u)) \o <<>>
  BY <1>7, <1>8, FlatAppend
<1> QED
  BY <1>8, <1>9, ConcatEmptySeq, UnfoldedIs DEF w

\* The first space after a newline makes a fold of both.
LEMMA FoldBegins ==
  ASSUME NEW u \in Seq(Chars), NEW c \in Spaced, Len(u) >= 2, u[Len(u) - 1] = "CR",
         u[Len(u)] = "LF"
  PROVE  Unfolded(u) = Append(Append(Unfolded(Append(u, c)), "CR"), "LF")
<1> DEFINE w == Append(u, c)
           n == Len(u)
           a == SubSeq(u, 1, n - 2)
           b == Append(a, "CR")
<1>1. /\ n \in Nat /\ n >= 2 /\ w[n + 1] = c /\ (\A i \in 1 .. n : w[i] = u[i]) /\ c \in Chars
      /\ w \in Seq(Chars) /\ Len(w) = n + 1 /\ {"CR", "LF"} \subseteq Chars /\ w[n - 1] = "CR" /\ w[n] = "LF"
  BY DEF Spaced, Chars
<1>2. a \in Seq(Chars) /\ Len(a) = n - 2 /\ \A i \in 1 .. n - 2 : a[i] = w[i]
  <2>0. PICK m \in Nat : m = n - 2 /\ m <= Len(u) /\ 1 <= m + 1
    <3> HIDE DEF a, w
    <3>1. n \in Nat /\ n >= 2 /\ n = Len(u)
      BY <1>1
    <3>2. n - 2 \in Nat /\ n - 2 <= Len(u) /\ 1 <= (n - 2) + 1
      BY <3>1
    <3> QED
      BY <3>2
  <2> DEFINE x == SubSeq(u, 1, m)
  <2>1. /\ x \in Seq(Chars) /\ Len(x) = m - 1 + 1
        /\ \A i \in 1 .. m - 1 + 1 : x[i] = u[1 + i - 1]
    BY <2>0, Part
  <2>2. m - 1 + 1 = m /\ \A i \in 1 .. m : 1 + i - 1 = i /\ i \in 1 .. n
    BY <2>0
  <2>3. x = a
    BY <2>0
  <2> HIDE DEF a, w, x
  <2>4. \A i \in 1 .. m : x[i] = w[i]
    BY <1>1, <2>1, <2>2
  <2> QED
    BY <2>0, <2>1, <2>2, <2>3, <2>4
<1>3. u = Append(b, "LF") /\ b \in Seq(Chars)
  BY <1>1
<1>4. Unfolded(u) = Append(Append(Unfolded(a), "CR"), "LF")
  <2>1. "CR" \notin Spaced /\ "LF" \notin Spaced
    BY DEF Spaced
  <2>2. Unfolded(b) = Append(Unfolded(a), "CR")
    BY <1>1, <1>2, <2>1, CharKept
  <2>3. Unfolded(Append(b, "LF")) = Append(Unfolded(b), "LF")
    BY <1>1, <1>3, <2>1, CharKept
  <2> QED
    BY <1>3, <2>2, <2>3
<1> HIDE DEF a, w, n
<1>5. ASSUME NEW p \in 1 .. n - 1, NEW q \in p + 2 .. n + 1, IsFoldIn(w, p, q)
      PROVE  (p = n - 1 /\ q = n + 1) \/ (p \in 1 .. n - 4 /\ q \in p + 2 .. n - 2)
  <2>1. \A k \in p + 2 .. q : w[k] \notin {"CR", "LF"}
    BY <1>5 DEF IsFoldIn, AllIn, Spaced
  <2>2. n - 1 \notin p + 2 .. q /\ n \notin p + 2 .. q
    BY <1>1, <2>1
  <2>3. p # n - 2
    <3>1. p = n - 2 => p + 1 = n - 1
      BY <1>1
    <3> QED
      BY <1>1, <1>5, <3>1 DEF IsFoldIn
  <2> QED
    BY <1>1, <2>2, <2>3
<1>6. IsFoldIn(w, n - 1, n + 1)
  <2>1. (n - 1) + 1 = n /\ (n - 1) + 2 = n + 1 /\ \A k \in n + 1 .. n + 1 : k = n + 1
    BY <1>1
  <2> QED
    BY <1>1, <2>1 DEF IsFoldIn, AllIn
<1>7. \A i \in {n - 1, n, n + 1} : Folds(w, n + 1, i)
  <2>1. n - 1 \in 1 .. (n + 1) - 2 /\ n + 1 \in (n - 1) + 2 .. n + 1
        /\ \A i \in {n - 1, n, n + 1} : i \in n - 1 .. n + 1
    BY <1>1
  <2> QED
    BY <1>6, <2>1 DEF Folds
<1>8. ASSUME NEW i \in 1 .. n - 2 PROVE Folds(w, n + 1, i) <=> Folds(a, n - 2, i)
  <2>1. ASSUME Folds(w, n + 1, i) PROVE Folds(a, n - 2, i)
    <3>0. (n + 1) - 2 = n - 1
      BY <1>1
    <3>1. PICK p \in 1 .. n - 1 : \E q \in p + 2 .. n + 1 : i \in p .. q /\ IsFoldIn(w, p, q)
      BY <2>1, <3>0 DEF Folds
    <3>2. PICK q \in p + 2 .. n + 1 : i \in p .. q /\ IsFoldIn(w, p, q)
      BY <3>1
    <3>3. p # n - 1
      BY <1>1, <3>2
    <3>4. p \in 1 .. n - 4 /\ q \in p + 2 .. n - 2
      BY <1>5, <3>2, <3>3
    <3>5. IsFoldIn(a, p, q)
      <4>1. p \in 1 .. n - 2 /\ p + 1 \in 1 .. n - 2 /\ \A k \in p + 2 .. q : k \in 1 .. n - 2
        BY <1>1, <3>4
      <4> QED
        BY <1>2, <3>2, <4>1 DEF IsFoldIn, AllIn
    <3>6. p \in 1 .. (n - 2) - 2
      BY <1>1, <3>4
    <3> QED
      BY <3>2, <3>4, <3>5, <3>6 DEF Folds
  <2>2. ASSUME Folds(a, n - 2, i) PROVE Folds(w, n + 1, i)
    <3>1. PICK p \in 1 .. (n - 2) - 2 : \E q \in p + 2 .. n - 2 : i \in p .. q /\ IsFoldIn(a, p, q)
      BY <2>2 DEF Folds
    <3>2. PICK q \in p + 2 .. n - 2 : i \in p .. q /\ IsFoldIn(a, p, q)
      BY <3>1
    <3>3. p \in 1 .. (n + 1) - 2 /\ q \in p + 2 .. n + 1
      BY <1>1, <3>2
    <3>4. IsFoldIn(w, p, q)
      <4>1. p \in 1 .. n - 2 /\ p + 1 \in 1 .. n - 2 /\ \A k \in p + 2 .. q : k \in 1 .. n - 2
        BY <1>1, <3>2
      <4> QED
        BY <1>2, <3>2, <4>1 DEF IsFoldIn, AllIn
    <3> QED
      BY <3>2, <3>3, <3>4 DEF Folds
  <2> QED
    BY <2>1, <2>2
<1> DEFINE A == Pieces(a)
           B == Append(A, <<>>)
           C == Append(B, <<>>)
           D == Append(C, <<>>)
<1>9. A \in Seq(Seq(Chars)) /\ Len(A) = n - 2 /\ <<>> \in Seq(Chars)
  BY <1>2, PiecesType
<1>10. Pieces(w) = D
  <2>1. Pieces(w) = [i \in 1 .. n + 1 |-> IF Folds(w, n + 1, i) THEN <<>> ELSE <<w[i]>>]
    BY <1>1 DEF Pieces
  <2>2. A = [i \in 1 .. n - 2 |-> IF Folds(a, n - 2, i) THEN <<>> ELSE <<a[i]>>]
    BY <1>2 DEF Pieces
  <2>3. \A i \in 1 .. n - 2 :
          (IF Folds(w, n + 1, i) THEN <<>> ELSE <<w[i]>>) = (IF Folds(a, n - 2, i) THEN <<>> ELSE <<a[i]>>)
    BY <1>2, <1>8
  <2>4. \A i \in 1 .. n - 2 : Pieces(w)[i] = A[i]
    <3> TAKE i \in 1 .. n - 2
    <3>1. i \in 1 .. n + 1
      BY <1>1
    <3> QED
      BY <2>1, <2>2, <2>3, <3>1
  <2>5. Pieces(w)[n - 1] = <<>> /\ Pieces(w)[n] = <<>> /\ Pieces(w)[n + 1] = <<>>
    <3>1. n - 1 \in 1 .. n + 1 /\ n \in 1 .. n + 1 /\ n + 1 \in 1 .. n + 1
      BY <1>1
    <3> QED
      BY <1>7, <2>1, <3>1
  <2>6. Pieces(w) \in Seq(Seq(Chars)) /\ Len(Pieces(w)) = n + 1
    BY <1>1, PiecesType
  <2> DEFINE v == Pieces(w)
  <2> HIDE DEF A, v
  <2>7. PICK Q : Q = Seq(Chars)
    OBVIOUS
  <2>8. v \in Seq(Q) /\ A \in Seq(Q) /\ <<>> \in Q /\ Len(A) = n - 2 /\ Len(v) = n + 1
    BY <1>9, <2>6, <2>7 DEF v
  <2>9. v[n - 1] = <<>> /\ v[n] = <<>> /\ v[n + 1] = <<>> /\ \A i \in 1 .. n - 2 : v[i] = A[i]
    BY <2>4, <2>5 DEF v
  <2>10. D \in Seq(Q) /\ Len(D) = n + 1 /\ \A i \in 1 .. n + 1 : D[i] = v[i]
    <3>1. B \in Seq(Q) /\ Len(B) = n - 1 /\ B[n - 1] = <<>> /\ \A i \in 1 .. n - 2 : B[i] = A[i]
      BY <1>1, <2>8, OneAppended
    <3>2. C \in Seq(Q) /\ Len(C) = n /\ C[n] = <<>> /\ \A i \in 1 .. n - 1 : C[i] = B[i]
      BY <1>1, <2>8, <3>1, OneAppended
    <3>3. D \in Seq(Q) /\ Len(D) = n + 1 /\ D[n + 1] = <<>> /\ \A i \in 1 .. n : D[i] = C[i]
      BY <1>1, <2>8, <3>2, OneAppended
    <3> HIDE DEF B, C, D
    <3>4. ASSUME NEW i \in 1 .. n + 1 PROVE D[i] = v[i]
      <4>1. i \in 1 .. n - 2 \/ i = n - 1 \/ i = n \/ i = n + 1
        BY <1>1
      <4> QED
        BY <1>1, <2>9, <3>1, <3>2, <3>3, <4>1
    <3> QED
      BY <3>3, <3>4
  <2> HIDE DEF D
  <2>11. v = D
    BY <2>8, <2>10, SeqEqual
  <2> QED
    BY <2>11 DEF v
<1> HIDE DEF A
<1>11. FlattenSeq(D) = FlattenSeq(A) /\ FlattenSeq(A) \in Seq(Chars)
  <2>1. FlattenSeq(A) \in Seq(Chars)
    BY <1>9, FlatType
  <2>2. B \in Seq(Seq(Chars)) /\ C \in Seq(Seq(Chars))
    <3>1. PICK Q : Q = Seq(Chars)
      OBVIOUS
    <3>2. A \in Seq(Q) /\ <<>> \in Q
      BY <1>9, <3>1
    <3>3. B \in Seq(Q)
      BY <3>2, OneAppended
    <3>4. C \in Seq(Q)
      BY <3>2, <3>3, OneAppended
    <3> QED
      BY <3>1, <3>3, <3>4
  <2> HIDE DEF B
  <2>3. FlattenSeq(Append(B, <<>>)) = FlattenSeq(B) \o <<>>
    BY <1>9, <2>2, FlatAppend
  <2> HIDE DEF C
  <2>4. FlattenSeq(Append(C, <<>>)) = FlattenSeq(C) \o <<>>
    BY <1>9, <2>2, FlatAppend
  <2>5. FlattenSeq(Append(A, <<>>)) = FlattenSeq(A) \o <<>>
    BY <1>9, FlatAppend
  <2>6. FlattenSeq(B) = FlattenSeq(A)
    BY <2>1, <2>5, ConcatEmptySeq DEF B
  <2>7. FlattenSeq(C) = FlattenSeq(A)
    BY <2>1, <2>3, <2>6, ConcatEmptySeq DEF C
  <2>8. FlattenSeq(D) = FlattenSeq(A)
    BY <2>1, <2>4, <2>7, ConcatEmptySeq
  <2> QED
    BY <2>1, <2>8
<1> HIDE DEF D
<1>12. Unfolded(w) = Unfolded(a)
  BY <1>10, <1>11, UnfoldedIs DEF A
<1> QED
  BY <1>4, <1>12 DEF w

----------------------------------------------------------------------------
(* What the parts of a request spell.                                      *)

Target(me, u) == Append(me, "SP") \o u
Slash(me, u) ==
  Append(Append(Append(Append(Append(Append(Target(me, u), "SP"), "H"), "T"), "T"), "P"), "/")
Dot(me, u, ma) == Append(Slash(me, u) \o ma, ".")
FirstPart(me, u, ma, mi) == Append(Append(Dot(me, u, ma) \o mi, "CR"), "LF")

\* In each state of the first line, the text is its parts so far, the later ones empty.
SpelledFirst(t, s, me, u, ma, mi) ==
  /\ s \in {"method_start", "method"} => t = me /\ u = <<>>
  /\ s = "method_start" => me = <<>>
  /\ s = "uri" => t = Target(me, u)
  /\ s = "http_version_h" => t = Append(Target(me, u), "SP")
  /\ s = "http_version_t_1" => t = Append(Append(Target(me, u), "SP"), "H")
  /\ s = "http_version_t_2" => t = Append(Append(Append(Target(me, u), "SP"), "H"), "T")
  /\ s = "http_version_p" =>
       t = Append(Append(Append(Append(Target(me, u), "SP"), "H"), "T"), "T")
  /\ s = "http_version_slash" =>
       t = Append(Append(Append(Append(Append(Target(me, u), "SP"), "H"), "T"), "T"), "P")
  /\ s = "http_version_major_start" => t = Slash(me, u)
  /\ s = "http_version_major" => t = Slash(me, u) \o ma
  /\ s = "http_version_minor_start" => t = Dot(me, u, ma)
  /\ s = "http_version_minor" => t = Dot(me, u, ma) \o mi
  /\ s = "expecting_newline_1" => t = Append(Dot(me, u, ma) \o mi, "CR")
  /\ s \notin {"http_version_major", "http_version_minor_start", "http_version_minor",
               "expecting_newline_1"} => ma = <<>>
  /\ s \notin {"http_version_minor", "expecting_newline_1"} => mi = <<>>

LEMMA AppendLast ==
  ASSUME NEW x \in Seq(Chars), NEW y \in Seq(Chars), NEW c \in Chars
  PROVE  /\ x \o Append(y, c) = Append(x \o y, c) /\ x \o <<>> = x /\ x \o <<c>> = Append(x, c)
         /\ Append(x, c) \in Seq(Chars) /\ x \o y \in Seq(Chars)
<1>1. x \o Append(y, c) = Append(x \o y, c)
  OBVIOUS
<1>2. x \o <<>> = x /\ x \o <<c>> = Append(x, c) /\ Append(x, c) \in Seq(Chars) /\ x \o y \in Seq(Chars)
  OBVIOUS
<1> QED
  BY <1>1, <1>2

LEMMA SlashText ==
  ASSUME NEW me \in Seq(Chars), NEW u \in Seq(Chars)
  PROVE  /\ Target(me, u) \in Seq(Chars) /\ Slash(me, u) \in Seq(Chars)
         /\ \A ma \in Seq(Chars) : Dot(me, u, ma) \in Seq(Chars)
<1>1. {"SP", "H", "T", "P", "/", "."} \subseteq Chars
  BY DEF Chars
<1>2. Target(me, u) \in Seq(Chars)
  BY <1>1, AppendLast DEF Target
<1>3. Slash(me, u) \in Seq(Chars)
  BY <1>1, <1>2, AppendLast DEF Slash
<1>4. \A ma \in Seq(Chars) : Dot(me, u, ma) \in Seq(Chars)
  BY <1>1, <1>3, AppendLast DEF Dot
<1> QED
  BY <1>2, <1>3, <1>4

\* What is kept of a character that leads to a state; all of it is kept in the
\* version's digits.
Grown(x, c, b) == IF b THEN Append(x, c) ELSE x

FirstKept(t, s, me, u, ma, mi) ==
  /\ t \in Seq(Chars) /\ me \in Seq(Chars) /\ u \in Seq(Chars) /\ ma \in Seq(Chars) /\ mi \in Seq(Chars)
  /\ SpelledFirst(t, s, me, u, ma, mi)

LEMMA FirstSpelled ==
  ASSUME NEW s \in InFirst, NEW h \in BOOLEAN, NEW c \in Chars, NEW t, NEW me, NEW u, NEW ma, NEW mi,
         FirstKept(t, s, me, u, ma, mi), NEW m \in Moves(h)[s], c \in m[1]
  PROVE  /\ m[2] # "header_line_start" =>
              SpelledFirst(Append(t, c), m[2], Grown(me, c, m[2] = "method"),
                           Grown(u, c, m[2] = "uri" /\ s = "uri"),
                           Grown(ma, c, m[2] = "http_version_major"),
                           Grown(mi, c, m[2] = "http_version_minor"))
         /\ m[2] = "header_line_start" => Append(t, c) = FirstPart(me, u, ma, mi)
<1> SUFFICES ASSUME NEW me2, NEW u2, NEW ma2, NEW mi2,
                    me2 = (IF m[2] = "method" THEN Append(me, c) ELSE me),
                    u2 = (IF m[2] = "uri" /\ s = "uri" THEN Append(u, c) ELSE u),
                    ma2 = (IF m[2] = "http_version_major" THEN Append(ma, c) ELSE ma),
                    mi2 = (IF m[2] = "http_version_minor" THEN Append(mi, c) ELSE mi)
             PROVE  /\ m[2] # "header_line_start" =>
                         SpelledFirst(Append(t, c), m[2], me2, u2, ma2, mi2)
                    /\ m[2] = "header_line_start" => Append(t, c) = FirstPart(me2, u2, ma2, mi2)
  BY DEF Grown
<1>0. /\ t \in Seq(Chars) /\ me \in Seq(Chars) /\ u \in Seq(Chars) /\ ma \in Seq(Chars)
      /\ mi \in Seq(Chars) /\ SpelledFirst(t, s, me, u, ma, mi)
  BY DEF FirstKept
<1> USE <1>0
<1>1. CASE s \in {"method_start", "method"}
  <2>1. (m[2] = "uri" /\ c = "SP" /\ s = "method") \/ m[2] = "method"
    BY <1>1 DEF Moves
  <2>2. t = me /\ u = <<>> /\ ma = <<>> /\ mi = <<>>
    BY <1>1 DEF SpelledFirst
  <2>3. CASE m[2] = "uri"
    <3>1. Append(t, c) = Target(me, <<>>) /\ me2 = me /\ u2 = <<>> /\ ma2 = <<>> /\ mi2 = <<>>
      BY <1>1, <2>1, <2>2, <2>3, AppendLast DEF Target
    <3> QED
      BY <2>3, <3>1 DEF SpelledFirst
  <2>4. CASE m[2] = "method"
    BY <2>2, <2>4 DEF SpelledFirst
  <2> QED
    BY <2>1, <2>3, <2>4
<1>2. CASE s = "uri"
  <2>1. (m[2] = "http_version_h" /\ c = "SP") \/ m[2] = "uri"
    BY <1>2 DEF Moves
  <2>2. t = Target(me, u) /\ ma = <<>> /\ mi = <<>>
    BY <1>2 DEF SpelledFirst
  <2>3. CASE m[2] = "http_version_h" /\ c = "SP"
    BY <1>2, <2>2, <2>3 DEF SpelledFirst
  <2>4. CASE m[2] = "uri"
    <3>1. Append(t, c) = Target(me, Append(u, c))
      <4>1. Append(me, "SP") \in Seq(Chars)
        BY DEF Chars
      <4>2. Append(me, "SP") \o Append(u, c) = Append(Append(me, "SP") \o u, c)
        BY <4>1, AppendLast, SMTT(30)
      <4> QED
        BY <2>2, <4>2 DEF Target
    <3> QED
      BY <1>2, <2>2, <2>4, <3>1 DEF SpelledFirst
  <2> QED
    BY <2>1, <2>3, <2>4
<1>3. CASE s \in {"http_version_h", "http_version_t_1"}
  <2>1. /\ s = "http_version_h" => m[2] = "http_version_t_1" /\ c = "H"
        /\ s = "http_version_t_1" => m[2] = "http_version_t_2" /\ c = "T"
    BY <1>3 DEF Moves
  <2> QED
    BY <1>3, <2>1 DEF SpelledFirst
<1>4. CASE s \in {"http_version_t_2", "http_version_p", "http_version_slash"}
  <2>1. /\ s = "http_version_t_2" => m[2] = "http_version_p" /\ c = "T"
        /\ s = "http_version_p" => m[2] = "http_version_slash" /\ c = "P"
        /\ s = "http_version_slash" => m[2] = "http_version_major_start" /\ c = "/"
    BY <1>4 DEF Moves
  <2> QED
    BY <1>4, <2>1 DEF SpelledFirst, Slash
<1>5. CASE s \in {"http_version_major_start", "http_version_major"}
  <2>1. (m[2] = "http_version_minor_start" /\ c = "." /\ s = "http_version_major") \/ m[2] = "http_version_major"
    BY <1>5 DEF Moves
  <2>2. t = Slash(me, u) \o ma /\ mi = <<>>
    BY <1>5, SlashText, AppendLast DEF SpelledFirst
  <2>3. CASE m[2] = "http_version_minor_start" /\ c = "."
    BY <2>2, <2>3 DEF SpelledFirst, Dot
  <2>4. CASE m[2] = "http_version_major"
    <3>1. Append(t, c) = Slash(me, u) \o Append(ma, c)
      <4>1. Slash(me, u) \in Seq(Chars)
        BY SlashText
      <4>2. Slash(me, u) \o Append(ma, c) = Append(Slash(me, u) \o ma, c)
        BY <4>1, AppendLast, SMTT(30)
      <4> QED
        BY <2>2, <4>2
    <3> QED
      BY <2>2, <2>4, <3>1 DEF SpelledFirst
  <2> QED
    BY <2>1, <2>3, <2>4
<1>6. CASE s \in {"http_version_minor_start", "http_version_minor"}
  <2>1. (m[2] = "expecting_newline_1" /\ c = "CR" /\ s = "http_version_minor") \/ m[2] = "http_version_minor"
    BY <1>6 DEF Moves
  <2>2. t = Dot(me, u, ma) \o mi
    BY <1>6, SlashText, AppendLast DEF SpelledFirst
  <2>3. CASE m[2] = "expecting_newline_1" /\ c = "CR"
    BY <2>2, <2>3 DEF SpelledFirst
  <2>4. CASE m[2] = "http_version_minor"
    <3>1. Append(t, c) = Dot(me, u, ma) \o Append(mi, c)
      <4>1. Dot(me, u, ma) \in Seq(Chars)
        BY SlashText
      <4>2. Dot(me, u, ma) \o Append(mi, c) = Append(Dot(me, u, ma) \o mi, c)
        BY <4>1, AppendLast, SMTT(30)
      <4> QED
        BY <2>2, <4>2
    <3> QED
      BY <2>4, <3>1 DEF SpelledFirst
  <2> QED
    BY <2>1, <2>3, <2>4
<1>7. CASE s = "expecting_newline_1"
  <2>1. m[2] = "header_line_start" /\ c = "LF"
    BY <1>7 DEF Moves
  <2> QED
    BY <1>7, <2>1 DEF SpelledFirst, FirstPart
<1> QED
  BY <1>1, <1>2, <1>3, <1>4, <1>5, <1>6, <1>7 DEF InFirst

\* The headers, as RequestKept writes them; all but the last, and it.
FieldOf(x) == x.name \o <<":", "SP">> \o x.value \o <<"CR", "LF">>
Fields(hs) == [i \in DOMAIN hs |-> FieldOf(hs[i])]
FrontOf(hs) == SubSeq(hs, 1, Len(hs) - 1)
LastOf(hs) == hs[Len(hs)]
AllOf(f, hs) == f \o FlattenSeq(Fields(hs))
NameOf(f, hs) == AllOf(f, FrontOf(hs)) \o LastOf(hs).name
ValueOf(f, hs) == Append(Append(NameOf(f, hs), ":"), "SP") \o LastOf(hs).value

SpelledHeaders(t, s, f, hs) ==
  /\ s = "header_line_start" => t = AllOf(f, hs)
  /\ s = "header_name" => t = NameOf(f, hs) /\ LastOf(hs).value = <<>>
  /\ s = "space_before_header_value" => t = Append(NameOf(f, hs), ":") /\ LastOf(hs).value = <<>>
  /\ s \in {"header_value", "header_lws"} => t = ValueOf(f, hs)
  /\ s = "expecting_newline_2" => t = Append(ValueOf(f, hs), "CR")
  /\ s = "expecting_newline_3" => t = Append(AllOf(f, hs), "CR")

LEMMA FieldType == ASSUME NEW x \in Header PROVE FieldOf(x) \in Seq(Chars) /\ x.name \in Seq(Chars) /\ x.value \in Seq(Chars)
<1>1. x.name \in Seq(Chars) /\ x.value \in Seq(Chars)
  BY DEF Header
<1>2. <<":", "SP">> \in Seq(Chars) /\ <<"CR", "LF">> \in Seq(Chars)
  BY DEF Chars
<1>3. x.name \o <<":", "SP">> \in Seq(Chars)
  BY <1>1, <1>2, ConcatProperties
<1>4. x.name \o <<":", "SP">> \o x.value \in Seq(Chars)
  BY <1>1, <1>3, ConcatProperties
<1>5. FieldOf(x) \in Seq(Chars)
  BY <1>2, <1>4, ConcatProperties DEF FieldOf
<1> QED
  BY <1>1, <1>5

LEMMA FieldsType ==
  ASSUME NEW hs \in Seq(Header)
  PROVE  Fields(hs) \in Seq(Seq(Chars)) /\ FlattenSeq(Fields(hs)) \in Seq(Chars)
<1>1. PICK Q : Q = Seq(Chars)
  OBVIOUS
<1>2. \A i \in DOMAIN hs : FieldOf(hs[i]) \in Q
  <2> TAKE i \in DOMAIN hs
  <2>1. hs[i] \in Header
    OBVIOUS
  <2> QED
    BY <1>1, <2>1, FieldType
<1>3. Fields(hs) \in Seq(Q)
  BY <1>2 DEF Fields
<1> QED
  BY <1>1, <1>3, FlatType

LEMMA FieldsAppend ==
  ASSUME NEW hs \in Seq(Header), NEW x \in Header
  PROVE  FlattenSeq(Fields(Append(hs, x))) = FlattenSeq(Fields(hs)) \o FieldOf(x)
<1>1. Fields(Append(hs, x)) = Append(Fields(hs), FieldOf(x))
  BY DEF Fields
<1> QED
  BY <1>1, FieldType, FieldsType, FlatAppend

\* The last header and those before it.
LEMMA LastIs ==
  ASSUME NEW hs \in Seq(Header), NEW x \in Header
  PROVE  /\ Append(hs, x) \in Seq(Header) /\ Append(hs, x) # <<>>
         /\ FrontOf(Append(hs, x)) = hs /\ LastOf(Append(hs, x)) = x
<1> DEFINE g == Append(hs, x)
<1>1. g \in Seq(Header) /\ g # <<>> /\ Len(g) = Len(hs) + 1 /\ g[Len(hs) + 1] = x
  OBVIOUS
<1>2. FrontOf(g) = SubSeq(g, 1, Len(hs))
  BY <1>1 DEF FrontOf
<1>3. SubSeq(g, 1, Len(hs)) = hs
  OBVIOUS
<1> QED
  BY <1>1, <1>2, <1>3 DEF LastOf

LEMMA LastSplit ==
  ASSUME NEW hs \in Seq(Header), hs # <<>>
  PROVE  /\ FrontOf(hs) \in Seq(Header) /\ LastOf(hs) \in Header
         /\ hs = Append(FrontOf(hs), LastOf(hs))
         /\ \A x \in Header : [hs EXCEPT ![Len(hs)] = x] = Append(FrontOf(hs), x)
<1>0. PICK n \in Nat : Len(hs) = n + 1
  <2>1. Len(hs) \in Nat /\ Len(hs) # 0
    OBVIOUS
  <2>2. Len(hs) - 1 \in Nat /\ Len(hs) = (Len(hs) - 1) + 1
    BY <2>1
  <2> QED
    BY <2>2
<1>1. FrontOf(hs) \in Seq(Header) /\ LastOf(hs) \in Header /\ Len(FrontOf(hs)) = n
  BY <1>0 DEF FrontOf, LastOf
<1>2. hs = Append(FrontOf(hs), LastOf(hs))
  BY DEF FrontOf, LastOf
<1>3. ASSUME NEW x \in Header PROVE [hs EXCEPT ![Len(hs)] = x] = Append(FrontOf(hs), x)
  <2>1. PICK g : g = FrontOf(hs)
    OBVIOUS
  <2>2. g \in Seq(Header) /\ Len(g) = n /\ \A i \in 1 .. n : g[i] = hs[i]
    BY <1>0, <1>1, <2>1 DEF FrontOf
  <2>3. PICK v : v = [hs EXCEPT ![Len(hs)] = x]
    OBVIOUS
  <2>4. v \in Seq(Header) /\ Len(v) = n + 1 /\ v[n + 1] = x /\ \A i \in 1 .. n : v[i] = hs[i]
    BY <1>0, <2>3
  <2>5. PICK u : u = Append(g, x)
    OBVIOUS
  <2>6. u \in Seq(Header) /\ Len(u) = n + 1 /\ u[n + 1] = x /\ \A i \in 1 .. n : u[i] = g[i]
    BY <2>2, <2>5, OneAppended
  <2>7. \A i \in 1 .. n + 1 : v[i] = u[i]
    <3>1. \A i \in 1 .. n + 1 : i = n + 1 \/ i \in 1 .. n
      OBVIOUS
    <3> QED
      BY <2>2, <2>4, <2>6, <3>1
  <2>8. v = u
    BY <2>4, <2>6, <2>7, SeqEqual
  <2> QED
    BY <2>1, <2>3, <2>5, <2>8
<1> QED
  BY <1>1, <1>2, <1>3

LEMMA TwoMore ==
  ASSUME NEW x \in Seq(Chars), NEW a \in Chars, NEW b \in Chars
  PROVE  x \o <<a, b>> = Append(Append(x, a), b)
OBVIOUS

LEMMA FieldJoined ==
  ASSUME NEW t, t \in Seq(Chars), NEW x \in Header
  PROVE  t \o x.name \o <<":", "SP">> \o x.value \o <<"CR", "LF">> = t \o FieldOf(x)
<1>1. PICK n : n = x.name
  OBVIOUS
<1>2. PICK d : d = <<":", "SP">>
  OBVIOUS
<1>3. PICK v : v = x.value
  OBVIOUS
<1>4. PICK e : e = <<"CR", "LF">>
  OBVIOUS
<1>5. n \in Seq(Chars) /\ v \in Seq(Chars)
  BY <1>1, <1>3, FieldType
<1>6. d \in Seq(Chars) /\ e \in Seq(Chars)
  BY <1>2, <1>4 DEF Chars
<1>7. PICK b : b = n \o d
  OBVIOUS
<1>8. b \in Seq(Chars)
  BY <1>5, <1>6, <1>7, ConcatProperties
<1>9. PICK c : c = b \o v
  OBVIOUS
<1>10. c \in Seq(Chars)
  BY <1>5, <1>8, <1>9, ConcatProperties
<1>11. t \o n \o d = t \o b
  <2>1. n \in Seq(Chars)
    BY <1>5
  <2>2. d \in Seq(Chars)
    BY <1>6
  <2>3. t \o n \o d = t \o (n \o d)
    BY <2>1, <2>2, Assoc
  <2> QED
    BY <1>7, <2>3, Zenon
<1>12. t \o b \o v = t \o c
  <2>1. v \in Seq(Chars)
    BY <1>5
  <2>2. t \o b \o v = t \o (b \o v)
    BY <1>8, <2>1, Assoc
  <2> QED
    BY <1>9, <2>2, Zenon
<1>13. t \o c \o e = t \o (c \o e)
  <2>1. e \in Seq(Chars)
    BY <1>6
  <2> QED
    BY <1>10, <2>1, Assoc
<1>14. t \o n \o d \o v \o e = t \o (n \o d \o v \o e)
  BY <1>7, <1>9, <1>11, <1>12, <1>13, Zenon
<1> QED
  BY <1>1, <1>2, <1>3, <1>4, <1>14, Zenon DEF FieldOf

\* A last header that is complete is one of the headers.
LEMMA AllIsValue ==
  ASSUME NEW f \in Seq(Chars), NEW hs \in Seq(Header), hs # <<>>
  PROVE  /\ AllOf(f, hs) = Append(Append(ValueOf(f, hs), "CR"), "LF")
         /\ ValueOf(f, hs) \in Seq(Chars) /\ NameOf(f, hs) \in Seq(Chars)
         /\ AllOf(f, FrontOf(hs)) \in Seq(Chars)
<1> DEFINE g == FrontOf(hs)
           x == LastOf(hs)
           G == FlattenSeq(Fields(g))
           A == AllOf(f, g)
           N == NameOf(f, hs)
           V == ValueOf(f, hs)
<1>1. g \in Seq(Header) /\ x \in Header /\ hs = Append(g, x)
  BY LastSplit
<1>2. /\ x.name \in Seq(Chars) /\ x.value \in Seq(Chars) /\ G \in Seq(Chars)
      /\ <<":", "SP">> \in Seq(Chars) /\ <<"CR", "LF">> \in Seq(Chars)
  <2>1. <<":", "SP">> \in Seq(Chars) /\ <<"CR", "LF">> \in Seq(Chars)
    BY DEF Chars
  <2> QED
    BY <1>1, <2>1, FieldType, FieldsType
<1>3. FlattenSeq(Fields(hs)) = G \o FieldOf(x)
  BY <1>1, FieldsAppend
<1> HIDE DEF G
<1>4. A = f \o G /\ A \in Seq(Chars)
  BY <1>2, AppendLast DEF AllOf, G
<1>5. N = A \o x.name /\ N \in Seq(Chars)
  BY <1>2, <1>4, AppendLast DEF NameOf
<1>6. {":", "SP", "CR", "LF"} \subseteq Chars
  BY DEF Chars
<1>7. V = N \o <<":", "SP">> \o x.value
  <2> HIDE DEF N
  <2>1. N \o <<":", "SP">> = Append(Append(N, ":"), "SP")
    BY <1>5, <1>6, TwoMore
  <2> QED
    BY <2>1 DEF ValueOf, N
<1>8. V \in Seq(Chars) /\ V \o <<"CR", "LF">> = Append(Append(V, "CR"), "LF")
  <2> HIDE DEF N, V
  <2>1. N \o <<":", "SP">> \in Seq(Chars)
    BY <1>2, <1>5, AppendLast
  <2>2. V \in Seq(Chars)
    BY <1>2, <1>7, <2>1, AppendLast
  <2> QED
    BY <1>6, <2>2, TwoMore
<1>9. V \o <<"CR", "LF">> = f \o (G \o FieldOf(x))
  <2>1. V \o <<"CR", "LF">> = A \o x.name \o <<":", "SP">> \o x.value \o <<"CR", "LF">>
    BY <1>5, <1>7
  <2>2. A \o x.name \o <<":", "SP">> \o x.value \o <<"CR", "LF">> = A \o FieldOf(x)
    BY <1>1, <1>4, FieldJoined
  <2>3. FieldOf(x) \in Seq(Chars)
    BY <1>1, FieldType
  <2>4. PICK y : y = FieldOf(x)
    OBVIOUS
  <2>5. f \o G \o y = f \o (G \o y)
    BY <1>2, <2>3, <2>4, Assoc
  <2> QED
    BY <1>4, <2>1, <2>2, <2>4, <2>5, Zenon
<1> QED
  BY <1>3, <1>4, <1>5, <1>8, <1>9 DEF AllOf

\* What a character that leads to a state makes of the headers.
ValueAdded(hs, c) == [hs EXCEPT ![Len(hs)].value = Append(@, c)]
NameAdded(hs, c) == [hs EXCEPT ![Len(hs)].name = Append(@, c)]
NameBegun(hs, c) == Append(hs, [name |-> <<c>>, value |-> <<>>])
HeadersTo(hs, s, c, to) ==
  IF to = "header_value" /\ s # "space_before_header_value" THEN ValueAdded(hs, c)
  ELSE IF to = "header_name" /\ s = "header_line_start" THEN NameBegun(hs, c)
  ELSE IF to = "header_name" /\ s = "header_name" THEN NameAdded(hs, c)
  ELSE hs

LEMMA ValueGrows ==
  ASSUME NEW f \in Seq(Chars), NEW hs \in Seq(Header), hs # <<>>, NEW c \in Chars
  PROVE  ValueAdded(hs, c) \in Seq(Header) /\ ValueOf(f, ValueAdded(hs, c)) = Append(ValueOf(f, hs), c)
<1>0. PICK hs2 : hs2 = ValueAdded(hs, c)
  OBVIOUS
<1>1. PICK x : x = LastOf(hs)
  OBVIOUS
<1>2. PICK g : g = FrontOf(hs)
  OBVIOUS
<1>3. x \in Header /\ g \in Seq(Header) /\ hs = Append(g, x)
  BY <1>1, <1>2, LastSplit
<1>4. PICK y : y = [x EXCEPT !.value = Append(@, c)]
  OBVIOUS
<1>5. x.name \in Seq(Chars) /\ x.value \in Seq(Chars)
  BY <1>3, FieldType
<1>6. Append(x.value, c) \in Seq(Chars)
  BY <1>5, AppendedChar
<1>7. y \in Header /\ y.name = x.name /\ y.value = Append(x.value, c)
  BY <1>3, <1>4, <1>6 DEF Header
<1>8. hs2 = [hs EXCEPT ![Len(hs)] = y]
  BY <1>0, <1>1, <1>4 DEF LastOf, ValueAdded
<1>9. hs2 = Append(g, y)
  BY <1>2, <1>7, <1>8, LastSplit
<1>10. FrontOf(hs2) = g /\ LastOf(hs2) = y /\ hs2 \in Seq(Header)
  <2>1. g \in Seq(Header) /\ y \in Header
    BY <1>3, <1>7
  <2> QED
    BY <1>9, <2>1, LastIs, Zenon
<1>11. NameOf(f, hs2) = NameOf(f, hs)
  BY <1>1, <1>2, <1>7, <1>10 DEF NameOf
<1>12. PICK N : N = Append(Append(NameOf(f, hs), ":"), "SP")
  OBVIOUS
<1>13. N \in Seq(Chars)
  <2>1. NameOf(f, hs) \in Seq(Chars) /\ {":", "SP"} \subseteq Chars
    BY AllIsValue DEF Chars
  <2> QED
    BY <1>12, <2>1, AppendedChar
<1>14. ValueOf(f, hs) = N \o x.value /\ ValueOf(f, hs2) = N \o Append(x.value, c)
  BY <1>1, <1>7, <1>10, <1>11, <1>12 DEF ValueOf
<1>15. N \o Append(x.value, c) = Append(N \o x.value, c)
  BY <1>5, <1>13, AppendLast
<1> QED
  BY <1>0, <1>10, <1>14, <1>15

LEMMA NameGrows ==
  ASSUME NEW f \in Seq(Chars), NEW hs \in Seq(Header), hs # <<>>, NEW c \in Chars,
         LastOf(hs).value = <<>>
  PROVE  /\ NameAdded(hs, c) \in Seq(Header) /\ NameOf(f, NameAdded(hs, c)) = Append(NameOf(f, hs), c)
         /\ LastOf(NameAdded(hs, c)).value = <<>>
<1>0. PICK hs2 : hs2 = NameAdded(hs, c)
  OBVIOUS
<1>1. PICK x : x = LastOf(hs)
  OBVIOUS
<1>2. PICK g : g = FrontOf(hs)
  OBVIOUS
<1>3. x \in Header /\ g \in Seq(Header) /\ hs = Append(g, x)
  BY <1>1, <1>2, LastSplit
<1>4. PICK y : y = [x EXCEPT !.name = Append(@, c)]
  OBVIOUS
<1>5. x.name \in Seq(Chars) /\ x.value \in Seq(Chars)
  BY <1>3, FieldType
<1>6. Append(x.name, c) \in Seq(Chars)
  BY <1>5, AppendedChar
<1>7. y \in Header /\ y.value = x.value /\ y.name = Append(x.name, c)
  BY <1>3, <1>4, <1>6 DEF Header
<1>8. hs2 = [hs EXCEPT ![Len(hs)] = y]
  BY <1>0, <1>1, <1>4 DEF LastOf, NameAdded
<1>9. hs2 = Append(g, y)
  BY <1>2, <1>7, <1>8, LastSplit
<1>10. FrontOf(hs2) = g /\ LastOf(hs2) = y /\ hs2 \in Seq(Header)
  <2>1. g \in Seq(Header) /\ y \in Header
    BY <1>3, <1>7
  <2> QED
    BY <1>9, <2>1, LastIs, Zenon
<1>11. AllOf(f, g) \in Seq(Chars)
  BY <1>2, AllIsValue
<1>12. NameOf(f, hs) = AllOf(f, g) \o x.name /\ NameOf(f, hs2) = AllOf(f, g) \o Append(x.name, c)
  BY <1>1, <1>2, <1>7, <1>10 DEF NameOf
<1>13. AllOf(f, g) \o Append(x.name, c) = Append(AllOf(f, g) \o x.name, c)
  BY <1>5, <1>11, AppendLast
<1> QED
  BY <1>0, <1>1, <1>7, <1>10, <1>12, <1>13

LEMMA AllType ==
  ASSUME NEW f \in Seq(Chars), NEW hs \in Seq(Header)
  PROVE  AllOf(f, hs) \in Seq(Chars) /\ AllOf(f, <<>>) = f
<1>1. FlattenSeq(Fields(hs)) \in Seq(Chars)
  BY FieldsType
<1>2. f \o FlattenSeq(Fields(hs)) \in Seq(Chars)
  BY <1>1, ConcatProperties
<1>3. Fields(<<>>) = <<>>
  BY DEF Fields
<1>4. f \o <<>> = f
  BY ConcatEmptySeq
<1> QED
  BY <1>2, <1>3, <1>4, FlatEmpty DEF AllOf

LEMMA NameBegins ==
  ASSUME NEW f \in Seq(Chars), NEW hs \in Seq(Header), NEW c \in Chars
  PROVE  /\ NameBegun(hs, c) \in Seq(Header) /\ NameBegun(hs, c) # <<>> /\ NameOf(f, NameBegun(hs, c)) = Append(AllOf(f, hs), c)
         /\ LastOf(NameBegun(hs, c)).value = <<>>
<1>0. PICK hs2 : hs2 = NameBegun(hs, c)
  OBVIOUS
<1>1. PICK y : y = [name |-> <<c>>, value |-> <<>>]
  OBVIOUS
<1>2. y \in Header /\ y.name = <<c>> /\ y.value = <<>>
  BY <1>1 DEF Header
<1>3. FrontOf(hs2) = hs /\ LastOf(hs2) = y /\ hs2 \in Seq(Header) /\ hs2 # <<>>
  BY <1>0, <1>1, <1>2, LastIs DEF NameBegun
<1>4. AllOf(f, hs) \o <<c>> = Append(AllOf(f, hs), c)
  <2>1. AllOf(f, hs) \in Seq(Chars)
    BY AllType
  <2> QED
    BY <2>1, AppendLast
<1> QED
  BY <1>0, <1>2, <1>3, <1>4 DEF NameOf

AfterFirst == InHeaders \cup {"expecting_newline_3"}

HeadersKept(t, s, f, hs) ==
  /\ t \in Seq(Chars) /\ f \in Seq(Chars) /\ hs \in Seq(Header)
  /\ s \in Appending => hs # <<>>
  /\ SpelledHeaders(t, s, f, hs)

\* Every move in the headers appends its character to what they spell; the
\* spaces that a line is continued by are the exception.
LEMMA HeadersSpelled ==
  ASSUME NEW s \in AfterFirst, NEW t, NEW f, NEW hs,
         HeadersKept(t, s, f, hs), NEW c \in Chars, NEW h \in BOOLEAN, NEW m \in Moves(h)[s],
         c \in m[1]
  PROVE  /\ HeadersTo(hs, s, c, m[2]) \in Seq(Header)
         /\ m[2] \notin {"good", "header_lws"} =>
              SpelledHeaders(Append(t, c), m[2], f, HeadersTo(hs, s, c, m[2]))
         /\ m[2] = "good" => /\ HeadersTo(hs, s, c, m[2]) = hs
                             /\ Append(t, c) = Append(Append(AllOf(f, hs), "CR"), "LF")
<1> SUFFICES ASSUME NEW hs2, hs2 = HeadersTo(hs, s, c, m[2])
             PROVE  /\ hs2 \in Seq(Header)
                    /\ m[2] \notin {"good", "header_lws"} => SpelledHeaders(Append(t, c), m[2], f, hs2)
                    /\ m[2] = "good" => hs2 = hs /\ Append(t, c) = Append(Append(AllOf(f, hs), "CR"), "LF")
  OBVIOUS
<1>0. /\ t \in Seq(Chars) /\ f \in Seq(Chars) /\ hs \in Seq(Header)
      /\ s \in Appending => hs # <<>>
      /\ SpelledHeaders(t, s, f, hs)
  BY DEF HeadersKept
<1> USE <1>0
<1>1. CASE s = "header_line_start"
  <2>1. t = AllOf(f, hs)
    BY <1>1 DEF SpelledHeaders
  <2>2. (m[2] = "expecting_newline_3" /\ c = "CR") \/ m[2] = "header_lws" \/ m[2] = "header_name"
    BY <1>1 DEF Moves
  <2>3. CASE m[2] \in {"expecting_newline_3", "header_lws"}
    BY <1>1, <2>1, <2>2, <2>3 DEF SpelledHeaders, HeadersTo
  <2>4. CASE m[2] = "header_name"
    <3>1. hs2 = NameBegun(hs, c)
      BY <1>1, <2>4 DEF HeadersTo
    <3>2. /\ hs2 \in Seq(Header) /\ NameOf(f, hs2) = Append(AllOf(f, hs), c)
          /\ LastOf(hs2).value = <<>>
      BY <3>1, NameBegins
    <3> QED
      BY <2>1, <2>4, <3>2 DEF SpelledHeaders
  <2> QED
    BY <2>2, <2>3, <2>4
<1>2. CASE s \in {"header_lws", "header_value"}
  <2>1. t = ValueOf(f, hs) /\ hs # <<>>
    BY <1>2 DEF SpelledHeaders, Appending
  <2>2. (m[2] = "expecting_newline_2" /\ c = "CR") \/ m[2] = "header_lws" \/ m[2] = "header_value"
    BY <1>2 DEF Moves
  <2>3. CASE m[2] \in {"expecting_newline_2", "header_lws"}
    BY <1>2, <2>1, <2>2, <2>3 DEF SpelledHeaders, HeadersTo
  <2>4. CASE m[2] = "header_value"
    <3>1. hs2 = ValueAdded(hs, c)
      BY <1>2, <2>4 DEF HeadersTo
    <3>2. hs2 \in Seq(Header) /\ ValueOf(f, hs2) = Append(ValueOf(f, hs), c)
      BY <2>1, <3>1, ValueGrows
    <3> QED
      BY <2>1, <2>4, <3>2 DEF SpelledHeaders
  <2> QED
    BY <2>2, <2>3, <2>4
<1>3. CASE s = "header_name"
  <2>1. t = NameOf(f, hs) /\ LastOf(hs).value = <<>> /\ hs # <<>>
    BY <1>3 DEF SpelledHeaders, Appending
  <2>2. (m[2] = "space_before_header_value" /\ c = ":") \/ m[2] = "header_name"
    BY <1>3 DEF Moves
  <2>3. CASE m[2] = "space_before_header_value" /\ c = ":"
    BY <1>3, <2>1, <2>3 DEF SpelledHeaders, HeadersTo
  <2>4. CASE m[2] = "header_name"
    <3>1. hs2 = NameAdded(hs, c)
      BY <1>3, <2>4 DEF HeadersTo
    <3>2. /\ hs2 \in Seq(Header) /\ NameOf(f, hs2) = Append(NameOf(f, hs), c)
          /\ LastOf(hs2).value = <<>>
      BY <2>1, <3>1, NameGrows
    <3> QED
      BY <2>1, <2>4, <3>2 DEF SpelledHeaders
  <2> QED
    BY <2>2, <2>3, <2>4
<1>4. CASE s = "space_before_header_value"
  <2>1. t = Append(NameOf(f, hs), ":") /\ LastOf(hs).value = <<>> /\ hs # <<>>
    BY <1>4 DEF SpelledHeaders, Appending
  <2>2. m[2] = "header_value" /\ c = "SP"
    BY <1>4 DEF Moves
  <2>3. hs2 = hs
    BY <1>4, <2>2 DEF HeadersTo
  <2>4. ValueOf(f, hs) = Append(t, "SP")
    <3>1. Append(t, "SP") \in Seq(Chars)
      BY <2>2, AppendedChar
    <3>2. Append(t, "SP") \o <<>> = Append(t, "SP")
      BY <3>1, ConcatEmptySeq
    <3> QED
      BY <2>1, <3>2 DEF ValueOf
  <2> QED
    BY <2>2, <2>3, <2>4 DEF SpelledHeaders
<1>5. CASE s = "expecting_newline_2"
  <2>1. t = Append(ValueOf(f, hs), "CR") /\ hs # <<>>
    BY <1>5 DEF SpelledHeaders, Appending
  <2>2. m[2] = "header_line_start" /\ c = "LF"
    BY <1>5 DEF Moves
  <2>3. hs2 = hs
    BY <1>5, <2>2 DEF HeadersTo
  <2>4. AllOf(f, hs) = Append(t, "LF")
    BY <2>1, AllIsValue
  <2> QED
    BY <2>2, <2>3, <2>4 DEF SpelledHeaders
<1>6. CASE s = "expecting_newline_3"
  <2>1. t = Append(AllOf(f, hs), "CR")
    BY <1>6 DEF SpelledHeaders
  <2>2. m[2] = "good" /\ c = "LF"
    BY <1>6 DEF Moves, LastNewline
  <2>3. hs2 = hs
    BY <1>6, <2>2 DEF HeadersTo
  <2> QED
    BY <2>1, <2>2, <2>3
<1> QED
  BY <1>1, <1>2, <1>3, <1>4, <1>5, <1>6 DEF InHeaders, AfterFirst

\* What is appended to can be told from what it becomes.
LEMMA SameFront ==
  ASSUME NEW x \in Seq(Chars), NEW y \in Seq(Chars), NEW c \in Chars, Append(x, c) = Append(y, c)
  PROVE  x = y
<1>1. Len(x) = Len(y)
  BY OneAppended
<1>2. \A i \in 1 .. Len(x) : x[i] = y[i]
  BY <1>1, OneAppended
<1> QED
  BY <1>1, <1>2, SeqEqual

LEMMA AppendedTwice ==
  ASSUME NEW x \in Seq(Chars), NEW y \in Seq(Chars), NEW c \in Chars, NEW d \in Chars,
         Append(Append(x, c), d) = Append(Append(y, c), d)
  PROVE  x = y
<1>1. PICK v : v = Append(x, c)
  OBVIOUS
<1>2. PICK w : w = Append(y, c)
  OBVIOUS
<1>3. v \in Seq(Chars) /\ w \in Seq(Chars)
  BY <1>1, <1>2, AppendedChar
<1>4. v = w
  BY <1>1, <1>2, <1>3, SameFront
<1> QED
  BY <1>1, <1>2, <1>4, SameFront

LEMMA SlashMore ==
  ASSUME NEW x \in Seq(Chars)
  PROVE  x \o <<"SP", "H", "T", "T", "P", "/">>
         = Append(Append(Append(Append(Append(Append(x, "SP"), "H"), "T"), "T"), "P"), "/")
BY SMTT(30)

----------------------------------------------------------------------------
(* Spaces that fold a line, and those that do not.                         *)

LEMMA FirstHasNoFold ==
  ASSUME NEW w \in Seq(Chars), NEW s \in InFirst, NEW h \in BOOLEAN, Described(w, s, Len(w), h),
         NEW m \in Moves(h)[s], NEW c \in m[1], c \in Spaced
  PROVE  ~AtFold(w)
<1> DEFINE n == Len(w)
<1>1. n \in Nat
  OBVIOUS
<1>2. s \in {"method", "uri"}
  <2>1. s \notin {"method_start", "http_version_h", "http_version_t_1", "http_version_t_2"}
    BY DEF Moves, Token, Tspecial, Spaced
  <2>2. s \notin {"http_version_p", "http_version_slash", "http_version_major_start",
                  "http_version_major"}
    BY DEF Moves, Spaced
  <2>3. s \notin {"http_version_minor_start", "http_version_minor", "expecting_newline_1"}
    BY DEF Moves, Spaced
  <2> QED
    BY <2>1, <2>2, <2>3 DEF InFirst
<1>3. NoEnds(w, 1, n)
  <2>1. CASE s = "method"
    BY <2>1, PartHasNoEnds DEF Described, IsTok
  <2>2. CASE s = "uri"
    <3>1. PICK i \in 1 .. n : MethodTo(w, i) /\ AllIn(w, i + 1, n, Text \ {"SP"})
      BY <2>2 DEF Described
    <3>2. NoEnds(w, 1, i - 1) /\ NoEnds(w, i + 1, n) /\ w[i] = "SP"
      BY <3>1, PartHasNoEnds DEF MethodTo, IsTok
    <3> QED
      BY <1>1, <3>2 DEF NoEnds
  <2> QED
    BY <1>2, <2>1, <2>2
<1> QED
  BY <1>1, <1>3 DEF AtFold, IsFoldIn, NoEnds

\* The last newline of what is done is the one before the line.
LEMMA LastFold ==
  ASSUME NEW w \in Seq(Chars), NEW p \in 1 .. Len(w), Done(w, p), NoEnds(w, p, Len(w)), AtFold(w)
  PROVE  AllIn(w, p, Len(w), Spaced)
<1>1. PICK q \in 1 .. Len(w) - 1 : IsFoldIn(w, q, Len(w))
  BY DEF AtFold
<1>2. q \in 1 .. p - 1
  BY <1>1 DEF NoEnds, IsFoldIn
<1>3. q + 1 <= p - 1
  BY <1>1, <1>2 DEF Done, IsFoldIn
<1>4. p .. Len(w) \subseteq q + 2 .. Len(w)
  BY <1>2, <1>3
<1> QED
  BY <1>1, <1>4 DEF IsFoldIn, AllIn

LEMMA HeaderSpaces ==
  ASSUME NEW w \in Seq(Chars), NEW s \in InHeaders, NEW f \in Seq(Chars), NEW hs \in Seq(Header),
         Described(w, s, Len(w), hs # <<>>), SpelledHeaders(Unfolded(w), s, f, hs),
         s \in Appending => hs # <<>>,
         NEW m \in Moves(hs # <<>>)[s], NEW c \in m[1], c \in Spaced
  PROVE  \/ m[2] # "header_lws" /\ ~AtFold(w)
         \/ m[2] = "header_lws" /\ SpelledHeaders(Unfolded(Append(w, c)), "header_lws", f, hs)
<1> DEFINE n == Len(w)
<1>1. n \in Nat
  OBVIOUS
<1>2. CASE s = "header_line_start"
  <2>1. m[2] = "header_lws" /\ hs # <<>>
    BY <1>2 DEF Moves, Lws, Spaced, Token, Tspecial
  <2>2. Done(w, n + 1)
    BY <1>2 DEF Described
  <2>3. n >= 2 /\ w[n - 1] = "CR" /\ w[n] = "LF"
    <3>1. n + 1 >= 3 /\ w[(n + 1) - 2] = "CR" /\ (n + 1) - 2 = n - 1
      BY <1>1, <2>2 DEF Done
    <3>2. n - 1 \in 1 .. (n + 1) - 1 /\ (n - 1) + 1 = n
      BY <1>1, <3>1
    <3> QED
      BY <1>1, <2>2, <3>1, <3>2 DEF Done
  <2>4. Unfolded(w) = Append(Append(Unfolded(Append(w, c)), "CR"), "LF")
    BY <2>3, FoldBegins
  <2>5. Unfolded(w) = Append(Append(ValueOf(f, hs), "CR"), "LF") /\ ValueOf(f, hs) \in Seq(Chars)
    BY <1>2, <2>1, AllIsValue DEF SpelledHeaders
  <2>6. Unfolded(Append(w, c)) \in Seq(Chars)
    <3>1. PICK x : x = Append(w, c)
      OBVIOUS
    <3>2. x \in Seq(Chars)
      BY <3>1, AppendedChar DEF Spaced, Chars
    <3>3. Pieces(x) \in Seq(Seq(Chars))
      BY <3>2, PiecesType
    <3> QED
      BY <3>1, <3>3, FlatType, UnfoldedIs
  <2>7. PICK a : a = Unfolded(Append(w, c))
    OBVIOUS
  <2>8. PICK b : b = ValueOf(f, hs)
    OBVIOUS
  <2>9. a = b
    <3>1. /\ a \in Seq(Chars) /\ b \in Seq(Chars) /\ {"CR", "LF"} \subseteq Chars
          /\ Append(Append(a, "CR"), "LF") = Append(Append(b, "CR"), "LF")
      BY <2>4, <2>5, <2>6, <2>7, <2>8 DEF Chars
    <3> QED
      BY <3>1, AppendedTwice
  <2> QED
    BY <2>1, <2>7, <2>8, <2>9 DEF SpelledHeaders
<1>3. CASE s = "header_lws"
  <2>1. m[2] = "header_lws"
    BY <1>3 DEF Moves, Spaced, Text, Ctl
  <2>2. PICK p \in 1 .. n : Done(w, p) /\ AllIn(w, p, n, Spaced)
    BY <1>3 DEF Described
  <2>3. p >= 3 /\ w[p - 2] = "CR" /\ w[p - 1] = "LF"
    <3>1. p >= 3 /\ w[p - 2] = "CR"
      BY <2>2 DEF Done
    <3>2. p - 2 \in 1 .. p - 1 /\ (p - 2) + 1 = p - 1
      BY <1>1, <3>1
    <3> QED
      BY <2>2, <3>1, <3>2 DEF Done
  <2>4. p - 2 \in 1 .. n - 2 /\ IsFoldIn(w, p - 2, n)
    <3>1. (p - 2) + 2 = p /\ (p - 2) + 1 = p - 1 /\ p - 2 \in 1 .. n - 2
      BY <1>1, <2>3
    <3> QED
      BY <2>2, <2>3, <3>1 DEF IsFoldIn
  <2>5. Unfolded(Append(w, c)) = Unfolded(w)
    BY <2>4, FoldGoesOn
  <2> QED
    BY <1>3, <2>1, <2>5 DEF SpelledHeaders
<1>4. CASE s = "space_before_header_value"
  <2>1. m[2] # "header_lws"
    BY <1>4 DEF Moves
  <2>2. PICK p \in 1 .. n : Done(w, p) /\ NameTo(w, p, n)
    BY <1>4 DEF Described
  <2>3. NoEnds(w, p, n) /\ ~AllIn(w, p, n, Spaced)
    <3>1. NoEnds(w, p, n - 1) /\ w[n] = ":"
      BY <2>2, PartHasNoEnds DEF NameTo, IsTok
    <3>2. NoEnds(w, p, n)
      BY <1>1, <3>1 DEF NoEnds
    <3> QED
      BY <1>1, <3>1, <3>2 DEF AllIn, Spaced
  <2> QED
    BY <2>1, <2>2, <2>3, LastFold
<1>5. CASE s = "header_value"
  <2>1. m[2] # "header_lws"
    BY <1>5 DEF Moves
  <2>2. PICK p \in 1 .. n : Done(w, p) /\ HeaderLine(w, p, n) /\ ~AllIn(w, p, n, Spaced)
    BY <1>5 DEF Described
  <2>3. NoEnds(w, p, n)
    BY <1>1, <2>2, HeaderLineHasNoEnds
  <2> QED
    BY <2>1, <2>2, <2>3, LastFold
<1>6. s \notin {"header_name", "expecting_newline_2"}
  BY DEF Moves, Spaced, Token, Tspecial
<1> QED
  BY <1>2, <1>3, <1>4, <1>5, <1>6 DEF InHeaders

\* Put together again, the parts are what RequestKept says they are.
Parts(me, u, ma, mi, hs) ==
  /\ me \in Seq(Chars) /\ u \in Seq(Chars) /\ ma \in Seq(Chars) /\ mi \in Seq(Chars)
  /\ hs \in Seq(Header)
Whole(f, hs) == Append(Append(AllOf(f, hs), "CR"), "LF")
Together(me, u, ma, mi, hs) ==
  me \o <<"SP">> \o u \o <<"SP", "H", "T", "T", "P", "/">> \o ma \o <<".">> \o mi
    \o <<"CR", "LF">> \o FlattenSeq(Fields(hs)) \o <<"CR", "LF">>

LEMMA PartsTogether ==
  ASSUME NEW me, NEW u, NEW ma, NEW mi, NEW hs, Parts(me, u, ma, mi, hs)
  PROVE  Whole(FirstPart(me, u, ma, mi), hs) = Together(me, u, ma, mi, hs)
<1>0. /\ me \in Seq(Chars) /\ u \in Seq(Chars) /\ ma \in Seq(Chars) /\ mi \in Seq(Chars)
      /\ hs \in Seq(Header)
  BY DEF Parts
<1> USE <1>0
<1>1. {"SP", "H", "T", "P", "/", ".", "CR", "LF"} \subseteq Chars
  BY DEF Chars
<1>2. me \o <<"SP">> \o u = Target(me, u) /\ Target(me, u) \in Seq(Chars)
  BY <1>1, SlashText, AppendLast DEF Target
<1>3. Target(me, u) \o <<"SP", "H", "T", "T", "P", "/">> = Slash(me, u) /\ Slash(me, u) \in Seq(Chars)
  <2>1. PICK x : x = Target(me, u)
    OBVIOUS
  <2>2. x \in Seq(Chars)
    BY <1>2, <2>1
  <2>3. x \o <<"SP", "H", "T", "T", "P", "/">>
        = Append(Append(Append(Append(Append(Append(x, "SP"), "H"), "T"), "T"), "P"), "/")
    BY <2>2, SlashMore
  <2> QED
    BY <2>1, <2>3, SlashText DEF Slash
<1>4. Slash(me, u) \o ma \o <<".">> = Dot(me, u, ma) /\ Dot(me, u, ma) \in Seq(Chars)
  <2>1. PICK x : x = Slash(me, u) \o ma
    OBVIOUS
  <2>2. x \in Seq(Chars)
    BY <1>3, <2>1, ConcatProperties
  <2>3. x \o <<".">> = Append(x, ".")
    BY <1>1, <2>2, AppendLast
  <2> QED
    BY <2>1, <2>3, SlashText DEF Dot
<1>5. /\ Dot(me, u, ma) \o mi \o <<"CR", "LF">> = FirstPart(me, u, ma, mi)
      /\ FirstPart(me, u, ma, mi) \in Seq(Chars)
  <2>1. PICK x : x = Dot(me, u, ma) \o mi
    OBVIOUS
  <2>2. x \in Seq(Chars)
    BY <1>4, <2>1, ConcatProperties
  <2>3. x \o <<"CR", "LF">> = Append(Append(x, "CR"), "LF")
    BY <1>1, <2>2, TwoMore
  <2>4. Append(Append(x, "CR"), "LF") \in Seq(Chars)
    BY <1>1, <2>2, AppendedChar
  <2> QED
    BY <2>1, <2>3, <2>4 DEF FirstPart
<1>6. /\ FirstPart(me, u, ma, mi) \o FlattenSeq(Fields(hs)) \o <<"CR", "LF">>
         = Append(Append(AllOf(FirstPart(me, u, ma, mi), hs), "CR"), "LF")
  <2>1. PICK x : x = AllOf(FirstPart(me, u, ma, mi), hs)
    OBVIOUS
  <2>2. x \in Seq(Chars)
    BY <1>5, <2>1, AllType
  <2>3. x \o <<"CR", "LF">> = Append(Append(x, "CR"), "LF")
    BY <1>1, <2>2, TwoMore
  <2> QED
    BY <2>1, <2>3 DEF AllOf
<1> QED
  BY <1>2, <1>3, <1>4, <1>5, <1>6, Zenon DEF Whole, Together

LEMMA FirstPartType ==
  ASSUME NEW me \in Seq(Chars), NEW u \in Seq(Chars), NEW ma \in Seq(Chars), NEW mi \in Seq(Chars)
  PROVE  FirstPart(me, u, ma, mi) \in Seq(Chars)
<1>1. PICK x : x = Dot(me, u, ma) \o mi
  OBVIOUS
<1>2. x \in Seq(Chars)
  <2>1. Dot(me, u, ma) \in Seq(Chars)
    BY SlashText
  <2> QED
    BY <1>1, <2>1, ConcatProperties
<1>3. Append(Append(x, "CR"), "LF") \in Seq(Chars)
  BY <1>2, AppendedChar DEF Chars
<1> QED
  BY <1>1, <1>3 DEF FirstPart

----------------------------------------------------------------------------
(* What is kept of what is read.                                           *)

Kept ==
  /\ method \in Seq(Chars) /\ uri \in Seq(Chars) /\ major \in Seq(Chars) /\ minor \in Seq(Chars)
  /\ state \in InFirst => SpelledFirst(Unfolded(Seen), state, method, uri, major, minor)
  /\ state \notin InFirst =>
       SpelledHeaders(Unfolded(Seen), state, FirstPart(method, uri, major, minor), headers)

KInv ==
  /\ BInv /\ RequestKept
  /\ result = "indeterminate" => Kept

\* Where the lines lead: out of the first one only to the headers, and never back.
LEMMA LinesLead ==
  ASSUME NEW h \in BOOLEAN, NEW s \in States, NEW m \in Moves(h)[s]
  PROVE  /\ s \in InFirst => m[2] \in InFirst \cup {"header_line_start"}
         /\ s \notin InFirst => m[2] \notin InFirst
<1>1. CASE s \in {"method_start", "method", "uri", "http_version_h", "http_version_t_1"}
  BY <1>1 DEF Moves, InFirst
<1>2. CASE s \in {"http_version_t_2", "http_version_p", "http_version_slash",
                  "http_version_major_start"}
  BY <1>2 DEF Moves, InFirst
<1>3. CASE s \in {"http_version_major", "http_version_minor_start", "http_version_minor",
                  "expecting_newline_1"}
  BY <1>3 DEF Moves, InFirst
<1>4. CASE s \in {"header_line_start", "header_lws", "header_name", "space_before_header_value"}
  BY <1>4 DEF Moves, InFirst
<1>5. CASE s \in {"header_value", "expecting_newline_2", "expecting_newline_3"}
  BY <1>5 DEF Moves, InFirst
<1> QED
  BY <1>1, <1>2, <1>3, <1>4, <1>5 DEF States

LEMMA NothingRead == Unfolded(<<>>) = <<>>
<1>1. Pieces(<<>>) = <<>>
  BY DEF Pieces
<1> QED
  BY <1>1, UnfoldedIs, FlatEmpty

LEMMA KeptPartsInit == Init => KInv
<1> SUFFICES ASSUME Init PROVE KInv
  OBVIOUS
<1>1. BInv /\ RequestKept
  BY ReadInit DEF Init, RequestKept
<1>2. Seen = <<>>
  <2>1. input \in Seq(Chars) /\ pos = 0
    BY InputsAssumption DEF Init
  <2> QED
    BY <2>1 DEF Seen
<1>3. Kept
  BY <1>2, NothingRead DEF Init, Kept, SpelledFirst, InFirst
<1> QED
  BY <1>1, <1>3 DEF KInv

\* A good text is its parts.
LEMMA GoodIsKept ==
  ASSUME Parts(method, uri, major, minor, headers),
         Unfolded(Seen) = Whole(FirstPart(method, uri, major, minor), headers)
  PROVE  RequestKept
<1>1. \A me, u, ma, mi, hs :
        Parts(me, u, ma, mi, hs) => Whole(FirstPart(me, u, ma, mi), hs) = Together(me, u, ma, mi, hs)
  BY PartsTogether, Zenon
<1>2. Unfolded(Seen) = Together(method, uri, major, minor, headers)
  BY <1>1
<1> QED
  BY <1>2, Zenon DEF Together, RequestKept, Fields, FieldOf

\* A move appends its character to the text, and to what the text spells.
LEMMA KeptMove ==
  ASSUME BInv, Kept, pos + 1 <= Len(input), input' = input, result = "indeterminate",
         pos' = pos + 1, NEW m \in Moves(headers # <<>>)[state], input[pos + 1] \in m[1],
         state' = (IF m[2] = "good" THEN state ELSE m[2]), Keep(input[pos + 1], m[2])
  PROVE  /\ m[2] # "good" => Kept'
         /\ m[2] = "good" => RequestKept'
<1> DEFINE c == input[pos + 1]
           h == headers # <<>>
           t == Unfolded(Seen)
           f == FirstPart(method, uri, major, minor)
<1>1. /\ input \in Seq(Chars) /\ pos \in Nat /\ state \in States /\ headers \in Seq(Header)
      /\ state \in Appending => h
  BY DEF BInv, PInv, IInv, HasHeader, Appending
<1>2. c \in Chars /\ c \in m[1] /\ h \in BOOLEAN /\ m \in Moves(h)[state]
  BY <1>1
<1>3. Seen \in Seq(Chars) /\ Len(Seen) = pos /\ Seen' = Append(Seen, c)
  <2>1. SubSeq(input, 1, pos) \in Seq(Chars) /\ Len(SubSeq(input, 1, pos)) = pos
    BY <1>1, Part
  <2>2. SubSeq(input, 1, pos + 1) = Append(SubSeq(input, 1, pos), input[pos + 1])
    BY <1>1
  <2> QED
    BY <2>1, <2>2 DEF Seen
<1>4. Described(Seen, state, Len(Seen), h)
  <2>1. <<>> \in Seq(Chars) /\ Seen \o <<>> = Seen
    BY <1>3, ConcatEmptySeq
  <2>2. ReadWith(<<>>)
    BY <2>1 DEF BInv
  <2> QED
    BY <1>3, <2>1, <2>2 DEF ReadWith
<1>5. t \in Seq(Chars)
  <2>1. Pieces(Seen) \in Seq(Seq(Chars))
    BY <1>3, PiecesType
  <2> QED
    BY <2>1, FlatType, UnfoldedIs
<1>6. method \in Seq(Chars) /\ uri \in Seq(Chars) /\ major \in Seq(Chars) /\ minor \in Seq(Chars)
  BY DEF Kept
<1> HIDE DEF c, h, t
<1>7. /\ method' = (IF m[2] = "method" THEN Append(method, c) ELSE method)
      /\ uri' = (IF m[2] = "uri" /\ state = "uri" THEN Append(uri, c) ELSE uri)
      /\ major' = (IF m[2] = "http_version_major" THEN Append(major, c) ELSE major)
      /\ minor' = (IF m[2] = "http_version_minor" THEN Append(minor, c) ELSE minor)
      /\ headers' = Headers(c, m[2])
  BY DEF Keep, c
<1>8. /\ method' \in Seq(Chars) /\ uri' \in Seq(Chars) /\ major' \in Seq(Chars)
      /\ minor' \in Seq(Chars)
  <2>1. /\ Append(method, c) \in Seq(Chars) /\ Append(uri, c) \in Seq(Chars)
        /\ Append(major, c) \in Seq(Chars) /\ Append(minor, c) \in Seq(Chars)
    BY <1>2, <1>6, AppendedChar
  <2> QED
    BY <1>6, <1>7, <2>1
<1>9. CASE state \in InFirst
  <2>1. m[2] \in InFirst \cup {"header_line_start"} /\ headers = <<>> /\ headers' = headers
    <3>1. m[2] \in InFirst \cup {"header_line_start"} /\ m[2] \notin {"header_value", "header_name"}
      BY <1>1, <1>2, <1>9, LinesLead, FirstLineTargets DEF h
    <3>2. headers = <<>>
      BY <1>4, <1>9 DEF Described, h
    <3> QED
      BY <1>7, <3>1, <3>2 DEF Headers, InValue
  <2>2. Unfolded(Seen') = Append(t, c)
    <3>1. c \notin Spaced \/ ~AtFold(Seen)
      BY <1>2, <1>3, <1>4, <1>9, FirstHasNoFold DEF h
    <3> QED
      BY <1>2, <1>3, <3>1, CharKept DEF t
  <2>3. SpelledFirst(t, state, method, uri, major, minor)
    BY <1>9 DEF Kept, t
  <2>4. /\ m[2] # "header_line_start" =>
             SpelledFirst(Append(t, c), m[2], method', uri', major', minor')
        /\ m[2] = "header_line_start" => Append(t, c) = FirstPart(method', uri', major', minor')
    <3>1. /\ m[2] # "header_line_start" =>
               SpelledFirst(Append(t, c), m[2], Grown(method, c, m[2] = "method"),
                            Grown(uri, c, m[2] = "uri" /\ state = "uri"),
                            Grown(major, c, m[2] = "http_version_major"),
                            Grown(minor, c, m[2] = "http_version_minor"))
          /\ m[2] = "header_line_start" => Append(t, c) = FirstPart(method, uri, major, minor)
      <4>1. FirstKept(t, state, method, uri, major, minor)
        BY <1>5, <1>6, <2>3 DEF FirstKept
      <4> QED
        BY <1>2, <1>9, <4>1, FirstSpelled
    <3>2. /\ method' = Grown(method, c, m[2] = "method")
          /\ uri' = Grown(uri, c, m[2] = "uri" /\ state = "uri")
          /\ major' = Grown(major, c, m[2] = "http_version_major")
          /\ minor' = Grown(minor, c, m[2] = "http_version_minor")
      BY <1>7 DEF Grown
    <3>3. m[2] = "header_line_start" =>
            method' = method /\ uri' = uri /\ major' = major /\ minor' = minor
      BY <1>7
    <3> QED
      BY <3>1, <3>2, <3>3
  <2>5. m[2] # "good" /\ state' = m[2]
    BY <2>1 DEF InFirst
  <2>6. CASE m[2] # "header_line_start"
    BY <1>8, <2>1, <2>2, <2>4, <2>5, <2>6 DEF Kept
  <2>7. CASE m[2] = "header_line_start"
    <3>1. FirstPart(method', uri', major', minor') \in Seq(Chars)
      BY <1>8, FirstPartType
    <3>2. AllOf(FirstPart(method', uri', major', minor'), headers') = Append(t, c)
      BY <1>1, <2>1, <2>4, <2>7, <3>1, AllType
    <3> QED
      BY <1>8, <2>2, <2>5, <2>7, <3>2 DEF Kept, SpelledHeaders, InFirst
  <2> QED
    BY <2>5, <2>6, <2>7
<1>10. CASE state \notin InFirst
  <2>1. m[2] \notin InFirst
    BY <1>1, <1>2, <1>10, LinesLead DEF h
  <2>2. method' = method /\ uri' = uri /\ major' = major /\ minor' = minor
    BY <1>7, <2>1 DEF InFirst
  <2>3. SpelledHeaders(t, state, f, headers) /\ f \in Seq(Chars)
    BY <1>6, <1>10, FirstPartType DEF Kept, t
  <2>4. state \in AfterFirst
    BY <1>1, <1>10 DEF States, InFirst, InHeaders, AfterFirst
  <2>5. headers' = HeadersTo(headers, state, c, m[2])
    BY <1>7 DEF Headers, HeadersTo, InValue, WithValue, WithName, NewHeader, ValueAdded,
                NameAdded, NameBegun
  <2> HIDE DEF f
  <2>6. /\ headers' \in Seq(Header)
        /\ m[2] \notin {"good", "header_lws"} => SpelledHeaders(Append(t, c), m[2], f, headers')
        /\ m[2] = "good" => headers' = headers /\ Append(t, c) = Append(Append(AllOf(f, headers), "CR"), "LF")
    <3>1. HeadersKept(t, state, f, headers)
      BY <1>1, <1>5, <2>3 DEF HeadersKept, h
    <3>2. /\ HeadersTo(headers, state, c, m[2]) \in Seq(Header)
          /\ m[2] \notin {"good", "header_lws"} =>
               SpelledHeaders(Append(t, c), m[2], f, HeadersTo(headers, state, c, m[2]))
          /\ m[2] = "good" => /\ HeadersTo(headers, state, c, m[2]) = headers
                              /\ Append(t, c) = Append(Append(AllOf(f, headers), "CR"), "LF")
      BY <1>2, <2>4, <3>1, HeadersSpelled
    <3> QED
      BY <2>5, <3>2
  <2>7. f' = f
    BY <2>2 DEF f
  <2>8. CASE c \in Spaced /\ m[2] = "header_lws"
    <3>1. state \in InHeaders
      BY <2>4, <2>8 DEF Moves, AfterFirst
    <3>2. SpelledHeaders(Unfolded(Append(Seen, c)), "header_lws", f, headers)
      BY <1>1, <1>2, <1>3, <1>4, <2>3, <2>8, <3>1, HeaderSpaces DEF h, t
    <3>3. headers' = headers /\ state' = "header_lws"
      BY <2>5, <2>8 DEF HeadersTo
    <3> QED
      BY <1>3, <1>8, <2>7, <2>8, <3>2, <3>3 DEF Kept, InFirst, f
  <2>9. CASE c \notin Spaced \/ m[2] # "header_lws"
    <3>1. m[2] # "header_lws"
      BY <2>4, <2>9, <1>2 DEF Moves, Lws, Spaced, InHeaders, AfterFirst
    <3>2. c \notin Spaced \/ ~AtFold(Seen)
      <4>1. CASE state \in InHeaders
        BY <1>1, <1>2, <1>3, <1>4, <2>3, <3>1, <4>1, HeaderSpaces DEF h, t
      <4>2. CASE state = "expecting_newline_3"
        BY <1>2, <4>2 DEF Moves, LastNewline, Spaced
      <4> QED
        BY <2>4, <4>1, <4>2 DEF AfterFirst
    <3>3. Unfolded(Seen') = Append(t, c)
      BY <1>2, <1>3, <3>2, CharKept DEF t
    <3>4. CASE m[2] # "good"
      BY <1>8, <2>1, <2>6, <2>7, <3>1, <3>3, <3>4 DEF Kept, f
    <3>5. CASE m[2] = "good"
      <4>1. Unfolded(Seen)' = Whole(FirstPart(method', uri', major', minor'), headers')
        BY <2>2, <2>6, <3>3, <3>5 DEF f, Whole
      <4>2. (Parts(method, uri, major, minor, headers)
              /\ Unfolded(Seen) = Whole(FirstPart(method, uri, major, minor), headers)
             => RequestKept)'
        BY GoodIsKept, PTL
      <4> QED
        BY <1>8, <2>6, <3>5, <4>1, <4>2 DEF Parts
    <3> QED
      BY <3>4, <3>5
  <2> QED
    BY <2>8, <2>9
<1> QED
  BY <1>9, <1>10

LEMMA KeptPartsStep == KInv /\ [Next]_vars => KInv'
<1> SUFFICES ASSUME KInv, [Next]_vars PROVE KInv'
  OBVIOUS
<1>1. BInv'
  BY ReadStep DEF KInv
<1>2. CASE UNCHANGED vars
  <2>1. /\ Seen' = Seen /\ state' = state /\ headers' = headers /\ result' = result
        /\ method' = method /\ uri' = uri /\ major' = major /\ minor' = minor
    BY <1>2 DEF vars, req, Seen
  <2>2. RequestKept'
    BY <2>1 DEF KInv, RequestKept
  <2>3. result' = "indeterminate" => Kept'
    BY <2>1 DEF KInv, Kept
  <2> QED
    BY <1>1, <2>2, <2>3 DEF KInv
<1>3. CASE Next
  <2> DEFINE c == input[pos + 1]
  <2>1. /\ Consume(c) /\ pos' = pos + 1 /\ input' = input /\ pos + 1 <= Len(input)
        /\ result = "indeterminate" /\ BInv /\ Kept
    <3>1. input \in Seq(Chars) /\ pos \in Nat
      BY DEF KInv, BInv, PInv, IInv
    <3> QED
      BY <1>3, <3>1 DEF Next, KInv
  <2>2. CASE result' = "bad"
    BY <1>1, <2>2 DEF KInv, RequestKept
  <2>3. ASSUME NEW m \in Moves(headers # <<>>)[state], c \in m[1],
               result' = (IF m[2] = "good" THEN "good" ELSE "indeterminate"),
               state' = (IF m[2] = "good" THEN state ELSE m[2]), Keep(c, m[2])
        PROVE  KInv'
    <3>1. (m[2] # "good" => Kept') /\ (m[2] = "good" => RequestKept')
      BY <2>1, <2>3, KeptMove
    <3>2. m[2] # "good" => RequestKept'
      BY <2>3 DEF RequestKept
    <3> QED
      BY <1>1, <2>3, <3>1, <3>2 DEF KInv
  <2> QED
    BY <2>1, <2>2, <2>3 DEF Consume
<1> QED
  BY <1>2, <1>3

\* request_parser.cc:23-291, for every sequence of bytes: what handlers, routes and the
\* log are given of a request is all of it, a continued header as one line.
THEOREM PartsAreKept == Spec => []RequestKept
<1>1. KInv => RequestKept
  BY DEF KInv
<1> QED
  BY <1>1, KeptPartsInit, KeptPartsStep, PTL DEF Spec
=============================================================================
