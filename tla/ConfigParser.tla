---------------------------- MODULE ConfigParser ----------------------------
(***************************************************************************)
(* NginxConfigParser: ParseToken cuts a text into tokens and Parse builds  *)
(* statements and blocks from them; main then looks for a port and the     *)
(* server for its locations.                                               *)
(*                                                                         *)
(* A text is a sequence of pieces: the characters the parser tells apart,  *)
(* and runs of others ("port", "location", "8000", ...), which it keeps    *)
(* together.                                                               *)
(***************************************************************************)
EXTENDS Integers, SequencesExt

CONSTANT Texts  \* the contents of configuration files

ASSUME TextsAssumption == \A w \in Texts : w \in Seq(STRING)

VARIABLES
  text,    \* the file
  pos,     \* how much of it was read
  mode,    \* ParseToken: "initial", "word", "#", or the quote it is in
  value,   \* the pieces of the token so far
  token,   \* the type of the token just read, or "none"
  last,    \* last_token_type
  depth,   \* block_start_count; block_end_count is always its negative
  blocks,  \* every NginxConfig made, the first is the caller's
  stack,   \* config_stack
  status,  \* "reading", "accepted", "rejected", or "undefined"
  server,  \* what main made of it: "none", "refused", "up", or "undefined"
  port     \* the port it listens on

lexer == <<text, pos, mode, value>>
parser == <<last, depth, blocks, stack, status>>
main == <<server, port>>
vars == <<lexer, token, parser, main>>

Quotes == {"'", "\""}
Marks == {"{", "}", ";"}
Space == {"SP", "LF", "CR"}

\* What may follow a closing quote, and what ends a word: a carriage return
\* does not (the condition names the tab twice).
AfterQuote == Space \cup Marks
WordEnds == {"SP", "LF"} \cup Marks

\* A statement: its words, and its block or 0.
NoWord(words, child) == [words |-> <<>>, child |-> child]
Statement(words, child) == [words |-> words, child |-> child]
Top == stack[Len(stack)]

----------------------------------------------------------------------------
(* ParseToken                                                              *)

Reading == status = "reading" /\ token = "none"
More == pos < Len(text)
Next1 == text[pos + 1]

Skip ==
  /\ Reading /\ More /\ mode = "initial" /\ Next1 \in Space
  /\ pos' = pos + 1
  /\ UNCHANGED <<text, mode, value, token, parser, main>>

\* A character that is a token, or the first one of a longer token.
Mark ==
  /\ Reading /\ More /\ mode = "initial" /\ Next1 \in Marks
  /\ pos' = pos + 1
  /\ token' = Next1
  /\ UNCHANGED <<text, mode, value, parser, main>>

Begin ==
  /\ Reading /\ More /\ mode = "initial" /\ Next1 \notin Space \cup Marks
  /\ pos' = pos + 1
  /\ value' = <<Next1>>
  /\ mode' = IF Next1 \in Quotes \cup {"#"} THEN Next1 ELSE "word"
  /\ UNCHANGED <<text, token, parser, main>>

\* Does Next1 go on with the token?  A backslash does, as any other character.
Continues ==
  CASE mode = "word"   -> Next1 \notin WordEnds
    [] mode = "#"      -> Next1 \notin {"LF", "CR"}
    [] mode \in Quotes -> Next1 # mode
    [] OTHER           -> FALSE

Continue ==
  /\ Reading /\ More /\ Continues
  /\ pos' = pos + 1
  /\ value' = Append(value, Next1)
  /\ UNCHANGED <<text, mode, token, parser, main>>

\* The character that ends a word is put back.
WordEnd ==
  /\ Reading /\ More /\ mode = "word" /\ ~Continues
  /\ token' = "word"
  /\ UNCHANGED <<lexer, parser, main>>

CommentEnd ==
  /\ Reading /\ More /\ mode = "#" /\ ~Continues
  /\ pos' = pos + 1
  /\ token' = "comment"
  /\ UNCHANGED <<text, mode, value, parser, main>>

\* So is the one after a closing quote, which must be there.
QuoteEnd ==
  /\ Reading /\ More /\ mode \in Quotes /\ ~Continues
  /\ pos' = pos + 1
  /\ value' = Append(value, Next1)
  /\ token' = IF pos + 1 < Len(text) /\ text[pos + 2] \in AfterQuote
              THEN "word" ELSE "error"
  /\ UNCHANGED <<text, mode, parser, main>>

\* The end of the file drops a word or a comment that reaches it.
AtEnd == IF mode \in Quotes THEN "error" ELSE "eof"

EndOfFile ==
  /\ Reading /\ ~More
  /\ token' = AtEnd
  /\ UNCHANGED <<lexer, parser, main>>

----------------------------------------------------------------------------
(* Parse, one token at a time.                                             *)

Handle(type) == status = "reading" /\ token = type
\* The next call of ParseToken starts from nothing.
NextToken == token' = "none" /\ mode' = "initial" /\ value' = <<>> /\ UNCHANGED <<text, pos>>
Stop(outcome) ==
  /\ status' = outcome
  /\ UNCHANGED <<lexer, token, last, depth, blocks, stack, main>>

\* Which tokens may follow which.
EvenAtStart == {"word", "{", "start"}
MayBegin == {"word", "{"}
MayEnd == {";", "{", "}", "word"}

SkipComment == Handle("comment") /\ NextToken /\ UNCHANGED <<parser, main>>

\* A word goes on with a statement or begins one.
WithWord(statements) ==
  IF last = "word"
  THEN [statements EXCEPT ![Len(statements)].words = Append(@, value)]
  ELSE Append(statements, Statement(<<value>>, 0))

Word ==
  /\ Handle("word") /\ stack # <<>>
  /\ blocks' = [blocks EXCEPT ![Top] = WithWord(@)]
  /\ last' = "word"
  /\ NextToken
  /\ UNCHANGED <<depth, stack, status, main>>

EndStatement ==
  /\ Handle(";") /\ last = "word"
  /\ last' = ";"
  /\ NextToken
  /\ UNCHANGED <<depth, blocks, stack, status, main>>

WithChild(statements, child) == [statements EXCEPT ![Len(statements)].child = child]

StartBlock ==
  /\ Handle("{") /\ last \in MayBegin
  /\ blocks[Top] # <<>>
  /\ LET new == Len(blocks) + 1 IN
       /\ blocks' = Append([blocks EXCEPT ![Top] = WithChild(@, new)], <<>>)
       /\ stack' = Append(stack, new)
  /\ depth' = depth + 1
  /\ last' = "{"
  /\ NextToken
  /\ UNCHANGED <<status, main>>

\* pop() does not ask whether the block popped was ever begun.
NoPop(s) == s
Pop(s) == SubSeq(s, 1, Len(s) - 1)

EndBlock ==
  /\ Handle("}") /\ last \in MayEnd /\ stack # <<>>
  /\ stack' = Pop(stack)
  /\ depth' = depth - 1
  /\ last' = "}"
  /\ NextToken
  /\ UNCHANGED <<blocks, status, main>>

Unbalanced == last \in {";", "}"}
Complete == last \in {";", "}"} /\ depth = 0

Accept == Handle("eof") /\ Complete /\ Stop("accepted")

Reject ==
  /\ \/ Handle("error")
     \/ Handle("eof") /\ ~Complete
     \/ Handle(";") /\ last # "word"
     \/ Handle("{") /\ last \notin MayBegin
     \/ Handle("}") /\ last \notin MayEnd
  /\ Stop("rejected")

\* top() or pop() of the empty stack, back() of a block without statements:
\* nothing can be said of the program from here on.
Derail ==
  /\ \/ Handle("word") /\ stack = <<>>
     \/ Handle("}") /\ last \in MayEnd /\ stack = <<>>
     \/ Handle("{") /\ last \in MayBegin /\ blocks[Top] = <<>>
  /\ Stop("undefined")

----------------------------------------------------------------------------
(* NginxConfig::ToString, as the tokens it writes.                         *)

WordToken(w) == [type |-> "word", word |-> w]
MarkToken(c) == [type |-> c, word |-> <<>>]

ToText ==
  LET written[b \in 1 .. Len(blocks)] ==
        FlattenSeq([i \in DOMAIN blocks[b] |->
          LET s == blocks[b][i] IN
            [k \in DOMAIN s.words |-> WordToken(s.words[k])] \o
            IF s.child = 0 THEN <<MarkToken(";")>>
            ELSE <<MarkToken("{")>> \o written[s.child] \o <<MarkToken("}")>>])
  IN written[1]

----------------------------------------------------------------------------
(* main                                                                    *)

NoPort == -1
PastTheEnd == -2  \* an element was read that is not there

\* atoi, of words that begin with a number or not: with digits behind it a number
\* is above the range or below it.  (BOUND: none beyond an int, for which atoi is
\* undefined.)
Digits == {"8000", "70000"}
Negative == "-8000"
Atoi(w) ==
  CASE w[1] = Negative    -> -8000
    [] w[1] \notin Digits \cup {Negative} -> 0
    [] OTHER -> IF w[1] = "8000" /\ (Len(w) = 1 \/ w[2] \notin Digits) THEN 8000 ELSE 70000

InRange(n) == n >= 0 /\ n <= 65535

PortIn(s) ==
  IF Len(s.words) < 2 THEN PastTheEnd
  ELSE IF InRange(Atoi(s.words[2])) THEN Atoi(s.words[2]) ELSE NoPort

FirstBlockDecides(p) == TRUE
IsFound(p) == p # NoPort

\* get_port_num: in the order of the text; a port that is out of range ends the
\* search in its block, not in the blocks around it.
PortNum ==
  LET found[b \in 1 .. Len(blocks)] ==
        LET i == SelectInSeq(blocks[b], LAMBDA s :
                   IF s.child = 0 THEN s.words[1] = <<"port">> ELSE IsFound(found[s.child]))
        IN IF i = 0 THEN NoPort
           ELSE LET s == blocks[b][i] IN IF s.child = 0 THEN PortIn(s) ELSE found[s.child]
  IN found[1]

NoSecondArgument(s) == Len(s.words) < 3
NoArgument(s) == Len(s.words) < 2

\* The get_*_path queries read the third word of every location at the top;
\* get_crud_args and get_markdown_args the second word of each statement in the
\* block of theirs, get_static_file_path the one behind each "root" of its first.
Misread(i) ==
  LET s == blocks[1][i]
      is(j, h) == LET w == blocks[1][j].words IN
                    Len(w) > 2 /\ w[1] = <<"location">> /\ w[3] = <<h>>
  IN  /\ s.words[1] = <<"location">>
      /\ \/ Len(s.words) < 3
         \/ /\ is(i, "CrudHandler") \/ is(i, "MarkdownHandler")
            /\ s.child = 0 \/ \E a \in ToSet(blocks[s.child]) : NoArgument(a)
         \/ /\ is(i, "StaticHandler") /\ \A j \in 1 .. i - 1 : ~is(j, "StaticHandler")
            /\ s.child = 0 \/ \E a \in ToSet(blocks[s.child]) : Last(a.words) = <<"root">>

Misreads == {i \in DOMAIN blocks[1] : Misread(i)}

Refuse ==
  /\ server = "none"
  /\ status = "rejected" \/ (status = "accepted" /\ PortNum = NoPort)
  /\ server' = "refused"
  /\ UNCHANGED <<lexer, token, parser, port>>

\* The constructor of server runs configMap.
Start ==
  /\ server = "none" /\ status = "accepted" /\ PortNum # NoPort
  /\ port' = PortNum
  /\ server' = IF PortNum = PastTheEnd \/ Misreads # {} THEN "undefined" ELSE "up"
  /\ UNCHANGED <<lexer, token, parser>>

----------------------------------------------------------------------------
Init ==
  /\ text \in Texts
  /\ pos = 0 /\ mode = "initial" /\ value = <<>> /\ token = "none"
  /\ last = "start" /\ depth = 0
  /\ blocks = << <<>> >> /\ stack = <<1>>
  /\ status = "reading" /\ server = "none" /\ port = NoPort

ParseToken ==
  Skip \/ Mark \/ Begin \/ Continue \/ WordEnd \/ CommentEnd \/ QuoteEnd \/ EndOfFile

Parse ==
  SkipComment \/ Word \/ EndStatement \/ StartBlock \/ EndBlock \/ Accept \/ Reject \/ Derail

Next == ParseToken \/ Parse \/ Refuse \/ Start

Spec == Init /\ [][Next]_vars

----------------------------------------------------------------------------
(* What a configuration is, stated over the whole text.                    *)

\* Where the first piece in S is, from i on.
FirstOf(w, S, i) ==
  CHOOSE j \in i .. Len(w) + 1 :
    (j > Len(w) \/ w[j] \in S) /\ \A k \in i .. j - 1 : w[k] \notin S

\* What begins at i: a token or nothing, and where the next one can begin.  Comments
\* and a word that the end of the text cuts off count for nothing, a quote that is not
\* closed properly is no token.  A carriage return is part of a word.
Cut(w, i) ==
  LET n == Len(w)
      closing == FirstOf(w, {w[i]}, i + 1)
      end == FirstOf(w, {"SP", "LF"} \cup Marks, i)
      line == FirstOf(w, {"LF", "CR"}, i)
  IN CASE w[i] \in Space -> [tokens |-> <<>>, next |-> i + 1]
       [] w[i] \in Marks -> [tokens |-> <<MarkToken(w[i])>>, next |-> i + 1]
       [] w[i] = "#" -> [tokens |-> <<>>, next |-> IF line > n THEN n + 1 ELSE line + 1]
       [] w[i] \in Quotes ->
            IF closing < n /\ w[closing + 1] \in Space \cup Marks
            THEN [tokens |-> <<WordToken(SubSeq(w, i, closing))>>, next |-> closing + 1]
            ELSE [tokens |-> <<MarkToken("error")>>, next |-> n + 1]
       [] OTHER -> IF end > n THEN [tokens |-> <<>>, next |-> n + 1]
                   ELSE [tokens |-> <<WordToken(SubSeq(w, i, end - 1))>>, next |-> end]

\* The tokens from each place of a text on.
Cuts(w) ==
  LET from[i \in 1 .. Len(w) + 1] ==
        IF i > Len(w) THEN <<>> ELSE Cut(w, i).tokens \o from[Cut(w, i).next]
  IN from

Tokens(w) == Cuts(w)[1]

\* statement: words and ";", which the last one of a block can do without, or
\* words and a block; a configuration is one statement or more.
IsWords(t, i, j) == i < j /\ \A k \in i .. j - 1 : t[k].type = "word"

IsStatement(t, block, i, k) ==
  \E m \in i + 1 .. k :
    /\ IsWords(t, i, m)
    /\ \/ m = k - 1 /\ t[m].type = ";"
       \/ m = k /\ k <= Len(t) /\ t[k].type = "}"
       \/ m < k - 1 /\ t[m].type = "{" /\ t[k - 1].type = "}" /\ block[<<m + 1, k - 1>>]

IsBlock(t) ==
  LET block[p \in (1 .. Len(t) + 1) \X (1 .. Len(t) + 1)] ==
        \/ p[1] = p[2]
        \/ \E k \in p[1] + 1 .. p[2] : IsStatement(t, block, p[1], k) /\ block[<<k, p[2]>>]
  IN block

IsConfig(t) == t # <<>> /\ IsBlock(t)[<<1, Len(t) + 1>>]

DepthAt(t, i) ==
  Cardinality({k \in 1 .. i - 1 : t[k].type = "{"})
    - Cardinality({k \in 1 .. i - 1 : t[k].type = "}"})

\* Where a statement begins, its words, and what is inside its block.
Begins(t) == {i \in DOMAIN t : t[i].type = "word" /\ (i = 1 \/ t[i - 1].type # "word")}
After(t, i) == CHOOSE j \in i + 1 .. Len(t) :
                 t[j].type # "word" /\ \A k \in i .. j - 1 : t[k].type = "word"
WordsAt(t, i) == [k \in 1 .. After(t, i) - i |-> t[i + k - 1].word]
HasBlock(t, i) == t[After(t, i)].type = "{"
Inside(t, i) ==
  {j \in Begins(t) : /\ i < j /\ DepthAt(t, j) = DepthAt(t, i) + 1
                     /\ \A k \in i + 1 .. j : k \in Begins(t) => DepthAt(t, k) > DepthAt(t, i)}

\* The statements that name a port, and the port one with a number names.
Ports(t) == {i \in Begins(t) : WordsAt(t, i)[1] = <<"port">> /\ ~HasBlock(t, i)}
NumberAt(t, i) ==
  LET n == Atoi(WordsAt(t, i)[2]) IN IF n >= 0 /\ n <= 65535 THEN n ELSE NoPort

\* Locations have a path, a handler and its arguments; ports have a number.
Sound(t) ==
  \A i \in Begins(t) :
    /\ WordsAt(t, i)[1] = <<"location">> /\ DepthAt(t, i) = 0 =>
         /\ Len(WordsAt(t, i)) > 2
         /\ WordsAt(t, i)[3][1] \in {"CrudHandler", "MarkdownHandler", "StaticHandler"} =>
              /\ HasBlock(t, i)
              /\ \A j \in Inside(t, i) :
                   Len(WordsAt(t, j)) > 1 /\ Last(WordsAt(t, j)) # <<"root">>
    /\ WordsAt(t, i)[1] = <<"port">> /\ ~HasBlock(t, i) => Len(WordsAt(t, i)) > 1

----------------------------------------------------------------------------
(* Properties                                                              *)

\* config_parser.h:45, "returns true iff the input config file is valid", with
\* the grammar above for valid.
AcceptedIffConfig == status # "reading" => (status = "accepted" <=> IsConfig(Tokens(text)))

\* Parse reaches for a block or a statement that is not there only in a text with
\* two braces in a row or more braces closed than opened.
DerailsOnlyOnBraces ==
  status = "undefined" =>
    LET t == Tokens(text) IN
      \/ \E i \in 1 .. Len(t) - 1 : t[i].type = "{" /\ t[i + 1].type = "{"
      \/ \E i \in DOMAIN t : DepthAt(t, i) < 0

\* What was accepted is what was written: ToString gives its tokens back, in
\* their order and nesting, and the ";" that blocks may do without.
NothingLost ==
  status = "accepted" =>
    LET t == Tokens(text)
        needs(i) == t[i].type = "word" /\ i < Len(t) /\ t[i + 1].type = "}"
    IN ToText = FlattenSeq([i \in DOMAIN t |->
                              IF needs(i) THEN <<t[i], MarkToken(";")>> ELSE <<t[i]>>])

\* get_port_num and the get_*_path queries read tokens_[0] of every statement
\* and follow every child_block_: each is there, while Parse runs and ever after.
HasWords ==
  \A b \in DOMAIN blocks : \A i \in DOMAIN blocks[b] :
    LET s == blocks[b][i] IN
      s.words # <<>> /\ (s.child # 0 => s.child \in b + 1 .. Len(blocks))

\* The queries run off the end of a statement only in a configuration that is
\* missing something.
SoundIsRead == server = "undefined" => status = "accepted" /\ ~Sound(Tokens(text))

\* One port statement, in whatever block it is: the server listens on that port
\* if it is one, and does not start otherwise.
PortAsWritten ==
  status = "accepted" /\ server \in {"up", "refused"} =>
    /\ Ports(Tokens(text)) = {} => server = "refused"
    /\ \A i \in Ports(Tokens(text)) :
         Ports(Tokens(text)) = {i} /\ Len(WordsAt(Tokens(text), i)) > 1 =>
           port = NumberAt(Tokens(text), i)
=============================================================================
