------------------------- MODULE ConfigParserProofs -------------------------
(* Proofs about ConfigParser, for every text.                              *)
EXTENDS ConfigParser, FiniteSetTheorems, SequenceLemmas

WordSet == Seq(STRING)
StatementSet == [words : Seq(WordSet), child : Nat]

Typed ==
  /\ text \in Seq(STRING) /\ pos \in Nat /\ value \in WordSet
  /\ blocks \in Seq(Seq(StatementSet)) /\ stack \in Seq(Nat) /\ depth \in Int

\* The open blocks are blocks; the innermost of them is the one a word goes on in.
Opened == \A k \in DOMAIN stack : stack[k] \in DOMAIN blocks
GoesOn ==
  status = "reading" =>
    (last \in MayBegin => stack # <<>>) /\ (last = "word" => blocks[Top] # <<>>)
\* One more open block than begun and not ended: the caller's.
Counted == Len(stack) = depth + 1 /\ (stack # <<>> => stack[1] = 1)

\* A statement as HasWords wants it, in block b of n.
Proper(s, b, n) == s.words # <<>> /\ (s.child # 0 => s.child \in b + 1 .. n)

IInv == Typed /\ Opened /\ GoesOn /\ Counted /\ HasWords

\* An accepted configuration has no block left open.
AllClosed == status = "accepted" => stack = <<1>>
CInv == IInv /\ AllClosed

LEMMA EmptyWord == <<>> \in WordSet
BY DEF WordSet

LEMMA InitIInv == Init => CInv
BY TextsAssumption, SMTT(30) DEF Init, CInv, IInv, Typed, Opened, GoesOn, Counted, HasWords,
   StatementSet, WordSet, Top, AllClosed

\* ParseToken leaves the statements alone.
LEMMA ParseTokenKeeps == ASSUME CInv, ParseToken PROVE CInv'
<1>1. text \in Seq(STRING) /\ pos \in Nat /\ value \in Seq(STRING)
  BY DEF CInv, IInv, Typed, WordSet
<1>2. More => Next1 \in STRING
  BY <1>1 DEF More, Next1
<1>3. text' = text /\ pos' \in Nat /\ value' \in Seq(STRING)
  <2>1. CASE Skip BY <2>1, <1>1 DEF Skip
  <2>2. CASE Mark BY <2>2, <1>1 DEF Mark
  <2>3. CASE Begin BY <2>3, <1>1, <1>2 DEF Begin
  <2>4. CASE Continue BY <2>4, <1>1, <1>2 DEF Continue
  <2>5. CASE WordEnd BY <2>5, <1>1 DEF WordEnd, lexer
  <2>6. CASE CommentEnd BY <2>6, <1>1 DEF CommentEnd
  <2>7. CASE QuoteEnd BY <2>7, <1>1, <1>2 DEF QuoteEnd
  <2>8. CASE EndOfFile BY <2>8, <1>1 DEF EndOfFile, lexer
  <2> QED BY <2>1, <2>2, <2>3, <2>4, <2>5, <2>6, <2>7, <2>8 DEF ParseToken
<1>4. UNCHANGED parser
  BY DEF ParseToken, Skip, Mark, Begin, Continue, WordEnd, CommentEnd, QuoteEnd, EndOfFile
<1> QED
  BY <1>3, <1>4 DEF CInv, IInv, Typed, WordSet, Opened, GoesOn, Counted, HasWords, AllClosed,
     parser, Top

\* Three facts about sequences.
LEMMA Appended ==
  ASSUME NEW S, NEW s \in Seq(S), NEW x \in S
  PROVE  /\ Append(s, x) \in Seq(S) /\ Append(s, x) # <<>>
         /\ Len(Append(s, x)) = Len(s) + 1
         /\ DOMAIN Append(s, x) = DOMAIN s \cup {Len(s) + 1}
         /\ Append(s, x)[Len(s) + 1] = x
         /\ \A i \in DOMAIN s : Append(s, x)[i] = s[i]
OBVIOUS

LEMMA Replaced ==
  ASSUME NEW S, NEW s \in Seq(S), NEW i \in DOMAIN s, NEW x \in S
  PROVE  /\ [s EXCEPT ![i] = x] \in Seq(S) /\ [s EXCEPT ![i] = x] # <<>>
         /\ Len([s EXCEPT ![i] = x]) = Len(s)
         /\ DOMAIN [s EXCEPT ![i] = x] = DOMAIN s
         /\ [s EXCEPT ![i] = x][i] = x
         /\ \A j \in DOMAIN s : j # i => [s EXCEPT ![i] = x][j] = s[j]
OBVIOUS

LEMMA Popped ==
  ASSUME NEW S, NEW s \in Seq(S), s # <<>>
  PROVE  /\ Pop(s) \in Seq(S) /\ Len(Pop(s)) = Len(s) - 1
         /\ \A k \in DOMAIN Pop(s) : k \in DOMAIN s /\ Pop(s)[k] = s[k]
         /\ Pop(s) # <<>> => 1 \in DOMAIN Pop(s)
BY DEF Pop

\* The statements of a block are proper, n blocks being there.
Propers(statements, b, n) == \A i \in DOMAIN statements : Proper(statements[i], b, n)

LEMMA ProperNow == HasWords <=> \A b \in DOMAIN blocks : Propers(blocks[b], b, Len(blocks))
BY DEF HasWords, Propers, Proper

LEMMA LastOne ==
  ASSUME NEW S, NEW s \in Seq(S), s # <<>>
  PROVE  Len(s) \in DOMAIN s /\ s[Len(s)] \in S
OBVIOUS

LEMMA WithWordKeeps ==
  ASSUME NEW s \in Seq(StatementSet), NEW b, NEW n, Propers(s, b, n),
         value \in WordSet, last = "word" => s # <<>>
  PROVE  WithWord(s) \in Seq(StatementSet) /\ WithWord(s) # <<>> /\ Propers(WithWord(s), b, n)
<1>1. CASE last = "word"
  <2> DEFINE t == [s[Len(s)] EXCEPT !.words = Append(@, value)]
  <2>1. Len(s) \in DOMAIN s /\ s[Len(s)] \in StatementSet
    BY <1>1, LastOne
  <2>2. Append(s[Len(s)].words, value) \in Seq(WordSet) /\ Append(s[Len(s)].words, value) # <<>>
    <3>1. s[Len(s)].words \in Seq(WordSet)
      BY <2>1 DEF StatementSet
    <3> QED
      BY <3>1, Appended
  <2>3. t.words = Append(s[Len(s)].words, value) /\ t.child = s[Len(s)].child
    BY <2>1 DEF StatementSet
  <2>3a. t \in StatementSet
    BY <2>1, <2>2 DEF StatementSet
  <2>3b. t.words # <<>>
    BY <2>2, <2>3
  <2>4. WithWord(s) = [s EXCEPT ![Len(s)] = t]
    BY <1>1 DEF WithWord
  <2> HIDE DEF t
  <2>5. Proper(t, b, n)
    BY <2>1, <2>3, <2>3b DEF Propers, Proper
  <2> QED
    BY <2>1, <2>4, <2>5, <2>3a, Replaced DEF Propers
<1>2. CASE last # "word"
  <2>1. Statement(<<value>>, 0) \in StatementSet /\ Proper(Statement(<<value>>, 0), b, n)
    BY DEF StatementSet, Statement, Proper
  <2>2. WithWord(s) = Append(s, Statement(<<value>>, 0))
    BY <1>2 DEF WithWord
  <2> QED
    BY <2>1, <2>2, Appended DEF Propers
<1> QED
  BY <1>1, <1>2

LEMMA WithChildKeeps ==
  ASSUME NEW s \in Seq(StatementSet), s # <<>>, NEW b \in Nat, NEW n \in Nat,
         Propers(s, b, n), b <= n
  PROVE  WithChild(s, n + 1) \in Seq(StatementSet) /\ Propers(WithChild(s, n + 1), b, n + 1)
<1> DEFINE t == [s[Len(s)] EXCEPT !.child = n + 1]
<1>1. Len(s) \in DOMAIN s /\ s[Len(s)] \in StatementSet
  BY LastOne
<1>2. t \in StatementSet /\ t.words = s[Len(s)].words /\ t.child = n + 1
  BY <1>1 DEF StatementSet
<1>3. WithChild(s, n + 1) = [s EXCEPT ![Len(s)] = t]
  BY DEF WithChild
<1> HIDE DEF t
<1>4. Proper(t, b, n + 1)
  BY <1>1, <1>2 DEF Propers, Proper
<1>5. \A i \in DOMAIN s : Proper(s[i], b, n + 1)
  BY DEF Propers, Proper
<1> QED
  BY <1>1, <1>2, <1>3, <1>4, <1>5, Replaced DEF Propers

\* A word extends the last statement of the innermost open block or begins one.
LEMMA WordKeeps == ASSUME CInv, Word PROVE CInv'
<1> DEFINE b == stack[Len(stack)]
           new == WithWord(blocks[b])
<1>1. /\ stack \in Seq(Nat) /\ stack # <<>>
      /\ blocks \in Seq(Seq(StatementSet)) /\ value \in WordSet
  BY DEF CInv, IInv, Typed, Word
<1>2. b \in DOMAIN blocks
  BY <1>1, LastOne DEF CInv, IInv, Opened
<1>3. blocks[b] \in Seq(StatementSet)
  BY <1>1, <1>2
<1>4. /\ UNCHANGED <<text, pos, stack, depth, status>> /\ value' = <<>> /\ status = "reading"
  BY DEF Word, NextToken, Handle
<1>5. blocks' = [blocks EXCEPT ![b] = new]
  BY DEF Word, Top
<1>6. Propers(blocks[b], b, Len(blocks)) /\ (last = "word" => blocks[b] # <<>>)
  BY <1>2, <1>4, ProperNow DEF CInv, IInv, GoesOn, Top
<1>7. new \in Seq(StatementSet) /\ new # <<>> /\ Propers(new, b, Len(blocks))
  BY <1>1, <1>3, <1>6, WithWordKeeps
<1> HIDE DEF new, b
<1>8. /\ blocks' \in Seq(Seq(StatementSet)) /\ DOMAIN blocks' = DOMAIN blocks
      /\ Len(blocks') = Len(blocks) /\ blocks'[b] = new
      /\ \A c \in DOMAIN blocks : c # b => blocks'[c] = blocks[c]
  BY <1>1, <1>2, <1>5, <1>7, Replaced
<1>9. Typed'
  BY <1>4, <1>8 DEF CInv, IInv, Typed, WordSet
<1>10. Opened' /\ Counted' /\ AllClosed'
  BY <1>4, <1>8 DEF CInv, IInv, Opened, Counted, AllClosed
<1>11. GoesOn'
  BY <1>1, <1>4, <1>7, <1>8 DEF GoesOn, Top, b
<1>12. \A c \in DOMAIN blocks' : Propers(blocks'[c], c, Len(blocks'))
  BY <1>7, <1>8, ProperNow DEF CInv, IInv
<1>13. HasWords'
  BY <1>12 DEF HasWords, Propers, Proper
<1> QED
  BY <1>9, <1>10, <1>11, <1>13 DEF CInv, IInv

\* A block is hung on the last statement, which is there.
LEMMA StartBlockKeeps == ASSUME CInv, StartBlock, stack # <<>> PROVE CInv'
<1> DEFINE b == stack[Len(stack)]
           n == Len(blocks)
           new == WithChild(blocks[b], n + 1)
           mid == [blocks EXCEPT ![b] = new]
<1>1. stack \in Seq(Nat) /\ blocks \in Seq(Seq(StatementSet)) /\ depth \in Int
  BY DEF CInv, IInv, Typed
<1>2. b \in DOMAIN blocks /\ b \in Nat
  BY <1>1, LastOne DEF CInv, IInv, Opened
<1>3. b <= n /\ n \in Nat /\ blocks[b] \in Seq(StatementSet)
  BY <1>1, <1>2
<1>4. /\ UNCHANGED <<text, pos, status>> /\ value' = <<>> /\ status = "reading" /\ last' = "{"
      /\ stack' = Append(stack, n + 1) /\ blocks[b] # <<>>
  BY DEF StartBlock, NextToken, Handle, Top
<1>4a. depth' = depth + 1
  BY DEF StartBlock
<1>5. blocks' = Append(mid, <<>>)
  BY DEF StartBlock, Top
<1>6. Propers(blocks[b], b, n)
  BY <1>2, ProperNow DEF CInv, IInv
<1>7. new \in Seq(StatementSet) /\ Propers(new, b, n + 1)
  BY <1>2, <1>3, <1>4, <1>6, WithChildKeeps
<1>8. \A c \in DOMAIN blocks : Propers(blocks[c], c, n + 1)
  <2> SUFFICES ASSUME NEW c \in DOMAIN blocks, NEW i \in DOMAIN blocks[c]
               PROVE  Proper(blocks[c][i], c, n + 1)
    BY DEF Propers
  <2>1. Proper(blocks[c][i], c, n)
    BY ProperNow DEF CInv, IInv, Propers
  <2>2. c \in Nat
    BY <1>1
  <2> QED
    BY <1>3, <2>1, <2>2 DEF Proper
<1> HIDE DEF new
<1>9. /\ mid \in Seq(Seq(StatementSet)) /\ Len(mid) = n /\ DOMAIN mid = DOMAIN blocks
      /\ mid[b] = new /\ \A c \in DOMAIN blocks : c # b => mid[c] = blocks[c]
  BY <1>1, <1>2, <1>7, Replaced
<1> HIDE DEF mid
<1>10. <<>> \in Seq(StatementSet)
  OBVIOUS
<1>11. /\ blocks' \in Seq(Seq(StatementSet)) /\ Len(blocks') = n + 1
       /\ DOMAIN blocks' = DOMAIN blocks \cup {n + 1}
       /\ blocks'[n + 1] = <<>> /\ \A c \in DOMAIN blocks : blocks'[c] = mid[c]
  BY <1>5, <1>9, <1>10, Appended
<1>12. /\ stack' \in Seq(Nat) /\ Len(stack') = Len(stack) + 1
       /\ DOMAIN stack' = DOMAIN stack \cup {Len(stack) + 1}
       /\ stack' # <<>> /\ stack'[Len(stack) + 1] = n + 1 /\ \A k \in DOMAIN stack : stack'[k] = stack[k]
  <2> DEFINE child == n + 1
  <2>1. child \in Nat
    BY <1>3
  <2>2. stack' = Append(stack, child)
    BY <1>4
  <2> HIDE DEF child, n
  <2>3. /\ stack' \in Seq(Nat) /\ Len(stack') = Len(stack) + 1
        /\ DOMAIN stack' = DOMAIN stack \cup {Len(stack) + 1}
        /\ stack' # <<>> /\ stack'[Len(stack) + 1] = child
        /\ \A k \in DOMAIN stack : stack'[k] = stack[k]
    BY <1>1, <2>1, <2>2, Appended
  <2> QED
    BY <2>3 DEF child
<1> HIDE DEF n, b
<1>13. Typed'
  <2>1. text' \in Seq(STRING) /\ pos' \in Nat /\ value' \in WordSet
    BY <1>4, EmptyWord DEF CInv, IInv, Typed
  <2>2. depth' \in Int
    BY <1>1, <1>4a
  <2> QED
    BY <1>11, <1>12, <2>1, <2>2 DEF Typed
<1>14. Opened'
  <2> SUFFICES ASSUME NEW k \in DOMAIN stack' PROVE stack'[k] \in DOMAIN blocks'
    BY DEF Opened
  <2>1. CASE k = Len(stack) + 1
    BY <1>11, <1>12, <2>1
  <2>2. CASE k \in DOMAIN stack
    BY <1>11, <1>12, <2>2 DEF CInv, IInv, Opened
  <2> QED
    BY <1>12, <2>1, <2>2
<1>15. Counted'
  <2>1. Len(stack) = depth + 1 /\ stack[1] = 1
    BY DEF CInv, IInv, Counted
  <2>2. 1 \in DOMAIN stack
    BY <1>1
  <2>3. stack'[1] = 1
    BY <1>12, <2>1, <2>2
  <2> QED
    BY <1>1, <1>12, <1>4a, <2>1, <2>3 DEF Counted
<1>16. GoesOn' /\ AllClosed'
  BY <1>4, <1>12 DEF GoesOn, AllClosed, MayBegin
<1>17. \A c \in DOMAIN blocks' : Propers(blocks'[c], c, Len(blocks'))
  <2> SUFFICES ASSUME NEW c \in DOMAIN blocks' PROVE Propers(blocks'[c], c, n + 1)
    BY <1>11
  <2>1. CASE c = n + 1
    BY <1>11, <2>1 DEF Propers
  <2>2. CASE c # n + 1
    BY <1>7, <1>8, <1>9, <1>11, <2>2
  <2> QED
    BY <2>1, <2>2
<1>18. HasWords'
  BY <1>17 DEF HasWords, Propers, Proper
<1> QED
  BY <1>13, <1>14, <1>15, <1>16, <1>18 DEF CInv, IInv

LEMMA EndBlockKeeps == ASSUME CInv, EndBlock PROVE CInv'
<1>1. stack \in Seq(Nat) /\ stack # <<>> /\ depth \in Int
  BY DEF CInv, IInv, Typed, EndBlock
<1>1a. depth' = depth - 1
  BY DEF EndBlock
<1>2. /\ stack' = Pop(stack) /\ last' = "}"
      /\ UNCHANGED <<text, pos, status, blocks>> /\ value' = <<>> /\ status = "reading"
  BY DEF EndBlock, NextToken, Handle
<1>3. /\ stack' \in Seq(Nat) /\ Len(stack') = Len(stack) - 1
      /\ \A k \in DOMAIN stack' : k \in DOMAIN stack /\ stack'[k] = stack[k]
      /\ stack' # <<>> => 1 \in DOMAIN stack'
  BY <1>1, <1>2, Popped
<1>4. Typed'
  <2>1. text' \in Seq(STRING) /\ pos' \in Nat /\ value' \in WordSet
    BY <1>2, EmptyWord DEF CInv, IInv, Typed
  <2>2. depth' \in Int
    BY <1>1, <1>1a
  <2>3. blocks' \in Seq(Seq(StatementSet))
    BY <1>2 DEF CInv, IInv, Typed
  <2> QED
    BY <1>3, <2>1, <2>2, <2>3 DEF Typed
<1>5. Opened'
  BY <1>2, <1>3 DEF CInv, IInv, Opened
<1>5a. HasWords' /\ GoesOn' /\ AllClosed'
  BY <1>2 DEF CInv, IInv, HasWords, GoesOn, AllClosed, MayBegin
<1>6. Counted'
  <2>1. Len(stack) = depth + 1 /\ stack[1] = 1
    BY <1>1 DEF CInv, IInv, Counted
  <2>2. Len(stack') = depth' + 1
    BY <1>1, <1>3, <1>1a, <2>1
  <2>3. ASSUME stack' # <<>> PROVE stack'[1] = 1
    BY <1>3, <2>1, <2>3
  <2> QED
    BY <2>2, <2>3 DEF Counted
<1> QED
  BY <1>4, <1>5, <1>6, <1>5a DEF CInv, IInv

\* What ends the reading, and what only marks a token.
LEMMA OtherKeeps ==
  ASSUME CInv, \/ SkipComment \/ EndStatement \/ Accept \/ Reject \/ Derail
               \/ Refuse \/ Start \/ UNCHANGED vars
  PROVE  CInv'
<1>1. CASE SkipComment
  BY <1>1 DEF SkipComment, NextToken, parser, CInv, IInv, Typed, Opened, GoesOn, Counted,
     HasWords, Top, WordSet, AllClosed
<1>2. CASE EndStatement
  <2>1. /\ UNCHANGED <<text, pos, depth, blocks, stack, status>>
        /\ value' = <<>> /\ last' = ";" /\ status = "reading"
    BY <1>2 DEF EndStatement, NextToken, Handle
  <2> QED
    BY <2>1, EmptyWord DEF CInv, IInv, Typed, Opened, GoesOn, Counted, HasWords, AllClosed,
       MayBegin
<1>3. CASE Accept
  <2>1. depth = 0 /\ stack \in Seq(Nat)
    BY <1>3 DEF Accept, Complete, CInv, IInv, Typed
  <2>2. Len(stack) = 1
    BY <2>1 DEF CInv, IInv, Counted
  <2>3. stack[1] = 1
    BY <2>1, <2>2 DEF CInv, IInv, Counted
  <2>4. stack = <<1>>
    BY <2>1, <2>2, <2>3
  <2> QED
    BY <1>3, <2>4 DEF Accept, Stop, lexer, CInv, IInv, Typed, Opened, GoesOn, Counted,
       HasWords, Top, WordSet, AllClosed
<1>4. CASE Reject \/ Derail
  BY <1>4 DEF Reject, Derail, Stop, lexer, CInv, IInv, Typed, Opened, GoesOn, Counted,
     HasWords, Top, WordSet, AllClosed
<1>5. CASE Refuse \/ Start \/ UNCHANGED vars
  BY <1>5 DEF Refuse, Start, vars, lexer, parser, CInv, IInv, Typed, Opened, GoesOn, Counted,
     HasWords, Top, WordSet, AllClosed
<1> QED
  BY <1>1, <1>2, <1>3, <1>4, <1>5

LEMMA NextKeeps == CInv /\ [Next]_vars => CInv'
<1> SUFFICES ASSUME CInv, [Next]_vars PROVE CInv'
  OBVIOUS
<1>1. StartBlock => stack # <<>>
  BY DEF StartBlock, MayBegin, Handle, CInv, IInv, GoesOn
<1> QED
  BY <1>1, ParseTokenKeeps, WordKeeps, StartBlockKeeps, EndBlockKeeps, OtherKeeps
  DEF Next, Parse

\* tokens_[0] and child_block_ are there whenever a query reads them.
THEOREM StatementsHaveWords == Spec => []HasWords
<1>1. CInv => HasWords
  BY DEF CInv, IInv
<1> QED
  BY <1>1, InitIInv, NextKeeps, PTL DEF Spec

\* The counter of braces is enough: whatever is accepted, the stack is back to
\* the caller's configuration.
THEOREM AcceptedIsClosed == Spec => []AllClosed
<1>1. CInv => AllClosed
  BY DEF CInv
<1> QED
  BY <1>1, InitIInv, NextKeeps, PTL DEF Spec

----------------------------------------------------------------------------
(* Tokens(text), by the recursion it is defined with.                      *)

Types == Marks \cup {"word", "error"}
Token == [type : Types, word : WordSet]

LEMMA FirstOfIs ==
  ASSUME NEW w \in WordSet, NEW S, NEW i \in 1 .. Len(w) + 1
  PROVE  LET j == FirstOf(w, S, i)
         IN  j \in i .. Len(w) + 1 /\ (j > Len(w) \/ w[j] \in S) /\ \A k \in i .. j - 1 : w[k] \notin S
<1> DEFINE T == {j \in i .. Len(w) + 1 : j > Len(w) \/ w[j] \in S}
<1>0. Len(w) \in Nat
  BY DEF WordSet
<1>1. T \subseteq Nat /\ Len(w) + 1 \in T
  BY <1>0
<1>2. PICK j \in T : \A k \in T : j <= k
  BY <1>1, LeastNumber
<1>3. \A k \in i .. j - 1 : w[k] \notin S
  BY <1>0, <1>2
<1>4. \E j1 \in i .. Len(w) + 1 :
        (j1 > Len(w) \/ w[j1] \in S) /\ \A k \in i .. j1 - 1 : w[k] \notin S
  BY <1>2, <1>3
<1> QED
  BY <1>4 DEF FirstOf

LEMMA FirstOfFound ==
  ASSUME NEW w \in WordSet, NEW S, NEW i \in 1 .. Len(w) + 1, NEW j \in i .. Len(w) + 1,
         j > Len(w) \/ w[j] \in S, \A k \in i .. j - 1 : w[k] \notin S
  PROVE  FirstOf(w, S, i) = j
<1> DEFINE f == FirstOf(w, S, i)
<1>0. Len(w) \in Nat
  BY DEF WordSet
<1>1. f \in i .. Len(w) + 1 /\ (f > Len(w) \/ w[f] \in S) /\ \A k \in i .. f - 1 : w[k] \notin S
  BY FirstOfIs
<1> HIDE DEF f
<1>2. ~(f < j)
  <2> SUFFICES ASSUME f < j PROVE FALSE
    OBVIOUS
  <2>1. f \in i .. j - 1 /\ f <= Len(w)
    BY <1>0, <1>1
  <2> QED
    BY <1>0, <1>1, <2>1
<1>3. ~(j < f)
  <2> SUFFICES ASSUME j < f PROVE FALSE
    OBVIOUS
  <2>1. j \in i .. f - 1 /\ j <= Len(w)
    BY <1>0, <1>1
  <2> QED
    BY <1>0, <1>1, <2>1
<1>4. f = j
  BY <1>0, <1>1, <1>2, <1>3
<1> QED
  BY <1>4 DEF f

\* The cases of Cut, one at a time.
LEMMA CutSpace ==
  ASSUME NEW w, NEW i, w[i] \in Space
  PROVE  Cut(w, i) = [tokens |-> <<>>, next |-> i + 1]
BY DEF Cut, Space, Marks, Quotes

LEMMA CutMark ==
  ASSUME NEW w, NEW i, w[i] \in Marks
  PROVE  Cut(w, i) = [tokens |-> <<MarkToken(w[i])>>, next |-> i + 1]
BY DEF Cut, Space, Marks, Quotes

LEMMA CutComment ==
  ASSUME NEW w, NEW i, w[i] = "#"
  PROVE  LET line == FirstOf(w, {"LF", "CR"}, i)
         IN  Cut(w, i) = [tokens |-> <<>>, next |-> IF line > Len(w) THEN Len(w) + 1 ELSE line + 1]
BY DEF Cut, Space, Marks, Quotes

LEMMA CutQuote ==
  ASSUME NEW w, NEW i, w[i] \in Quotes
  PROVE  LET closing == FirstOf(w, {w[i]}, i + 1)
         IN  Cut(w, i) = IF closing < Len(w) /\ w[closing + 1] \in AfterQuote
                         THEN [tokens |-> <<WordToken(SubSeq(w, i, closing))>>, next |-> closing + 1]
                         ELSE [tokens |-> <<MarkToken("error")>>, next |-> Len(w) + 1]
BY DEF Cut, Space, Marks, Quotes, AfterQuote

Plain(c) == c \notin Space \cup Marks \cup Quotes \cup {"#"}

LEMMA CutWord ==
  ASSUME NEW w, NEW i, Plain(w[i])
  PROVE  LET end == FirstOf(w, WordEnds, i)
         IN  Cut(w, i) = IF end > Len(w) THEN [tokens |-> <<>>, next |-> Len(w) + 1]
                         ELSE [tokens |-> <<WordToken(SubSeq(w, i, end - 1))>>, next |-> end]
BY DEF Cut, Plain, WordEnds

LEMMA Part ==
  ASSUME NEW S, NEW w \in Seq(S), NEW a \in Nat \ {0}, NEW b \in Nat, b <= Len(w)
  PROVE  SubSeq(w, a, b) \in Seq(S)
OBVIOUS

LEMMA TokensTyped ==
  /\ \A c \in Marks \cup {"error"} : MarkToken(c) \in Token
  /\ \A v \in WordSet : WordToken(v) \in Token
<1>1. <<>> \in WordSet
  BY EmptyWord
<1> QED
  BY <1>1 DEF Types, MarkToken, WordToken, Token

LEMMA CutIs ==
  ASSUME NEW w \in WordSet, NEW i \in 1 .. Len(w)
  PROVE  Cut(w, i).next \in i + 1 .. Len(w) + 1 /\ Cut(w, i).tokens \in Seq(Token)
<1>0. Len(w) \in Nat /\ w[i] \in STRING /\ i \in 1 .. Len(w) + 1 /\ i + 1 \in 1 .. Len(w) + 1
  BY DEF WordSet
<1>0a. <<>> \in Seq(Token)
  OBVIOUS
<1>1. CASE w[i] \in Space
  <2>1. Cut(w, i).tokens = <<>> /\ Cut(w, i).next = i + 1
    BY <1>1, CutSpace
  <2> QED
    BY <1>0, <1>0a, <2>1
<1>2. CASE w[i] \in Marks
  <2>1. MarkToken(w[i]) \in Token
    BY <1>2, TokensTyped
  <2> QED
    BY <1>0, <1>2, <2>1, CutMark
<1>3. CASE w[i] = "#"
  <2> DEFINE line == FirstOf(w, {"LF", "CR"}, i)
  <2>1. line \in i .. Len(w) + 1
    BY <1>0, FirstOfIs
  <2>2. Cut(w, i) = [tokens |-> <<>>, next |-> IF line > Len(w) THEN Len(w) + 1 ELSE line + 1]
    BY <1>3, CutComment
  <2> HIDE DEF line
  <2> QED
    BY <1>0, <1>0a, <2>1, <2>2
<1>4. CASE w[i] \in Quotes
  <2> DEFINE closing == FirstOf(w, {w[i]}, i + 1)
  <2>1. closing \in i + 1 .. Len(w) + 1
    BY <1>0, FirstOfIs
  <2>2. Cut(w, i) = IF closing < Len(w) /\ w[closing + 1] \in AfterQuote
                    THEN [tokens |-> <<WordToken(SubSeq(w, i, closing))>>, next |-> closing + 1]
                    ELSE [tokens |-> <<MarkToken("error")>>, next |-> Len(w) + 1]
    BY <1>4, CutQuote
  <2> HIDE DEF closing
  <2>3. MarkToken("error") \in Token
    BY TokensTyped
  <2>4. ASSUME closing < Len(w) PROVE WordToken(SubSeq(w, i, closing)) \in Token
    <3>1. i \in Nat \ {0} /\ closing \in Nat /\ closing <= Len(w)
      BY <1>0, <2>1, <2>4
    <3>2. SubSeq(w, i, closing) \in WordSet
      BY <3>1, Part DEF WordSet
    <3> QED
      BY <3>2, TokensTyped
  <2> QED
    BY <1>0, <2>1, <2>2, <2>3, <2>4
<1>5. CASE Plain(w[i])
  <2> DEFINE end == FirstOf(w, WordEnds, i)
  <2>1. end \in i .. Len(w) + 1 /\ (end > Len(w) \/ w[end] \in WordEnds)
    BY <1>0, FirstOfIs
  <2>2. Cut(w, i) = IF end > Len(w) THEN [tokens |-> <<>>, next |-> Len(w) + 1]
                    ELSE [tokens |-> <<WordToken(SubSeq(w, i, end - 1))>>, next |-> end]
    BY <1>5, CutWord
  <2> HIDE DEF end
  <2>3. end # i
    BY <1>0, <1>5, <2>1 DEF Plain, WordEnds, Space
  <2>4. ASSUME end <= Len(w) PROVE WordToken(SubSeq(w, i, end - 1)) \in Token
    <3>1. i \in Nat \ {0} /\ end - 1 \in Nat /\ end - 1 <= Len(w)
      BY <1>0, <2>1, <2>4
    <3>2. SubSeq(w, i, end - 1) \in WordSet
      BY <3>1, Part DEF WordSet
    <3> QED
      BY <3>2, TokensTyped
  <2> QED
    BY <1>0, <1>0a, <2>1, <2>2, <2>3, <2>4
<1> QED
  BY <1>1, <1>2, <1>3, <1>4, <1>5 DEF Plain

Recurs(w, f, a) ==
  f = [i \in a .. Len(w) + 1 |->
         IF i > Len(w) THEN <<>> ELSE Cut(w, i).tokens \o f[Cut(w, i).next]]

LEMMA RecursExists ==
  ASSUME NEW w \in WordSet, NEW k \in 0 .. Len(w)
  PROVE  \E f : Recurs(w, f, Len(w) + 1 - k)
<1> DEFINE n == Len(w)
           T == {m \in Nat : m <= n => \E f : Recurs(w, f, n + 1 - m)}
<1>0. n \in Nat
  BY DEF WordSet
<1>1. ASSUME NEW m \in Nat, \A l \in 0 .. m - 1 : l \in T PROVE m \in T
  <2> SUFFICES ASSUME m <= n PROVE \E f : Recurs(w, f, n + 1 - m)
    OBVIOUS
  <2>1. CASE m = 0
    <3> DEFINE f == [i \in n + 1 .. n + 1 |-> <<>>]
    <3>a. \A i \in n + 1 .. n + 1 : f[i] = <<>> /\ i > n
      BY <1>0
    <3>b. f = [i \in n + 1 .. n + 1 |-> f[i]]
      OBVIOUS
    <3> HIDE DEF f
    <3>c. \A i \in n + 1 .. n + 1 :
            f[i] = IF i > n THEN <<>> ELSE Cut(w, i).tokens \o f[Cut(w, i).next]
      BY <3>a
    <3>1. Recurs(w, f, n + 1)
      BY <3>b, <3>c DEF Recurs
    <3> QED
      BY <1>0, <2>1, <3>1
  <2>2. CASE m # 0
    <3> DEFINE a == n + 1 - m
    <3>1. PICK f : Recurs(w, f, a + 1)
      <4>1. m - 1 \in T /\ n + 1 - (m - 1) = a + 1
        BY <1>0, <1>1, <2>2
      <4> QED
        BY <1>0, <2>2, <4>1
    <3>2. a \in 1 .. n /\ Cut(w, a).next \in a + 1 .. n + 1
      BY <1>0, <2>2, CutIs
    <3> DEFINE g == [i \in a .. n + 1 |-> IF i = a THEN Cut(w, a).tokens \o f[Cut(w, a).next] ELSE f[i]]
    <3>3. \A i \in a + 1 .. n + 1 : g[i] = f[i]
      BY <1>0, <3>2
    <3>4. \A i \in a .. n + 1 :
            g[i] = IF i > n THEN <<>> ELSE Cut(w, i).tokens \o g[Cut(w, i).next]
      <4> TAKE i \in a .. n + 1
      <4>1. CASE i = a
        <5>1. g[Cut(w, a).next] = f[Cut(w, a).next]
          BY <3>2, <3>3
        <5>1a. a \in a .. n + 1 /\ ~(a > n)
          BY <1>0, <3>2
        <5>2. g[a] = Cut(w, a).tokens \o f[Cut(w, a).next]
          BY <5>1a, Zenon
        <5> HIDE DEF a, g
        <5> QED
          BY <4>1, <5>1, <5>1a, <5>2
      <4>2. CASE i # a
        <5>1. i \in a + 1 .. n + 1
          BY <1>0, <3>2, <4>2
        <5>2. f[i] = IF i > n THEN <<>> ELSE Cut(w, i).tokens \o f[Cut(w, i).next]
          BY <3>1, <5>1 DEF Recurs
        <5>3. i <= n => Cut(w, i).next \in a + 1 .. n + 1
          <6> SUFFICES ASSUME i <= n PROVE Cut(w, i).next \in a + 1 .. n + 1
            OBVIOUS
          <6>1. i \in 1 .. n
            BY <1>0, <3>2, <5>1
          <6>2. Cut(w, i).next \in i + 1 .. n + 1
            BY <6>1, CutIs
          <6> QED
            BY <1>0, <3>2, <5>1, <6>2
        <5> QED
          BY <1>0, <3>2, <3>3, <5>1, <5>2, <5>3
      <4> QED
        BY <4>1, <4>2
    <3>5. g = [i \in a .. n + 1 |-> g[i]]
      OBVIOUS
    <3> HIDE DEF g
    <3>6. Recurs(w, g, a)
      BY <3>4, <3>5 DEF Recurs
    <3> QED
      BY <3>6
  <2> QED
    BY <2>1, <2>2
<1> HIDE DEF T
<1>2. Nat \subseteq T
  BY <1>1, Induction
<1> QED
  BY <1>0, <1>2 DEF T

LEMMA CutsDef ==
  ASSUME NEW w \in WordSet
  PROVE  \A i \in 1 .. Len(w) + 1 :
           Cuts(w)[i] = IF i > Len(w) THEN <<>> ELSE Cut(w, i).tokens \o Cuts(w)[Cut(w, i).next]
<1>1. Cuts(w) = CHOOSE f : Recurs(w, f, 1)
  BY DEF Cuts, Recurs
<1>2. Len(w) \in 0 .. Len(w) /\ Len(w) + 1 - Len(w) = 1
  BY DEF WordSet
<1>3. \E f : Recurs(w, f, 1)
  BY <1>2, RecursExists
<1>4. Recurs(w, Cuts(w), 1)
  BY <1>1, <1>3
<1> DEFINE c == Cuts(w)
<1>5. Recurs(w, c, 1)
  BY <1>4
<1> HIDE DEF c
<1>6. \A i \in 1 .. Len(w) + 1 : c[i] = IF i > Len(w) THEN <<>> ELSE Cut(w, i).tokens \o c[Cut(w, i).next]
  BY <1>5 DEF Recurs
<1> QED
  BY <1>6 DEF c

LEMMA CutsTyped ==
  ASSUME NEW w \in WordSet
  PROVE  \A i \in 1 .. Len(w) + 1 : Cuts(w)[i] \in Seq(Token)
<1> DEFINE n == Len(w)
           c == Cuts(w)
           T == {m \in Nat : m <= n => c[n + 1 - m] \in Seq(Token)}
<1>0. n \in Nat
  BY DEF WordSet
<1>1. \A i \in 1 .. n + 1 : c[i] = IF i > n THEN <<>> ELSE Cut(w, i).tokens \o c[Cut(w, i).next]
  BY CutsDef
<1> HIDE DEF c
<1>2. ASSUME NEW m \in Nat, \A l \in 0 .. m - 1 : l \in T PROVE m \in T
  <2> SUFFICES ASSUME m <= n PROVE c[n + 1 - m] \in Seq(Token)
    OBVIOUS
  <2>1. CASE m = 0
    <3>1. n + 1 \in 1 .. n + 1 /\ n + 1 > n /\ n + 1 - m = n + 1
      BY <1>0, <2>1
    <3>2. c[n + 1 - m] = <<>>
      BY <1>1, <3>1
    <3> QED
      BY <3>2
  <2>2. CASE m # 0
    <3> DEFINE i == n + 1 - m
               j == Cut(w, i).next
    <3>1. i \in 1 .. n
      BY <1>0, <2>2
    <3>2. j \in i + 1 .. n + 1 /\ Cut(w, i).tokens \in Seq(Token)
      BY <3>1, CutIs
    <3>3. c[i] = Cut(w, i).tokens \o c[j]
      <4>1. i \in 1 .. n + 1 /\ ~(i > n)
        BY <1>0, <3>1
      <4> HIDE DEF i
      <4> QED
        BY <1>1, <4>1
    <3> HIDE DEF j
    <3>4. n + 1 - j \in 0 .. m - 1 /\ n + 1 - (n + 1 - j) = j /\ n + 1 - j <= n
      BY <1>0, <3>1, <3>2
    <3>5. c[j] \in Seq(Token)
      BY <1>2, <3>4
    <3> QED
      BY <3>2, <3>3, <3>5
  <2> QED
    BY <2>1, <2>2
<1> HIDE DEF T
<1>3. Nat \subseteq T
  BY <1>2, Induction
<1>4. ASSUME NEW i \in 1 .. n + 1 PROVE c[i] \in Seq(Token)
  <2>1. n + 1 - i \in T /\ n + 1 - i <= n /\ n + 1 - (n + 1 - i) = i
    BY <1>0, <1>3
  <2> QED
    BY <2>1 DEF T
<1> QED
  BY <1>4 DEF c

----------------------------------------------------------------------------
(* ParseToken hands Parse those tokens.                                    *)

TokenTypes == Types \cup {"none", "comment", "eof"}

\* Where the token being read began.
From == pos + 1 - Len(value)

\* Of a token being read: what it began with, and that nothing ended it yet.
Partly ==
  /\ From \in 1 .. pos /\ value = SubSeq(text, From, pos)
  /\ mode = "word" => Plain(text[From]) /\ \A k \in From .. pos : text[k] \notin WordEnds
  /\ mode = "#" => text[From] = "#" /\ \A k \in From .. pos : text[k] \notin {"LF", "CR"}
  /\ mode \in Quotes => text[From] = mode /\ \A k \in From + 1 .. pos : text[k] \notin {mode}

Lexed ==
  /\ text \in WordSet /\ pos \in 0 .. Len(text) /\ token \in TokenTypes
  /\ mode \in {"initial", "word", "#"} \cup Quotes
  /\ mode = "initial" => value = <<>>
  /\ token = "word" => value \in WordSet
  /\ token = "none" /\ mode # "initial" => Partly

\* What Parse has not been handed yet: the token just read, and all behind it.
Pending ==
  IF token = "word" THEN <<WordToken(value)>>
  ELSE IF token \in Types THEN <<MarkToken(token)>> ELSE <<>>
Behind == IF token \in {"error", "eof"} THEN <<>> ELSE Cuts(text)[pos + 1]
Left == IF token = "none" THEN Cuts(text)[From] ELSE Pending \o Behind

LEMMA OneMore ==
  ASSUME NEW w \in WordSet, NEW p \in Nat, p < Len(w), NEW i \in 1 .. p + 1
  PROVE  /\ SubSeq(w, i, p + 1) = Append(SubSeq(w, i, p), w[p + 1])
         /\ Len(SubSeq(w, i, p)) = p + 1 - i /\ Len(SubSeq(w, i, p + 1)) = p + 2 - i
         /\ SubSeq(w, i, p) \in WordSet
BY DEF WordSet

\* Left, by the recursion.
LEMMA LeftIs ==
  ASSUME NEW w \in WordSet, NEW i \in 1 .. Len(w)
  PROVE  Cuts(w)[i] = Cut(w, i).tokens \o Cuts(w)[Cut(w, i).next]
<1>1. ~(i > Len(w)) /\ i \in 1 .. Len(w) + 1
  BY DEF WordSet
<1> QED
  BY <1>1, CutsDef

LEMMA LeftEnd ==
  ASSUME NEW w \in WordSet
  PROVE  Cuts(w)[Len(w) + 1] = <<>>
<1>1. Len(w) + 1 > Len(w) /\ Len(w) + 1 \in 1 .. Len(w) + 1
  BY DEF WordSet
<1> QED
  BY <1>1, CutsDef

LEMMA SkipLeft == ASSUME Lexed, Skip PROVE Lexed' /\ Left' = Left
<1>1. /\ text \in Seq(STRING) /\ pos \in Nat /\ pos < Len(text) /\ value = <<>> /\ token = "none"
      /\ text' = text /\ pos' = pos + 1 /\ mode' = mode /\ value' = value /\ token' = token
      /\ mode = "initial" /\ text[pos + 1] \in Space /\ Len(text) \in Nat
  BY DEF Lexed, Skip, Reading, More, Next1, WordSet
<1>2. Lexed'
  BY <1>1 DEF Lexed
<1>3. Cut(text, pos + 1).tokens = <<>> /\ Cut(text, pos + 1).next = pos + 2
  BY <1>1, CutSpace
<1>4. pos + 1 \in 1 .. Len(text) /\ pos + 2 \in 1 .. Len(text) + 1
  BY <1>1
<1>5. Cuts(text)[pos + 1] = <<>> \o Cuts(text)[pos + 2]
  BY <1>3, <1>4, LeftIs DEF Lexed
<1>6. Cuts(text)[pos + 2] \in Seq(Token)
  BY <1>4, CutsTyped DEF Lexed
<1>7. Cuts(text)[pos + 1] = Cuts(text)[pos + 2]
  BY <1>5, <1>6
<1>8. From = pos + 1 /\ From' = pos + 2
  BY <1>1 DEF From
<1> QED
  BY <1>1, <1>2, <1>7, <1>8 DEF Left

LEMMA MarkLeft == ASSUME Lexed, Mark PROVE Lexed' /\ Left' = Left
<1>1. /\ text \in Seq(STRING) /\ pos \in Nat /\ pos < Len(text) /\ value = <<>> /\ token = "none"
      /\ text' = text /\ pos' = pos + 1 /\ mode' = mode /\ value' = value /\ token' = text[pos + 1]
      /\ mode = "initial" /\ text[pos + 1] \in Marks /\ Len(text) \in Nat
  BY DEF Lexed, Mark, Reading, More, Next1, WordSet
<1>2. Lexed'
  <2>1. token' \in TokenTypes /\ token' # "word" /\ token' # "none"
    BY <1>1 DEF TokenTypes, Types, Marks
  <2> QED
    BY <1>1, <2>1 DEF Lexed
<1>3. Cut(text, pos + 1).tokens = <<MarkToken(text[pos + 1])>> /\ Cut(text, pos + 1).next = pos + 2
  BY <1>1, CutMark
<1>4. pos + 1 \in 1 .. Len(text)
  BY <1>1
<1>5. Cuts(text)[pos + 1] = <<MarkToken(text[pos + 1])>> \o Cuts(text)[pos + 2]
  BY <1>3, <1>4, LeftIs DEF Lexed
<1>6. From = pos + 1 /\ pos' + 1 = pos + 2
  BY <1>1 DEF From
<1>7. Left = Cuts(text)[pos + 1]
  BY <1>1, <1>6 DEF Left
<1>8. token' \in Types /\ token' \notin {"word", "none", "error", "eof"}
  BY <1>1 DEF Types, Marks
<1>9. Left' = <<MarkToken(token')>> \o Cuts(text')[pos' + 1]
  BY <1>8 DEF Left, Pending, Behind
<1> QED
  BY <1>1, <1>2, <1>5, <1>6, <1>7, <1>9

LEMMA BeginLeft == ASSUME Lexed, Begin PROVE Lexed' /\ Left' = Left
<1>1. /\ text \in Seq(STRING) /\ pos \in Nat /\ pos < Len(text) /\ value = <<>> /\ token = "none"
      /\ text' = text /\ pos' = pos + 1 /\ value' = <<text[pos + 1]>> /\ token' = token
      /\ mode' = IF text[pos + 1] \in Quotes \cup {"#"} THEN text[pos + 1] ELSE "word"
      /\ mode = "initial" /\ text[pos + 1] \notin Space \cup Marks /\ Len(text) \in Nat
  BY DEF Lexed, Begin, Reading, More, Next1, WordSet
<1>2. From = pos + 1 /\ From' = pos + 1
  BY <1>1 DEF From
<1>3. SubSeq(text, pos + 1, pos + 1) = <<text[pos + 1]>>
  <2> DEFINE v == SubSeq(text, pos + 1, pos + 1)
  <2>1. v \in Seq(STRING) /\ Len(v) = 1 /\ v[1] = text[pos + 1]
    BY <1>1
  <2> HIDE DEF v
  <2>2. v = <<text[pos + 1]>>
    BY <2>1
  <2> QED
    BY <2>2 DEF v
<1>4. Partly'
  <2> DEFINE c == text[pos + 1]
  <2>1. /\ mode' = "word" => Plain(c)
        /\ mode' = "#" => c = "#"
        /\ mode' \in Quotes => c = mode'
    BY <1>1 DEF Plain, Quotes
  <2>2. c \notin WordEnds /\ c \notin {"LF", "CR"}
    BY <1>1 DEF WordEnds, Space, Marks
  <2>3. \A k \in From' .. pos' : k = pos + 1
    BY <1>1, <1>2
  <2>4. From' + 1 .. pos' = {}
    BY <1>1, <1>2
  <2>5. text'[From'] = c /\ \A k \in From' .. pos' : text'[k] = c
    BY <1>1, <1>2, <2>3
  <2>6. From' \in 1 .. pos' /\ value' = SubSeq(text', From', pos')
    BY <1>1, <1>2, <1>3
  <2> HIDE DEF c
  <2> QED
    BY <2>1, <2>2, <2>4, <2>5, <2>6 DEF Partly
<1>5. Lexed'
  <2>1. mode' \in {"initial", "word", "#"} \cup Quotes /\ mode' # "initial"
    BY <1>1 DEF Quotes
  <2> QED
    BY <1>1, <1>4, <2>1 DEF Lexed
<1> QED
  BY <1>1, <1>2, <1>5 DEF Left

LEMMA ContinueLeft == ASSUME Lexed, Continue PROVE Lexed' /\ Left' = Left
<1>1. /\ text \in Seq(STRING) /\ pos \in Nat /\ pos < Len(text) /\ token = "none"
      /\ text' = text /\ pos' = pos + 1 /\ value' = Append(value, text[pos + 1])
      /\ token' = token /\ mode' = mode /\ Len(text) \in Nat
  BY DEF Lexed, Continue, Reading, More, Next1, WordSet
<1>2. /\ mode # "initial"
      /\ mode = "word" => text[pos + 1] \notin WordEnds
      /\ mode = "#" => text[pos + 1] \notin {"LF", "CR"}
      /\ mode \in Quotes => text[pos + 1] # mode
  BY DEF Lexed, Continue, Continues, Next1, Quotes
<1>3. Partly
  BY <1>1, <1>2 DEF Lexed
<1>4. From \in 1 .. pos /\ value = SubSeq(text, From, pos)
  BY <1>3 DEF Partly
<1>5. value' = SubSeq(text, From, pos + 1) /\ Len(value) = pos + 1 - From /\ Len(value') = pos + 2 - From
  BY <1>1, <1>4, OneMore DEF WordSet
<1>6. From' = From
  <2>1. From' = pos' + 1 - Len(value')
    BY DEF From
  <2> QED
    BY <1>1, <1>4, <1>5, <2>1
<1>7. Partly'
  <2>1. \A k \in From .. pos + 1 : k \in From .. pos \/ k = pos + 1
    BY <1>1, <1>4
  <2>2. \A k \in From + 1 .. pos + 1 : k \in From + 1 .. pos \/ k = pos + 1
    BY <1>1, <1>4
  <2>3. From' \in 1 .. pos' /\ value' = SubSeq(text', From', pos')
    BY <1>1, <1>4, <1>5, <1>6
  <2>4. mode = "word" => Plain(text[From]) /\ \A k \in From .. pos + 1 : text[k] \notin WordEnds
    BY <1>2, <1>3, <2>1 DEF Partly
  <2>5. mode = "#" => text[From] = "#" /\ \A k \in From .. pos + 1 : text[k] \notin {"LF", "CR"}
    BY <1>2, <1>3, <2>1 DEF Partly
  <2>6. mode \in Quotes => text[From] = mode /\ \A k \in From + 1 .. pos + 1 : text[k] \notin {mode}
    BY <1>2, <1>3, <2>2 DEF Partly
  <2> QED
    BY <1>1, <1>6, <2>3, <2>4, <2>5, <2>6 DEF Partly
<1>8. Lexed'
  BY <1>1, <1>2, <1>7 DEF Lexed
<1> QED
  BY <1>1, <1>6, <1>8 DEF Left

LEMMA WordEndLeft == ASSUME Lexed, WordEnd PROVE Lexed' /\ Left' = Left
<1>1. /\ text \in WordSet /\ pos \in Nat /\ pos < Len(text) /\ token = "none" /\ mode = "word"
      /\ text' = text /\ pos' = pos /\ value' = value /\ mode' = mode /\ token' = "word"
      /\ text[pos + 1] \in WordEnds /\ Len(text) \in Nat
  BY DEF Lexed, WordEnd, Reading, More, Next1, WordSet, lexer, Continues, Quotes
<1>2. Partly
  BY <1>1 DEF Lexed
<1>3. /\ From \in 1 .. pos /\ value = SubSeq(text, From, pos) /\ Plain(text[From])
      /\ \A k \in From .. pos : text[k] \notin WordEnds
  BY <1>1, <1>2 DEF Partly
<1>3a. /\ From \in 1 .. Len(text) + 1 /\ From \in 1 .. Len(text) /\ From \in 1 .. pos + 1
       /\ pos + 1 \in From .. Len(text) + 1 /\ pos + 1 - 1 = pos /\ ~(pos + 1 > Len(text))
  BY <1>1, <1>3
<1>4. FirstOf(text, WordEnds, From) = pos + 1
  BY <1>1, <1>3, <1>3a, FirstOfFound
<1>5. Cut(text, From) = [tokens |-> <<WordToken(value)>>, next |-> pos + 1]
  <2> DEFINE end == pos + 1
  <2> HIDE DEF end
  <2>2. FirstOf(text, WordEnds, From) = end
    BY <1>4 DEF end
  <2>2a. ~(end > Len(text))
    BY <1>3a DEF end
  <2>1. end - 1 = pos
    BY <1>1 DEF end
  <2>2b. value = SubSeq(text, From, end - 1)
    BY <1>3, <2>1
  <2>3. Cut(text, From) = [tokens |-> <<WordToken(value)>>, next |-> end]
    BY <1>3, <2>2, <2>2a, <2>2b, CutWord
  <2> QED
    BY <2>3 DEF end
<1>6. Cuts(text)[From] = <<WordToken(value)>> \o Cuts(text)[pos + 1]
  <2>1. Cut(text, From).tokens = <<WordToken(value)>> /\ Cut(text, From).next = pos + 1
    BY <1>5
  <2> QED
    BY <1>1, <1>3a, <2>1, LeftIs
<1>7. Lexed'
  <2>1. value \in WordSet
    BY <1>1, <1>3, <1>3a, OneMore
  <2>2. token' \in TokenTypes /\ token' # "none" /\ mode' # "initial"
    BY <1>1 DEF TokenTypes, Types
  <2> QED
    BY <1>1, <2>1, <2>2 DEF Lexed
<1>8. Left' = <<WordToken(value)>> \o Cuts(text)[pos + 1]
  <2>1. Left' = <<WordToken(value')>> \o Cuts(text')[pos' + 1]
    BY <1>1 DEF Left, Pending, Behind
  <2> QED
    BY <1>1, <2>1
<1> QED
  BY <1>1, <1>6, <1>7, <1>8 DEF Left

LEMMA CommentEndLeft == ASSUME Lexed, CommentEnd PROVE Lexed' /\ Left' = Left
<1>1. /\ text \in WordSet /\ pos \in Nat /\ pos < Len(text) /\ token = "none" /\ mode = "#"
      /\ text' = text /\ pos' = pos + 1 /\ value' = value /\ mode' = mode /\ token' = "comment"
      /\ text[pos + 1] \in {"LF", "CR"} /\ Len(text) \in Nat
  BY DEF Lexed, CommentEnd, Reading, More, Next1, WordSet, Continues, Quotes
<1>2. Partly
  BY <1>1 DEF Lexed
<1>3. From \in 1 .. pos /\ text[From] = "#" /\ \A k \in From .. pos : text[k] \notin {"LF", "CR"}
  BY <1>1, <1>2 DEF Partly
<1>3a. /\ From \in 1 .. Len(text) + 1 /\ From \in 1 .. Len(text)
       /\ pos + 1 \in From .. Len(text) + 1 /\ pos + 1 - 1 = pos /\ ~(pos + 1 > Len(text))
       /\ pos + 2 \in 1 .. Len(text) + 1 /\ pos + 1 + 1 = pos + 2
  BY <1>1, <1>3
<1>4. FirstOf(text, {"LF", "CR"}, From) = pos + 1
  BY <1>1, <1>3, <1>3a, FirstOfFound
<1>5. Cut(text, From).tokens = <<>> /\ Cut(text, From).next = pos + 2
  BY <1>3, <1>3a, <1>4, CutComment
<1>6. Cuts(text)[From] = <<>> \o Cuts(text)[pos + 2]
  BY <1>1, <1>3a, <1>5, LeftIs
<1>7. Lexed'
  <2>1. token' \in TokenTypes /\ token' # "none" /\ token' # "word" /\ mode' # "initial"
    BY <1>1 DEF TokenTypes, Types
  <2>2. mode' \in {"initial", "word", "#"} \cup Quotes /\ pos' \in 0 .. Len(text')
    BY <1>1
  <2> QED
    BY <1>1, <2>1, <2>2 DEF Lexed
<1>8. Left' = <<>> \o Cuts(text)[pos + 2]
  <2>1. token' \notin Types /\ token' \notin {"word", "none", "error", "eof"}
    BY <1>1 DEF Types, Marks
  <2>2. Left' = <<>> \o Cuts(text')[pos' + 1]
    BY <2>1 DEF Left, Pending, Behind
  <2> QED
    BY <1>1, <1>3a, <2>2
<1> QED
  BY <1>1, <1>6, <1>7, <1>8 DEF Left

LEMMA QuoteEndLeft == ASSUME Lexed, QuoteEnd PROVE Lexed' /\ Left' = Left
<1>1. /\ text \in WordSet /\ pos \in Nat /\ pos < Len(text) /\ token = "none" /\ mode \in Quotes
      /\ text' = text /\ pos' = pos + 1 /\ value' = Append(value, text[pos + 1]) /\ mode' = mode
      /\ token' = IF pos + 1 < Len(text) /\ text[pos + 2] \in AfterQuote THEN "word" ELSE "error"
      /\ text[pos + 1] = mode /\ Len(text) \in Nat
  <2>1. ASSUME mode \in Quotes PROVE Continues <=> Next1 # mode
    BY <2>1 DEF Continues, Quotes
  <2> QED
    BY <2>1 DEF Lexed, QuoteEnd, Reading, More, Next1, WordSet
<1>2. mode # "initial" /\ mode # "word" /\ mode # "#"
  BY <1>1 DEF Quotes
<1>2a. Partly
  BY <1>1, <1>2 DEF Lexed
<1>3. /\ From \in 1 .. pos /\ value = SubSeq(text, From, pos) /\ text[From] = mode
      /\ \A k \in From + 1 .. pos : text[k] \notin {mode}
  BY <1>1, <1>2a DEF Partly
<1>3a. /\ From \in 1 .. Len(text) + 1 /\ From \in 1 .. Len(text) /\ From \in 1 .. pos + 1
       /\ From + 1 \in 1 .. Len(text) + 1 /\ pos + 1 \in From + 1 .. Len(text) + 1
       /\ pos + 1 - 1 = pos /\ pos + 1 + 1 = pos + 2
  BY <1>1, <1>3
<1>4. FirstOf(text, {mode}, From + 1) = pos + 1
  BY <1>1, <1>3, <1>3a, FirstOfFound, SMTT(30)
<1>5. value' = SubSeq(text, From, pos + 1)
  BY <1>1, <1>3, <1>3a, OneMore
<1>6. text[From] \in Quotes
  BY <1>1, <1>3
<1>7. Left = Cuts(text)[From]
  BY <1>1 DEF Left
<1>8. CASE pos + 1 < Len(text) /\ text[pos + 2] \in AfterQuote
  <2>1. Cut(text, From) = [tokens |-> <<WordToken(value')>>, next |-> pos + 2]
    BY <1>3, <1>3a, <1>4, <1>5, <1>6, <1>8, CutQuote
  <2>2. Cut(text, From).tokens = <<WordToken(value')>> /\ Cut(text, From).next = pos + 2
    BY <2>1
  <2>3. Cuts(text)[From] = <<WordToken(value')>> \o Cuts(text)[pos + 2]
    BY <1>1, <1>3a, <2>2, LeftIs
  <2>4. token' = "word"
    BY <1>1, <1>8
  <2>5. Left' = <<WordToken(value')>> \o Cuts(text')[pos' + 1]
    BY <2>4 DEF Left, Pending, Behind
  <2>6. value' \in WordSet
    <3>1. pos + 1 \in Nat /\ pos + 1 < Len(text) /\ From \in 1 .. pos + 1 + 1
      BY <1>1, <1>3a, <1>8
    <3> QED
      BY <1>1, <1>5, <3>1, OneMore
  <2>7. Lexed'
    <3>1. token' \in TokenTypes /\ token' # "none" /\ mode' # "initial"
      BY <1>1, <1>2, <2>4 DEF TokenTypes, Types
    <3>2. mode' \in {"initial", "word", "#"} \cup Quotes /\ pos' \in 0 .. Len(text')
      BY <1>1
    <3> QED
      BY <1>1, <2>6, <3>1, <3>2 DEF Lexed
  <2> QED
    BY <1>1, <1>3a, <1>7, <2>3, <2>5, <2>7
<1>9. CASE ~(pos + 1 < Len(text) /\ text[pos + 2] \in AfterQuote)
  <2>1. Cut(text, From) = [tokens |-> <<MarkToken("error")>>, next |-> Len(text) + 1]
    BY <1>3, <1>3a, <1>4, <1>6, <1>9, CutQuote
  <2>2. Cut(text, From).tokens = <<MarkToken("error")>> /\ Cut(text, From).next = Len(text) + 1
    BY <2>1
  <2>3. Cuts(text)[From] = <<MarkToken("error")>> \o <<>>
    BY <1>1, <1>3a, <2>2, LeftIs, LeftEnd
  <2>4. token' = "error"
    BY <1>1, <1>9
  <2>5. Left' = <<MarkToken("error")>> \o <<>>
    BY <2>4 DEF Left, Pending, Behind, Types
  <2>6. Lexed'
    <3>1. token' \in TokenTypes /\ token' # "none" /\ mode' # "initial" /\ token' # "word"
      BY <1>1, <1>2, <2>4 DEF TokenTypes, Types
    <3>2. mode' \in {"initial", "word", "#"} \cup Quotes /\ pos' \in 0 .. Len(text')
      BY <1>1
    <3> QED
      BY <1>1, <3>1, <3>2 DEF Lexed
  <2> QED
    BY <1>7, <2>3, <2>5, <2>6
<1> QED
  BY <1>8, <1>9

LEMMA EndOfFileLeft == ASSUME Lexed, EndOfFile PROVE Lexed' /\ Left' = Left
<1>1. /\ text \in WordSet /\ pos = Len(text) /\ token = "none"
      /\ text' = text /\ pos' = pos /\ value' = value /\ mode' = mode
      /\ Len(text) \in Nat /\ token' = IF mode \in Quotes THEN "error" ELSE "eof"
  BY DEF Lexed, EndOfFile, Reading, More, WordSet, lexer, AtEnd
<1>2. Lexed'
  <2>1. token' \in TokenTypes /\ token' # "none" /\ token' # "word"
    BY <1>1 DEF TokenTypes, Types
  <2> QED
    BY <1>1, <2>1 DEF Lexed
<1>3. Left = Cuts(text)[From]
  BY <1>1 DEF Left
<1>4. ASSUME mode # "initial"
      PROVE  /\ From \in 1 .. Len(text) /\ From \in 1 .. Len(text) + 1 /\ From + 1 \in 1 .. Len(text) + 1
             /\ Len(text) + 1 \in From .. Len(text) + 1 /\ Len(text) + 1 \in From + 1 .. Len(text) + 1
             /\ Len(text) + 1 > Len(text) /\ Len(text) + 1 - 1 = Len(text) /\ Partly
  <2>1. Partly
    BY <1>1, <1>4 DEF Lexed
  <2> QED
    BY <1>1, <2>1 DEF Partly
<1>5. CASE mode = "initial"
  <2>1. From = Len(text) + 1
    BY <1>1, <1>5 DEF From, Lexed
  <2>2. Left = <<>>
    BY <1>1, <1>3, <2>1, LeftEnd
  <2> QED
    BY <1>1, <1>2, <1>5, <2>2 DEF Left, Pending, Behind, Quotes, Types, Marks
<1>6. CASE mode = "word"
  <2>1. Plain(text[From]) /\ \A k \in From .. Len(text) : text[k] \notin WordEnds
    BY <1>1, <1>4, <1>6 DEF Partly
  <2>2. FirstOf(text, WordEnds, From) = Len(text) + 1
    BY <1>1, <1>4, <1>6, <2>1, FirstOfFound
  <2>3. Cut(text, From).tokens = <<>> /\ Cut(text, From).next = Len(text) + 1
    BY <1>4, <1>6, <2>1, <2>2, CutWord
  <2>4. Left = <<>> \o <<>>
    BY <1>1, <1>3, <1>4, <1>6, <2>3, LeftIs, LeftEnd
  <2> QED
    BY <1>1, <1>2, <1>6, <2>4 DEF Left, Pending, Behind, Quotes, Types, Marks
<1>7. CASE mode = "#"
  <2>1. text[From] = "#" /\ \A k \in From .. Len(text) : text[k] \notin {"LF", "CR"}
    BY <1>1, <1>4, <1>7 DEF Partly
  <2>2. FirstOf(text, {"LF", "CR"}, From) = Len(text) + 1
    BY <1>1, <1>4, <1>7, <2>1, FirstOfFound
  <2>3. Cut(text, From).tokens = <<>> /\ Cut(text, From).next = Len(text) + 1
    BY <1>4, <1>7, <2>1, <2>2, CutComment
  <2>4. Left = <<>> \o <<>>
    BY <1>1, <1>3, <1>4, <1>7, <2>3, LeftIs, LeftEnd
  <2> QED
    BY <1>1, <1>2, <1>7, <2>4 DEF Left, Pending, Behind, Quotes, Types, Marks
<1>8. CASE mode \in Quotes
  <2>0. mode # "initial"
    BY <1>8 DEF Quotes
  <2>1. text[From] = mode /\ \A k \in From + 1 .. Len(text) : text[k] \notin {mode}
    BY <1>1, <1>4, <1>8, <2>0 DEF Partly
  <2>2. FirstOf(text, {text[From]}, From + 1) = Len(text) + 1
    BY <1>1, <1>4, <2>0, <2>1, FirstOfFound
  <2>2a. text[From] \in Quotes /\ ~(Len(text) + 1 < Len(text))
    BY <1>1, <1>8, <2>1
  <2>3. Cut(text, From).tokens = <<MarkToken("error")>> /\ Cut(text, From).next = Len(text) + 1
    BY <2>2, <2>2a, CutQuote
  <2>4. Left = <<MarkToken("error")>> \o <<>>
    BY <1>1, <1>3, <1>4, <2>0, <2>3, LeftIs, LeftEnd
  <2>5. token' = "error"
    BY <1>1, <1>8
  <2> QED
    BY <1>2, <2>4, <2>5 DEF Left, Pending, Behind, Types
<1> QED
  BY <1>5, <1>6, <1>7, <1>8 DEF Lexed

LEMMA ParseTokenLeft ==
  ASSUME Lexed, ParseToken
  PROVE  Lexed' /\ Left' = Left /\ text' = text /\ status = "reading" /\ UNCHANGED <<parser, main>>
<1>1. text' = text /\ status = "reading" /\ UNCHANGED <<parser, main>>
  BY DEF ParseToken, Skip, Mark, Begin, Continue, WordEnd, CommentEnd, QuoteEnd, EndOfFile,
     Reading, lexer
<1> QED
  BY <1>1, SkipLeft, MarkLeft, BeginLeft, ContinueLeft, WordEndLeft, CommentEndLeft, QuoteEndLeft,
     EndOfFileLeft DEF ParseToken

\* Parse takes the token it was handed, and nothing else.
LEMMA NextTokenLeft ==
  ASSUME Lexed, NextToken, token \notin {"none", "error", "eof"}
  PROVE  Lexed' /\ Left = Pending \o Left' /\ Left' \in Seq(Token)
<1>1. /\ text \in WordSet /\ pos \in 0 .. Len(text) /\ Len(text) \in Nat /\ value' = <<>>
      /\ text' = text /\ pos' = pos /\ token' = "none" /\ mode' = "initial"
  BY DEF Lexed, NextToken, WordSet
<1>2. Lexed'
  BY <1>1 DEF Lexed, TokenTypes
<1>3. Left' = Cuts(text)[pos + 1]
  <2>1. From' = pos + 1
    BY <1>1 DEF From
  <2> QED
    BY <1>1, <2>1 DEF Left
<1>4. Left = Pending \o Cuts(text)[pos + 1]
  BY DEF Left, Behind
<1>5. Cuts(text)[pos + 1] \in Seq(Token)
  BY <1>1, CutsTyped
<1> QED
  BY <1>2, <1>3, <1>4, <1>5

----------------------------------------------------------------------------
(* Parse, over the tokens of the text.                                     *)

\* The marks, by name.
Opens == "{"
Closes == "}"
Ends == ";"

LEMMA MarksNamed ==
  /\ Marks = {Opens, Closes, Ends} /\ Opens # Closes /\ Opens # Ends /\ Closes # Ends
  /\ \A c \in Marks : c \notin {"word", "none", "comment", "error", "eof", "start"}
  /\ MayBegin = {"word", Opens} /\ MayEnd = {Ends, Opens, Closes, "word"}
  /\ Complete <=> last \in {Ends, Closes} /\ depth = 0
<1>1. Marks = {Opens, Closes, Ends}
  BY Zenon DEF Marks, Opens, Closes, Ends
<1>2. Opens # Closes /\ Opens # Ends /\ Closes # Ends
  BY Zenon DEF Opens, Closes, Ends
<1>3. \A c \in Marks : c \notin {"word", "none", "comment", "error", "eof", "start"}
  BY Zenon DEF Marks
<1>4. MayBegin = {"word", Opens}
  BY Zenon DEF MayBegin, Opens
<1>5. MayEnd = {Ends, Opens, Closes, "word"}
  BY Zenon DEF MayEnd, Opens, Closes, Ends
<1>6. Complete <=> last \in {Ends, Closes} /\ depth = 0
  BY Zenon DEF Complete, Opens, Closes, Ends
<1> QED
  BY <1>1, <1>2, <1>3, <1>4, <1>5, <1>6

Kind(t, k) == t[k].type
Toks == Tokens(text)
\* How many tokens Parse took.
Done == Len(Toks) - Len(Left)

\* A token that Parse took: what it must follow, and that no more blocks were
\* ended than begun before it.
Fits(t, i) ==
  /\ t[i].type \in Marks \cup {"word"}
  /\ t[i].type \in {Ends, Opens} => i > 1 /\ t[i - 1].type = "word"
  /\ t[i].type = Closes => i > 1
  /\ DepthAt(t, i) >= 0

\* A block just begun has no statement.
Fresh == last = Opens => stack # <<>> /\ blocks[Top] = <<>>

\* What is left of s when d are taken.
IsRest(s, d, l) == Len(l) = Len(s) - d /\ \A i \in 1 .. Len(l) : l[i] = s[d + i]

Followed ==
  /\ Done \in 0 .. Len(Toks) /\ IsRest(Toks, Done, Left)
  /\ last = IF Done = 0 THEN "start" ELSE Toks[Done].type
  /\ depth = DepthAt(Toks, Done + 1)
  /\ \A i \in 1 .. Done : Fits(Toks, i)
  /\ Fresh

\* Why Parse returned.
Outcome ==
  /\ status \in {"reading", "accepted", "rejected", "undefined"}
  /\ status = "accepted" => token = "eof" /\ Complete
  /\ status = "rejected" =>
       \/ token = "error"
       \/ token = "eof" /\ ~Complete
       \/ token = Ends /\ last # "word"
       \/ token = Opens /\ last \notin MayBegin
       \/ token = Closes /\ last \notin MayEnd
  /\ status = "undefined" =>
       \/ token \in {"word", Closes} /\ depth < 0
       \/ token = Opens /\ last = Opens

PInv == CInv /\ Lexed /\ Followed /\ Outcome

LEMMA TokensAre ==
  ASSUME NEW w \in WordSet
  PROVE  Tokens(w) \in Seq(Token)
<1>1. 1 \in 1 .. Len(w) + 1
  BY DEF WordSet
<1> QED
  BY <1>1, CutsTyped DEF Tokens

Before(t, c, i) == {j \in 1 .. i - 1 : t[j].type = c}

LEMMA CountStep ==
  ASSUME NEW t, NEW c, NEW i \in Nat \ {0}
  PROVE  /\ IsFiniteSet(Before(t, c, i)) /\ Cardinality(Before(t, c, i)) \in Nat
         /\ t[i].type = c => Cardinality(Before(t, c, i + 1)) = Cardinality(Before(t, c, i)) + 1
         /\ t[i].type # c => Cardinality(Before(t, c, i + 1)) = Cardinality(Before(t, c, i))
<1>1. IsFiniteSet(1 .. i - 1)
  BY FS_Interval
<1>2. Before(t, c, i) \subseteq 1 .. i - 1
  BY DEF Before
<1>3. IsFiniteSet(Before(t, c, i)) /\ Cardinality(Before(t, c, i)) \in Nat
  BY <1>1, <1>2, FS_Subset, FS_CardinalityType
<1>4. ASSUME t[i].type = c
      PROVE  Before(t, c, i + 1) = Before(t, c, i) \cup {i} /\ i \notin Before(t, c, i)
  BY <1>4 DEF Before
<1>5. ASSUME t[i].type # c
      PROVE  Before(t, c, i + 1) = Before(t, c, i)
  BY <1>5 DEF Before
<1> QED
  BY <1>3, <1>4, <1>5, FS_AddElement

LEMMA DepthStep ==
  ASSUME NEW t, NEW i \in Nat \ {0}
  PROVE  /\ DepthAt(t, i) \in Int
         /\ t[i].type = Opens => DepthAt(t, i + 1) = DepthAt(t, i) + 1
         /\ t[i].type = Closes => DepthAt(t, i + 1) = DepthAt(t, i) - 1
         /\ t[i].type \notin {Opens, Closes} => DepthAt(t, i + 1) = DepthAt(t, i)
<1>1. /\ DepthAt(t, i) = Cardinality(Before(t, Opens, i)) - Cardinality(Before(t, Closes, i))
      /\ DepthAt(t, i + 1) = Cardinality(Before(t, Opens, i + 1)) - Cardinality(Before(t, Closes, i + 1))
  BY Zenon DEF DepthAt, Before, Opens, Closes
<1>2. /\ Cardinality(Before(t, Opens, i)) \in Nat
      /\ t[i].type = Opens => Cardinality(Before(t, Opens, i + 1)) = Cardinality(Before(t, Opens, i)) + 1
      /\ t[i].type # Opens => Cardinality(Before(t, Opens, i + 1)) = Cardinality(Before(t, Opens, i))
  BY CountStep
<1>3. /\ Cardinality(Before(t, Closes, i)) \in Nat
      /\ t[i].type = Closes => Cardinality(Before(t, Closes, i + 1)) = Cardinality(Before(t, Closes, i)) + 1
      /\ t[i].type # Closes => Cardinality(Before(t, Closes, i + 1)) = Cardinality(Before(t, Closes, i))
  BY CountStep
<1> QED
  BY <1>1, <1>2, <1>3, MarksNamed

LEMMA DepthStart == ASSUME NEW t PROVE DepthAt(t, 1) = 0
<1>1. \A c : Before(t, c, 1) = {}
  BY DEF Before
<1>2. Cardinality(Before(t, Opens, 1)) = 0 /\ Cardinality(Before(t, Closes, 1)) = 0
  BY <1>1, FS_EmptySet
<1>3. DepthAt(t, 1) = Cardinality(Before(t, Opens, 1)) - Cardinality(Before(t, Closes, 1))
  BY Zenon DEF DepthAt, Before, Opens, Closes
<1> QED
  BY <1>2, <1>3

LEMMA InitPInv == Init => PInv
<1> SUFFICES ASSUME Init PROVE PInv
  OBVIOUS
<1>1. /\ text \in WordSet /\ pos = 0 /\ mode = "initial" /\ value = <<>> /\ token = "none"
      /\ last = "start" /\ depth = 0 /\ status = "reading"
  BY TextsAssumption DEF Init, WordSet
<1>2. Lexed
  BY <1>1 DEF Lexed, TokenTypes, WordSet
<1>3. From = 1
  BY <1>1 DEF From
<1>4. Left = Toks
  BY <1>1, <1>3 DEF Left, Toks, Tokens
<1>5. Toks \in Seq(Token)
  BY <1>1, TokensAre DEF Toks
<1>6. Done = 0 /\ Len(Toks) \in Nat /\ IsRest(Toks, Done, Left)
  BY <1>4, <1>5 DEF Done, IsRest
<1>7. Followed
  BY <1>1, <1>4, <1>6, DepthStart, MarksNamed DEF Followed, Fresh
<1> QED
  BY <1>1, <1>2, <1>7, InitIInv DEF PInv, Outcome

LEMMA OneThen ==
  ASSUME NEW S, NEW x \in S, NEW r \in Seq(S)
  PROVE  /\ <<x>> \o r \in Seq(S) /\ Len(<<x>> \o r) = Len(r) + 1 /\ (<<x>> \o r)[1] = x
         /\ \A i \in 1 .. Len(r) : (<<x>> \o r)[i + 1] = r[i]
OBVIOUS

LEMMA Shifted ==
  ASSUME NEW S, NEW s \in Seq(S), NEW d \in Nat, NEW l, IsRest(s, d, l), NEW r \in Seq(S),
         Len(l) = Len(r) + 1, \A i \in 1 .. Len(r) : l[i + 1] = r[i], NEW x, l[1] = x
  PROVE  d + 1 <= Len(s) /\ s[d + 1] = x /\ Len(s) - Len(r) = d + 1 /\ IsRest(s, d + 1, r)
<1>2. Len(r) \in Nat /\ Len(s) \in Nat /\ Len(l) = Len(s) - d /\ \A i \in 1 .. Len(l) : l[i] = s[d + i]
  BY DEF IsRest
<1>2a. 1 \in 1 .. Len(l) /\ d + 1 <= Len(s) /\ Len(s) - Len(r) = d + 1
  <2> DEFINE m == Len(l)
             n == Len(s)
             k == Len(r)
  <2>1. k \in Nat /\ n \in Nat /\ m = n - d /\ m = k + 1
    BY <1>2
  <2> HIDE DEF m, n, k
  <2>2. m \in Nat /\ m >= 1 /\ d + 1 <= n /\ n - k = d + 1
    BY <2>1
  <2> QED
    BY <2>2 DEF m, n, k
<1>2b. l[1] = s[d + 1]
  BY <1>2, <1>2a
<1>3. d + 1 <= Len(s) /\ Len(s) - Len(r) = d + 1 /\ s[d + 1] = x
  BY <1>2a, <1>2b
<1>4. ASSUME NEW i \in 1 .. Len(r) PROVE r[i] = s[(d + 1) + i]
  <2>1. i + 1 \in 1 .. Len(l) /\ d + (i + 1) = (d + 1) + i
    BY <1>2
  <2>2. l[i + 1] = s[d + (i + 1)]
    BY <1>2, <2>1
  <2> QED
    BY <2>1, <2>2
<1> QED
  BY <1>2, <1>3, <1>4 DEF IsRest

\* What taking a token does to the tokens that are left.
LEMMA Takes ==
  ASSUME PInv, NextToken, token \in Types \ {"error"}
  PROVE  /\ Lexed' /\ text' = text /\ Toks' = Toks /\ Toks \in Seq(Token) /\ Done \in Nat
         /\ Done' = Done + 1 /\ Done' \in 0 .. Len(Toks) /\ Toks[Done + 1].type = token
         /\ Toks[Done + 1] = IF token = "word" THEN WordToken(value) ELSE MarkToken(token)
         /\ IsRest(Toks, Done', Left')
<1> DEFINE x == IF token = "word" THEN WordToken(value) ELSE MarkToken(token)
<1>1. Lexed /\ Followed
  BY DEF PInv
<1>2. Lexed' /\ Left = Pending \o Left' /\ Left' \in Seq(Token) /\ text' = text
  BY <1>1, NextTokenLeft, MarksNamed DEF Types, NextToken
<1>3. Pending = <<x>>
  BY DEF Pending
<1>4. x \in Token
  BY <1>1, TokensTyped DEF Lexed, Types
<1>5. x.type = token
  BY DEF WordToken, MarkToken
<1> HIDE DEF x
<1>6. Toks \in Seq(Token) /\ Toks' = Toks /\ Len(Toks) \in Nat
  <2>1. Toks \in Seq(Token)
    BY <1>1, TokensAre DEF Toks, Lexed
  <2> QED
    BY <1>2, <2>1 DEF Toks
<1> DEFINE d == Done
           r == Left'
           t == Toks
           l == Left
<1>8. d \in Nat /\ t \in Seq(Token) /\ r \in Seq(Token) /\ IsRest(t, d, l)
  BY <1>1, <1>2, <1>6 DEF Followed
<1>8a. Len(l) = Len(r) + 1 /\ l[1] = x /\ \A i \in 1 .. Len(r) : l[i + 1] = r[i]
  BY <1>2, <1>3, <1>4, OneThen
<1> HIDE DEF d, r, t, l
<1>9a. d + 1 <= Len(t) /\ t[d + 1] = x /\ Len(t) - Len(r) = d + 1 /\ IsRest(t, d + 1, r)
  BY <1>8, <1>8a, Shifted
<1>9. /\ Done + 1 <= Len(Toks) /\ Toks[Done + 1] = x /\ Len(Toks) - Len(Left') = Done + 1
      /\ IsRest(Toks, Done + 1, Left') /\ Done \in Nat
  BY <1>8, <1>9a DEF d, r, t
<1>10. Done' = Done + 1
  <2>1. Done' = Len(Toks') - Len(Left')
    BY DEF Done
  <2> QED
    BY <1>6, <1>9, <2>1
<1>11. Done' \in 0 .. Len(Toks)
  BY <1>6, <1>9, <1>10
<1> QED
  BY <1>2, <1>5, <1>6, <1>9, <1>10, <1>11 DEF x

\* What a token does to the counters of braces.
Deeper ==
  /\ token = Opens => depth' = depth + 1
  /\ token = Closes => depth' = depth - 1
  /\ token \notin {Opens, Closes} => depth' = depth

\* So the tokens taken are followed, whatever Parse made of them.
LEMMA TakesFollowed ==
  ASSUME PInv, NextToken, token \in Marks \cup {"word"}, last' = token, depth >= 0,
         token \in {Ends, Opens} => last = "word", token = Closes => last # "start",
         Deeper, Fresh'
  PROVE  Followed' /\ Lexed'
<1>0. token \in Types \ {"error"}
  BY MarksNamed DEF Types
<1>1. /\ Lexed' /\ Toks' = Toks /\ Toks \in Seq(Token) /\ Done \in Nat
      /\ Done' = Done + 1 /\ Done' \in 0 .. Len(Toks) /\ Toks[Done + 1].type = token
      /\ IsRest(Toks, Done', Left')
  BY <1>0, Takes
<1>2. /\ last = IF Done = 0 THEN "start" ELSE Toks[Done].type
      /\ depth = DepthAt(Toks, Done + 1) /\ \A i \in 1 .. Done : Fits(Toks, i)
  BY DEF PInv, Followed
<1>3. Fits(Toks, Done + 1)
  <2>1. token \in {Ends, Opens} => Done > 0 /\ Toks[Done].type = "word"
    BY <1>1, <1>2
  <2>2. token = Closes => Done > 0
    BY <1>1, <1>2
  <2>3. Done + 1 - 1 = Done
    BY <1>1
  <2> QED
    BY <1>1, <1>2, <2>1, <2>2, <2>3 DEF Fits
<1>4. depth' = DepthAt(Toks, Done + 2)
  <2>1. Done + 1 \in Nat \ {0} /\ Done + 1 + 1 = Done + 2
    BY <1>1
  <2> QED
    BY <1>1, <1>2, <2>1, DepthStep DEF Deeper
<1>5. \A i \in 1 .. Done' : Fits(Toks, i)
  BY <1>1, <1>2, <1>3
<1>6. last' = Toks'[Done'].type /\ Done' # 0 /\ Done' + 1 = Done + 2
  BY <1>1
<1> QED
  BY <1>1, <1>4, <1>5, <1>6 DEF Followed

LEMMA FollowedNow ==
  ASSUME PInv
  PROVE  /\ Toks \in Seq(Token) /\ Done \in 0 .. Len(Toks) /\ Len(Toks) \in Nat /\ IsRest(Toks, Done, Left)
         /\ Len(Left) = Len(Toks) - Done
         /\ last = IF Done = 0 THEN "start" ELSE Toks[Done].type
         /\ Done # 0 => Fits(Toks, Done)
         /\ last \in Marks \cup {"word", "start"}
         /\ depth = DepthAt(Toks, Done + 1) /\ depth \in Int /\ depth >= -1
<1>1. Toks \in Seq(Token)
  BY TokensAre DEF Toks, PInv, Lexed
<1>2. /\ Done \in 0 .. Len(Toks) /\ IsRest(Toks, Done, Left)
      /\ last = IF Done = 0 THEN "start" ELSE Toks[Done].type
      /\ depth = DepthAt(Toks, Done + 1) /\ \A i \in 1 .. Done : Fits(Toks, i)
  BY DEF PInv, Followed
<1>3. Len(Toks) \in Nat
  BY <1>1
<1>4. Done # 0 => Fits(Toks, Done)
  BY <1>2, <1>3
<1>5. last \in Marks \cup {"word", "start"}
  BY <1>2, <1>4 DEF Fits
<1>6. depth \in Int /\ Len(stack) = depth + 1 /\ Len(stack) \in Nat
  BY DEF PInv, CInv, IInv, Typed, Counted
<1>7. depth >= -1
  BY <1>6
<1> QED
  BY <1>1, <1>2, <1>3, <1>4, <1>5, <1>6, <1>7 DEF IsRest

\* There is a block to put a statement in as long as no more were ended than begun.
LEMMA StackIs == ASSUME PInv PROVE stack # <<>> <=> depth >= 0
<1>1. depth \in Int /\ Len(stack) = depth + 1 /\ stack \in Seq(Nat)
  BY DEF PInv, CInv, IInv, Typed, Counted
<1> QED
  BY <1>1

LEMMA CInvKept == ASSUME PInv, [Next]_vars PROVE CInv'
BY NextKeeps DEF PInv

LEMMA WordFollows == ASSUME PInv, Word PROVE PInv'
<1>1. /\ token = "word" /\ status = "reading" /\ stack # <<>> /\ last' = "word" /\ NextToken
      /\ depth' = depth /\ stack' = stack /\ status' = status
  BY DEF Word, Handle
<1>2. depth >= 0
  BY <1>1, StackIs
<1>3. Deeper /\ Fresh' /\ last' = token /\ token \notin {Ends, Opens, Closes}
  BY <1>1, MarksNamed DEF Deeper, Fresh
<1>4. Followed' /\ Lexed'
  BY <1>1, <1>2, <1>3, TakesFollowed
<1>5. CInv'
  BY CInvKept DEF Next, Parse
<1> QED
  BY <1>1, <1>4, <1>5 DEF PInv, Outcome

LEMMA EndStatementFollows == ASSUME PInv, EndStatement PROVE PInv'
<1>1. /\ token = Ends /\ status = "reading" /\ last = "word" /\ last' = Ends /\ NextToken
      /\ depth' = depth /\ stack' = stack /\ status' = status
  BY Zenon DEF EndStatement, Handle, Ends
<1>2. depth >= 0
  BY <1>1, StackIs, MarksNamed DEF PInv, CInv, IInv, GoesOn
<1>3. Deeper /\ Fresh' /\ last' = token /\ token \notin {Opens, Closes} /\ token \in Marks
  BY <1>1, MarksNamed DEF Deeper, Fresh
<1>4. Followed' /\ Lexed'
  BY <1>1, <1>2, <1>3, TakesFollowed
<1>5. CInv'
  BY CInvKept DEF Next, Parse
<1> QED
  BY <1>1, <1>4, <1>5 DEF PInv, Outcome

LEMMA StartBlockFollows == ASSUME PInv, StartBlock PROVE PInv'
<1>1. /\ token = Opens /\ status = "reading" /\ last \in MayBegin /\ last' = Opens /\ NextToken
      /\ blocks[Top] # <<>> /\ status' = status
  BY Zenon DEF StartBlock, Handle, Opens
<1>1a. depth' = depth + 1
  BY DEF StartBlock
<1>2. last = "word" /\ depth >= 0
  <2>1. last # Opens
    BY <1>1 DEF PInv, Followed, Fresh
  <2>2. stack # <<>>
    BY <1>1 DEF PInv, CInv, IInv, GoesOn
  <2> QED
    BY <1>1, <2>1, <2>2, StackIs, MarksNamed
<1>3. Deeper /\ last' = token /\ token \notin {Ends, Closes} /\ token \in Marks
  BY <1>1, <1>1a, MarksNamed DEF Deeper
<1>3a. Fresh'
  <2> DEFINE new == Len(blocks) + 1
             mid == [blocks EXCEPT ![Top] = WithChild(@, new)]
  <2>1. blocks' = Append(mid, <<>>) /\ stack' = Append(stack, new)
    BY DEF StartBlock
  <2>2. stack \in Seq(Nat) /\ blocks \in Seq(Seq(StatementSet))
    BY DEF PInv, CInv, IInv, Typed
  <2>3. Len(mid) = Len(blocks)
    BY <2>2
  <2> HIDE DEF mid
  <2>3a. mid \in Seq(Seq(StatementSet))
    <3>1. blocks' \in Seq(Seq(StatementSet))
      BY CInvKept DEF Next, Parse, CInv, IInv, Typed
    <3>2. Top \in DOMAIN blocks /\ blocks[Top] \in Seq(StatementSet)
      <4>1. stack # <<>>
        BY <1>2, StackIs
      <4>2. Top \in DOMAIN blocks
        BY <2>2, <4>1, LastOne DEF PInv, CInv, IInv, Opened, Top
      <4> QED
        BY <2>2, <4>2
    <3>3. Top \in Nat /\ Top <= Len(blocks) /\ Len(blocks) \in Nat
      BY <2>2, <3>2
    <3>4. Propers(blocks[Top], Top, Len(blocks))
      BY <3>2, ProperNow DEF PInv, CInv, IInv
    <3>5. WithChild(blocks[Top], new) \in Seq(StatementSet)
      BY <1>1, <3>2, <3>3, <3>4, WithChildKeeps
    <3>6. mid = [blocks EXCEPT ![Top] = WithChild(blocks[Top], new)]
      BY DEF mid
    <3> QED
      BY <2>2, <3>2, <3>5, <3>6, Replaced
  <2>4. blocks'[new] = <<>>
    BY <2>1, <2>3, <2>3a
  <2>5. stack' # <<>> /\ Top' = new
    <3>1. new \in Nat
      BY <2>2
    <3> HIDE DEF new
    <3>2. stack' # <<>> /\ Len(stack') = Len(stack) + 1 /\ stack'[Len(stack) + 1] = new
      BY <2>1, <2>2, <3>1, Appended
    <3> QED
      BY <3>2 DEF Top
  <2> QED
    BY <2>4, <2>5 DEF Fresh
<1>4. Followed' /\ Lexed'
  BY <1>1, <1>2, <1>3, <1>3a, TakesFollowed
<1>5. CInv'
  BY CInvKept DEF Next, Parse
<1> QED
  BY <1>1, <1>4, <1>5 DEF PInv, Outcome

LEMMA EndBlockFollows == ASSUME PInv, EndBlock PROVE PInv'
<1>1. /\ token = Closes /\ status = "reading" /\ last \in MayEnd /\ last' = Closes /\ NextToken
      /\ stack # <<>> /\ status' = status
  BY Zenon DEF EndBlock, Handle, Closes
<1>1a. depth' = depth - 1
  BY DEF EndBlock
<1>2. depth >= 0
  BY <1>1, StackIs
<1>3. /\ Deeper /\ Fresh' /\ last' = token /\ token \notin {Ends, Opens} /\ token \in Marks
      /\ last # "start"
  BY <1>1, <1>1a, MarksNamed DEF Deeper, Fresh
<1>4. Followed' /\ Lexed'
  BY <1>1, <1>2, <1>3, TakesFollowed
<1>5. CInv'
  BY CInvKept DEF Next, Parse
<1> QED
  BY <1>1, <1>4, <1>5 DEF PInv, Outcome

\* A comment is no token, and whoever reads one reads on.
LEMMA StaysFollowed ==
  ASSUME PInv, Lexed', Left' = Left, text' = text, UNCHANGED parser
  PROVE  Followed' /\ (status = "reading" => Outcome')
<1>1. Toks' = Toks /\ Done' = Done
  BY DEF Toks, Done
<1> QED
  BY <1>1 DEF PInv, Followed, Fresh, Top, parser, Outcome

LEMMA SkipCommentFollows == ASSUME PInv, SkipComment PROVE PInv'
<1>1. token = "comment" /\ status = "reading" /\ NextToken /\ UNCHANGED parser
  BY DEF SkipComment, Handle
<1>2. Lexed' /\ Left = Pending \o Left' /\ Left' \in Seq(Token)
  BY <1>1, NextTokenLeft DEF PInv
<1>3. Pending = <<>>
  BY <1>1, MarksNamed DEF Pending, Types
<1>4. Left' = Left
  BY <1>2, <1>3
<1>5. CInv'
  BY CInvKept DEF Next, Parse
<1> QED
  BY <1>1, <1>2, <1>4, <1>5, StaysFollowed DEF PInv, NextToken

LEMMA ParseTokenFollows == ASSUME PInv, ParseToken PROVE PInv'
<1>1. Lexed' /\ Left' = Left /\ text' = text /\ status = "reading" /\ UNCHANGED parser
  BY ParseTokenLeft DEF PInv
<1>2. CInv'
  BY CInvKept DEF Next
<1> QED
  BY <1>1, <1>2, StaysFollowed DEF PInv

LEMMA SameLeft ==
  ASSUME Lexed, UNCHANGED <<lexer, token>>
  PROVE  Lexed' /\ Left' = Left /\ text' = text
BY DEF Lexed, lexer, Left, Pending, Behind, From, Partly

LEMMA StopFollows == ASSUME PInv, Accept \/ Reject \/ Derail PROVE PInv'
<1>1. UNCHANGED <<lexer, token, last, depth, blocks, stack>>
  BY DEF Accept, Reject, Derail, Stop
<1>2. Lexed' /\ Left' = Left /\ text' = text
  BY <1>1, SameLeft DEF PInv
<1>3. Followed'
  <2>1. Toks' = Toks /\ Done' = Done
    BY <1>2 DEF Toks, Done
  <2> QED
    BY <1>1, <1>2, <2>1 DEF PInv, Followed, Fresh, Top
<1>4. CInv'
  BY CInvKept DEF Next, Parse
<1>5. CASE Accept
  BY <1>1, <1>2, <1>3, <1>4, <1>5 DEF PInv, Outcome, Accept, Stop, Handle, Complete
<1>6. CASE Reject
  <2>1. /\ status' = "rejected"
        /\ \/ token = "error"
           \/ token = "eof" /\ ~Complete
           \/ token = Ends /\ last # "word"
           \/ token = Opens /\ last \notin MayBegin
           \/ token = Closes /\ last \notin MayEnd
    BY <1>6, Zenon DEF Reject, Stop, Handle, Ends, Opens, Closes
  <2>2. Complete' = Complete
    BY <1>1 DEF Complete
  <2> QED
    BY <1>1, <1>2, <1>3, <1>4, <2>1, <2>2 DEF PInv, Outcome
<1>7. CASE Derail
  <2>1. /\ status' = "undefined" /\ status = "reading"
        /\ \/ token = "word" /\ stack = <<>>
           \/ token = Closes /\ stack = <<>>
           \/ token = Opens /\ last \in MayBegin /\ blocks[Top] = <<>>
    BY <1>7, Zenon DEF Derail, Stop, Handle, Opens, Closes
  <2>2. stack = <<>> => depth < 0
    BY StackIs, FollowedNow
  <2>3. last \in MayBegin /\ blocks[Top] = <<>> => last = Opens
    BY <2>1, MarksNamed DEF PInv, CInv, IInv, GoesOn
  <2> QED
    BY <1>1, <1>2, <1>3, <1>4, <2>1, <2>2, <2>3 DEF PInv, Outcome
<1> QED
  BY <1>5, <1>6, <1>7

LEMMA MainFollows == ASSUME PInv, Refuse \/ Start \/ UNCHANGED vars PROVE PInv'
<1>1. UNCHANGED <<lexer, token, parser>>
  BY DEF Refuse, Start, vars
<1>2. Lexed' /\ Left' = Left /\ text' = text
  BY <1>1, SameLeft DEF PInv
<1>3. Followed'
  BY <1>1, <1>2, StaysFollowed
<1>4. CInv'
  BY CInvKept DEF Next
<1> QED
  BY <1>1, <1>2, <1>3, <1>4 DEF PInv, Outcome, parser, Complete

LEMMA NextFollows == PInv /\ [Next]_vars => PInv'
BY ParseTokenFollows, SkipCommentFollows, WordFollows, EndStatementFollows, StartBlockFollows,
   EndBlockFollows, StopFollows, MainFollows DEF Next, Parse

\* The token that stopped Parse.
LEMMA StoppedAt ==
  ASSUME PInv, token \in Types
  PROVE  Done + 1 \in 1 .. Len(Toks) /\ Kind(Toks, Done + 1) = token
<1> DEFINE x == IF token = "word" THEN WordToken(value) ELSE MarkToken(token)
           r == IF token = "error" THEN <<>> ELSE Cuts(text)[pos + 1]
<1>1. Left = <<x>> \o r
  <2>1. token # "none" /\ token # "eof"
    BY MarksNamed DEF Types
  <2> QED
    BY <2>1 DEF Left, Pending, Behind
<1>2. r \in Seq(Token)
  <2>1. Cuts(text)[pos + 1] \in Seq(Token)
    BY CutsTyped DEF PInv, Lexed, WordSet
  <2> QED
    BY <2>1
<1>3. x \in Token /\ x.type = token
  <2>1. x \in Token
    BY TokensTyped DEF PInv, Lexed, Types
  <2> QED
    BY <2>1 DEF WordToken, MarkToken
<1> HIDE DEF x, r
<1>4. Len(Left) >= 1 /\ Left[1] = x
  BY <1>1, <1>2, <1>3, OneThen
<1>5. Done + 1 \in 1 .. Len(Toks) /\ 1 \in 1 .. Len(Left) /\ Len(Left) \in Nat
  BY <1>4, FollowedNow
<1>6. Left[1] = Toks[Done + 1]
  BY <1>5, FollowedNow DEF IsRest
<1> QED
  BY <1>3, <1>4, <1>5, <1>6 DEF Kind

\* What derails Parse, over the tokens of the text.
LEMMA Derailed == PInv => DerailsOnlyOnBraces
<1> SUFFICES ASSUME PInv, status = "undefined"
             PROVE  \/ \E i \in 1 .. Len(Toks) - 1 : Toks[i].type = Opens /\ Toks[i + 1].type = Opens
                    \/ \E i \in DOMAIN Toks : DepthAt(Toks, i) < 0
  BY Zenon DEF DerailsOnlyOnBraces, Toks, Opens
<1>1. \/ token \in {"word", Closes} /\ depth < 0
      \/ token = Opens /\ last = Opens
  BY DEF PInv, Outcome
<1>2. token \in Types
  BY <1>1, MarksNamed DEF Types
<1>3. Done + 1 \in 1 .. Len(Toks) /\ Toks[Done + 1].type = token
  BY <1>2, StoppedAt DEF Kind
<1>4. CASE depth < 0
  <2>1. Done + 1 \in DOMAIN Toks /\ DepthAt(Toks, Done + 1) < 0
    BY <1>3, <1>4, FollowedNow
  <2> QED
    BY <2>1
<1>5. CASE token = Opens /\ last = Opens
  <2>1. Done # 0 /\ Toks[Done].type = Opens
    BY <1>5, FollowedNow, MarksNamed
  <2>2. Done \in 1 .. Len(Toks) - 1
    BY <1>3, <2>1, FollowedNow
  <2> QED
    BY <1>3, <1>5, <2>1, <2>2
<1> QED
  BY <1>1, <1>4, <1>5

\* Parse takes top() or pop() of the empty stack, or back() of a block without
\* statements, only in a text with two opening braces in a row or with more
\* braces closed than opened: whatever the text, it is enough to look for these.
THEOREM DerailsOnlyThere == Spec => []DerailsOnlyOnBraces
<1>1. PInv => DerailsOnlyOnBraces
  BY Derailed
<1> QED
  BY <1>1, InitPInv, NextFollows, PTL DEF Spec

----------------------------------------------------------------------------
(* The grammar, without its recursion: what the tokens from i to j - 1 are *)
(* when they are a block's.                                                *)

Shaped(t, i, j) ==
  /\ i <= j
  /\ \A k \in i .. j - 1 : Kind(t, k) \in Marks \cup {"word"}
  /\ \A k \in i .. j - 1 : Kind(t, k) \in {Ends, Opens} => k > i /\ Kind(t, k - 1) = "word"
  /\ \A k \in i .. j : DepthAt(t, k) >= DepthAt(t, i)
  /\ DepthAt(t, j) = DepthAt(t, i)
  /\ i < j /\ Kind(t, j - 1) = "word" => j <= Len(t) /\ Kind(t, j) = Closes

\* A statement of words up to m, and what is behind them.
Stated(t, i, m, k) ==
  /\ i < m /\ \A l \in i .. m - 1 : Kind(t, l) = "word"
  /\ \/ m = k - 1 /\ Kind(t, m) = Ends
     \/ m = k /\ k <= Len(t) /\ Kind(t, k) = Closes
     \/ m < k - 1 /\ Kind(t, m) = Opens /\ Kind(t, k - 1) = Closes /\ Shaped(t, m + 1, k - 1)

LEMMA Depths ==
  ASSUME NEW t, NEW i \in Nat \ {0}
  PROVE  /\ DepthAt(t, i) \in Int
         /\ Kind(t, i) = Opens => DepthAt(t, i + 1) = DepthAt(t, i) + 1
         /\ Kind(t, i) = Closes => DepthAt(t, i + 1) = DepthAt(t, i) - 1
         /\ Kind(t, i) \notin {Opens, Closes} => DepthAt(t, i + 1) = DepthAt(t, i)
BY DepthStep DEF Kind

\* Words do not change the depth.
LEMMA WordsFlat ==
  ASSUME NEW t, NEW i \in Nat \ {0}, NEW m \in Nat, i <= m,
         \A l \in i .. m - 1 : Kind(t, l) = "word"
  PROVE  \A l \in i .. m : DepthAt(t, l) = DepthAt(t, i)
<1> DEFINE T == {l \in i .. m : DepthAt(t, l) # DepthAt(t, i)}
<1> SUFFICES ASSUME T # {} PROVE FALSE
  OBVIOUS
<1>1. T \subseteq Nat
  OBVIOUS
<1>2. PICK l \in T : \A k \in T : l <= k
  <2> HIDE DEF T
  <2> QED
    BY <1>1, LeastNumber
<1>3. l \in i .. m /\ DepthAt(t, l) # DepthAt(t, i)
  BY <1>2
<1>4. l # i /\ l - 1 \in i .. m - 1 /\ l - 1 \in i .. m /\ l - 1 + 1 = l /\ l - 1 \in Nat \ {0} /\ ~(l <= l - 1)
  BY <1>3
<1>5. DepthAt(t, l - 1) = DepthAt(t, i)
  <2>1. l - 1 \notin T
    BY <1>2, <1>4
  <2> QED
    BY <1>4, <2>1
<1>6. Kind(t, l - 1) \notin {Opens, Closes}
  BY <1>4, MarksNamed
<1>7. DepthAt(t, l - 1 + 1) = DepthAt(t, l - 1)
  BY <1>4, <1>6, Depths
<1> QED
  BY <1>3, <1>4, <1>5, <1>7

LEMMA ShapedEmpty ==
  ASSUME NEW t, NEW i \in Nat \ {0}
  PROVE  Shaped(t, i, i)
<1>1. DepthAt(t, i) \in Int /\ i .. i - 1 = {} /\ \A k \in i .. i : k = i
  BY Depths
<1> QED
  BY <1>1 DEF Shaped

\* A statement and a block make a block.
LEMMA ShapedJoin ==
  ASSUME NEW t, Len(t) \in Nat, NEW i \in Nat \ {0}, NEW j \in 1 .. Len(t) + 1,
         NEW k \in i + 1 .. j, NEW m \in i + 1 .. k, Stated(t, i, m, k), Shaped(t, k, j)
  PROVE  Shaped(t, i, j)
<1> DEFINE D(l) == DepthAt(t, l)
<1>1. i < m /\ m <= k /\ k <= j /\ i \in Nat /\ m \in Nat /\ k \in Nat /\ j \in Nat
  OBVIOUS
<1>2. \A l \in Nat \ {0} : D(l) \in Int
  BY Depths
<1>3. \A l \in i .. m : D(l) = D(i)
  BY <1>1, WordsFlat DEF Stated
<1>4. \A l \in i .. m - 1 : Kind(t, l) = "word"
  BY DEF Stated
<1>5. /\ \A l \in k .. j - 1 : Kind(t, l) \in Marks \cup {"word"}
      /\ \A l \in k .. j - 1 : Kind(t, l) \in {Ends, Opens} => l > k /\ Kind(t, l - 1) = "word"
      /\ \A l \in k .. j : D(l) >= D(k)
      /\ D(j) = D(k)
      /\ k < j /\ Kind(t, j - 1) = "word" => j <= Len(t) /\ Kind(t, j) = Closes
  BY DEF Shaped
<1>6. CASE m = k - 1 /\ Kind(t, m) = Ends
  <2>1. Kind(t, m) \in Marks /\ Kind(t, m) \notin {Opens, Closes} /\ Kind(t, m) # "word"
    BY <1>6, MarksNamed
  <2>2. D(k) = D(i)
    <3>1. D(m + 1) = D(m) /\ m + 1 = k /\ D(m) = D(i)
      BY <1>1, <1>3, <1>6, <2>1, Depths
    <3> QED
      BY <3>1
  <2> HIDE DEF D
  <2>3. \A l \in i .. j - 1 : l \in i .. m - 1 \/ l = m \/ l \in k .. j - 1
    BY <1>1, <1>6
  <2>4. \A l \in i .. j : l \in i .. m \/ l \in k .. j
    BY <1>1, <1>6
  <2>5. \A l \in i .. j - 1 : Kind(t, l) \in Marks \cup {"word"}
    BY <1>4, <1>5, <2>1, <2>3
  <2>6. ASSUME NEW l \in i .. j - 1, Kind(t, l) \in {Ends, Opens}
        PROVE  l > i /\ Kind(t, l - 1) = "word"
    <3>1. CASE l \in i .. m - 1
      BY <1>4, <2>6, <3>1, MarksNamed
    <3>2. CASE l = m
      BY <1>1, <1>4, <3>2
    <3>3. CASE l \in k .. j - 1
      BY <1>1, <1>5, <2>6, <3>3
    <3> QED
      BY <2>3, <3>1, <3>2, <3>3
  <2>7. \A l \in i .. j : D(l) >= D(i)
    BY <1>1, <1>2, <1>3, <1>5, <2>2, <2>4
  <2>8. Kind(t, j - 1) = "word" => j <= Len(t) /\ Kind(t, j) = Closes
    <3>1. k = j => j - 1 = m
      BY <1>1, <1>6
    <3> QED
      BY <1>1, <1>5, <2>1, <3>1
  <2> QED
    BY <1>1, <1>5, <2>2, <2>5, <2>6, <2>7, <2>8 DEF Shaped, D
<1>7. CASE m = k /\ k <= Len(t) /\ Kind(t, k) = Closes
  <2>1. k = j
    <3> SUFFICES ASSUME k # j PROVE FALSE
      OBVIOUS
    <3>1. D(k + 1) = D(k) - 1 /\ k + 1 \in k .. j /\ D(k) \in Int
      BY <1>1, <1>7, Depths
    <3> QED
      BY <1>5, <3>1
  <2> HIDE DEF D
  <2>2. \A l \in i .. j - 1 : l \in i .. m - 1
    BY <1>7, <2>1
  <2>3. \A l \in i .. j : D(l) = D(i)
    BY <1>3, <1>7, <2>1
  <2>3a. D(i) \in Int /\ j \in i .. j
    BY <1>1, <1>2
  <2>4. D(j) = D(i) /\ \A l \in i .. j : D(l) >= D(i)
    BY <2>3, <2>3a
  <2>5. \A l \in i .. j - 1 : Kind(t, l) = "word" /\ Kind(t, l) \notin {Ends, Opens}
    BY <1>4, <2>2, MarksNamed
  <2> QED
    BY <1>1, <1>7, <2>1, <2>4, <2>5 DEF Shaped, D
<1>8. CASE m < k - 1 /\ Kind(t, m) = Opens /\ Kind(t, k - 1) = Closes /\ Shaped(t, m + 1, k - 1)
  <2>0. Kind(t, m) \in Marks /\ Kind(t, m) # "word" /\ Kind(t, k - 1) \in Marks /\ Kind(t, k - 1) # "word"
        /\ Kind(t, k - 1) \notin {Ends, Opens}
    BY <1>8, MarksNamed
  <2>1. /\ m + 1 <= k - 1
        /\ \A l \in m + 1 .. k - 1 - 1 : Kind(t, l) \in Marks \cup {"word"}
        /\ \A l \in m + 1 .. k - 1 - 1 : Kind(t, l) \in {Ends, Opens} => l > m + 1 /\ Kind(t, l - 1) = "word"
        /\ \A l \in m + 1 .. k - 1 : D(l) >= D(m + 1)
        /\ D(k - 1) = D(m + 1)
    BY <1>8 DEF Shaped
  <2>2. D(m + 1) = D(m) + 1 /\ D(m) = D(i)
    BY <1>1, <1>3, <1>8, Depths
  <2>3. D(k) = D(k - 1) - 1
    <3>1. k - 1 \in Nat \ {0} /\ k - 1 + 1 = k
      BY <1>1
    <3>2. D(k - 1 + 1) = D(k - 1) - 1
      BY <1>8, <3>1, Depths
    <3> QED
      BY <3>1, <3>2
  <2> HIDE DEF D
  <2>4. D(i) \in Int /\ D(m + 1) = D(i) + 1 /\ D(k) = D(i)
    <3>1. D(i) \in Int /\ D(k - 1) = D(i) + 1
      BY <1>1, <1>2, <2>1, <2>2
    <3> QED
      BY <2>2, <2>3, <3>1
  <2>5. \A l \in i .. j - 1 : l \in i .. m - 1 \/ l = m \/ l \in m + 1 .. k - 1 - 1 \/ l = k - 1 \/ l \in k .. j - 1
    BY <1>1, <1>8
  <2>6. \A l \in i .. j : l \in i .. m \/ l \in m + 1 .. k - 1 \/ l \in k .. j
    BY <1>1, <1>8
  <2>7. \A l \in i .. j - 1 : Kind(t, l) \in Marks \cup {"word"}
    BY <1>4, <1>5, <2>0, <2>1, <2>5
  <2>8. ASSUME NEW l \in i .. j - 1, Kind(t, l) \in {Ends, Opens}
        PROVE  l > i /\ Kind(t, l - 1) = "word"
    <3>1. CASE l \in i .. m - 1
      BY <1>4, <2>8, <3>1, MarksNamed
    <3>2. CASE l = m
      BY <1>1, <1>4, <3>2
    <3>3. CASE l \in m + 1 .. k - 1 - 1
      BY <1>1, <2>1, <2>8, <3>3
    <3>4. CASE l = k - 1
      BY <2>0, <2>8, <3>4
    <3>5. CASE l \in k .. j - 1
      BY <1>1, <1>5, <2>8, <3>5
    <3> QED
      BY <2>5, <3>1, <3>2, <3>3, <3>4, <3>5
  <2>9. ASSUME NEW l \in i .. j PROVE D(l) >= D(i)
    <3>1. CASE l \in i .. m
      BY <1>3, <2>4, <3>1
    <3>2. CASE l \in m + 1 .. k - 1
      <4>0. l \in Nat \ {0}
        BY <1>1, <3>2
      <4>1. D(l) >= D(m + 1) /\ D(l) \in Int
        BY <1>2, <2>1, <3>2, <4>0
      <4> QED
        BY <2>4, <4>1
    <3>3. CASE l \in k .. j
      BY <1>5, <2>4, <3>3
    <3> QED
      BY <2>6, <3>1, <3>2, <3>3
  <2>10. Kind(t, j - 1) = "word" => j <= Len(t) /\ Kind(t, j) = Closes
    <3>1. k = j \/ k < j
      BY <1>1
    <3> QED
      BY <1>5, <2>0, <3>1
  <2> QED
    BY <1>1, <1>5, <2>4, <2>7, <2>8, <2>9, <2>10 DEF Shaped, D
<1> QED
  BY <1>6, <1>7, <1>8 DEF Stated

\* A block that is not empty is a statement and a block.
LEMMA ShapedSplit ==
  ASSUME NEW t, Len(t) \in Nat, NEW i \in Nat \ {0}, NEW j \in 1 .. Len(t) + 1,
         i # j, Shaped(t, i, j)
  PROVE  \E k \in i + 1 .. j : (\E m \in i + 1 .. k : Stated(t, i, m, k)) /\ Shaped(t, k, j)
<1> DEFINE D(l) == DepthAt(t, l)
<1>1. /\ i < j
      /\ \A l \in i .. j - 1 : Kind(t, l) \in Marks \cup {"word"}
      /\ \A l \in i .. j - 1 : Kind(t, l) \in {Ends, Opens} => l > i /\ Kind(t, l - 1) = "word"
      /\ \A l \in i .. j : D(l) >= D(i)
      /\ D(j) = D(i)
      /\ Kind(t, j - 1) = "word" => j <= Len(t) /\ Kind(t, j) = Closes
  BY DEF Shaped
<1>2. \A l \in Nat \ {0} : D(l) \in Int
  BY Depths
<1>3. Kind(t, i) = "word"
  <2>1. i \in i .. j - 1 /\ ~(i > i) /\ i + 1 \in i .. j
    BY <1>1
  <2>2. Kind(t, i) \notin {Ends, Opens}
    BY <1>1, <2>1
  <2>3. Kind(t, i) # Closes
    <3> SUFFICES ASSUME Kind(t, i) = Closes PROVE FALSE
      OBVIOUS
    <3>1. D(i + 1) = D(i) - 1 /\ D(i) \in Int
      BY Depths
    <3> QED
      BY <1>1, <2>1, <3>1
  <2> QED
    BY <1>1, <2>1, <2>2, <2>3, MarksNamed
<1> DEFINE W == {m \in i + 1 .. j : m = j \/ Kind(t, m) # "word"}
<1>4. W \subseteq Nat /\ j \in W
  BY <1>1
<1>5. PICK m \in W : \A l \in W : m <= l
  <2> HIDE DEF W
  <2> QED
    BY <1>4, LeastNumber
<1>6. m \in i + 1 .. j /\ (m = j \/ Kind(t, m) # "word")
  BY <1>5
<1>7. \A l \in i .. m - 1 : Kind(t, l) = "word"
  <2> TAKE l \in i .. m - 1
  <2>1. CASE l = i
    BY <1>3, <2>1
  <2>2. CASE l # i
    <3>1. l \in i + 1 .. j /\ ~(m <= l) /\ l # j
      BY <1>6, <2>2
    <3>2. l \notin W
      BY <1>5, <3>1
    <3> QED
      BY <3>1, <3>2
  <2> QED
    BY <2>1, <2>2
<1> HIDE DEF W
<1>8. D(m) = D(i) /\ D(i) \in Int /\ m \in Nat \ {0}
  <2>1. i <= m /\ m \in Nat \ {0} /\ m \in i .. m
    BY <1>6
  <2>2. DepthAt(t, m) = DepthAt(t, i)
    BY <1>7, <2>1, WordsFlat
  <2> QED
    BY <1>2, <2>1, <2>2
<1>9. CASE m = j
  <2>1. m - 1 \in i .. m - 1 /\ j \in i + 1 .. j
    BY <1>6
  <2>2. Kind(t, j - 1) = "word"
    BY <1>7, <1>9, <2>1
  <2>3. Stated(t, i, m, j)
    BY <1>1, <1>7, <1>9, <2>2 DEF Stated
  <2>4. Shaped(t, j, j)
    BY ShapedEmpty
  <2> QED
    BY <1>6, <2>1, <2>3, <2>4
<1>10. ASSUME m # j, Kind(t, m) = Ends
       PROVE  \E k \in i + 1 .. j : (\E n \in i + 1 .. k : Stated(t, i, n, k)) /\ Shaped(t, k, j)
  <2> DEFINE k == m + 1
  <2>1. k \in i + 1 .. j /\ m \in i + 1 .. k /\ m = k - 1 /\ i < m
    BY <1>1, <1>6, <1>10
  <2>2. Stated(t, i, m, k)
    BY <1>7, <1>10, <2>1 DEF Stated
  <2>3. D(k) = D(i)
    <3>1. Kind(t, m) \notin {Opens, Closes}
      BY <1>10, MarksNamed
    <3> QED
      BY <1>8, <3>1, Depths
  <2>4. Kind(t, k - 1) # "word"
    BY <1>10, <2>1, MarksNamed
  <2> HIDE DEF k, D
  <2>5. Shaped(t, k, j)
    <3>1. \A l \in k .. j - 1 : l \in i .. j - 1
      BY <2>1
    <3>2. \A l \in k .. j : l \in i .. j
      BY <2>1
    <3>3. ASSUME NEW l \in k .. j - 1, Kind(t, l) \in {Ends, Opens}
          PROVE  l > k /\ Kind(t, l - 1) = "word"
      <4>1. Kind(t, l - 1) = "word"
        BY <1>1, <3>1, <3>3
      <4>2. l # k
        BY <2>4, <4>1
      <4> QED
        BY <2>1, <4>1, <4>2
    <3>4. k <= j /\ (k < j /\ Kind(t, j - 1) = "word" => j <= Len(t) /\ Kind(t, j) = Closes)
      BY <1>1, <2>1
    <3>5. D(j) = D(k) /\ \A l \in k .. j : D(l) >= D(k)
      BY <1>1, <2>3, <3>2
    <3>6. \A l \in k .. j - 1 : Kind(t, l) \in Marks \cup {"word"}
      BY <1>1, <3>1
    <3> QED
      BY <3>3, <3>4, <3>5, <3>6 DEF Shaped, D
  <2> QED
    BY <2>1, <2>2, <2>5
<1>11. ASSUME m # j, Kind(t, m) = Opens
       PROVE  \E k \in i + 1 .. j : (\E n \in i + 1 .. k : Stated(t, i, n, k)) /\ Shaped(t, k, j)
  <2>1. D(m + 1) = D(i) + 1
    BY <1>8, <1>11, Depths
  <2> HIDE DEF D
  <2> DEFINE E == {k \in m + 2 .. j : D(k) = D(i)}
  <2>2. E \subseteq Nat /\ j \in E
    <3>1. m + 1 # j
      BY <1>1, <1>8, <2>1
    <3> QED
      BY <1>1, <1>6, <1>11, <3>1
  <2>3. PICK k \in E : \A l \in E : k <= l
    <3> HIDE DEF E
    <3> QED
      BY <2>2, LeastNumber
  <2>4. k \in m + 2 .. j /\ D(k) = D(i)
    BY <2>3
  <2>4a. /\ k \in i + 1 .. j /\ m \in i + 1 .. k /\ m < k - 1 /\ i < m /\ k - 1 \in Nat \ {0} /\ k - 1 + 1 = k
         /\ k - 1 \in m + 1 .. k - 1 /\ k - 1 \in i .. j - 1 /\ m + 1 <= k - 1 /\ m \in Nat /\ k \in Nat
    BY <1>6, <2>4
  <2>5. ASSUME NEW l \in m + 1 .. k - 1 PROVE D(l) >= D(m + 1)
    <3>1. l \in i .. j /\ l \in Nat \ {0}
      BY <1>6, <2>4
    <3>2. D(l) \in Int /\ D(l) >= D(i)
      BY <1>1, <1>2, <3>1
    <3>3. D(l) # D(i)
      <4>1. CASE l = m + 1
        BY <1>8, <2>1, <4>1
      <4>2. CASE l # m + 1
        <5>1. l \in m + 2 .. j /\ ~(k <= l)
          <6>1. k <= j /\ k \in Nat /\ m \in Nat /\ j \in Nat
            BY <2>4, <2>4a
          <6>2. l >= m + 1 /\ l <= k - 1 /\ l \in Nat
            BY <6>1
          <6> HIDE DEF E, W
          <6> QED
            BY <4>2, <6>1, <6>2
        <5>2. l \notin E
          BY <2>3, <5>1
        <5> QED
          BY <5>1, <5>2
      <4> QED
        BY <4>1, <4>2
    <3> QED
      BY <1>8, <2>1, <3>2, <3>3
  <2> HIDE DEF E
  <2>6. Kind(t, k - 1) = Closes /\ D(k - 1) = D(k) + 1
    <3>1. D(k - 1) >= D(i) + 1 /\ D(k - 1) \in Int
      BY <1>2, <2>1, <2>4a, <2>5
    <3>2. Kind(t, k - 1) # Opens /\ (Kind(t, k - 1) \notin {Opens, Closes} => FALSE)
      <4>1. /\ Kind(t, k - 1) = Opens => D(k - 1 + 1) = D(k - 1) + 1
            /\ Kind(t, k - 1) \notin {Opens, Closes} => D(k - 1 + 1) = D(k - 1)
        BY <2>4a, Depths DEF D
      <4>2. D(k - 1 + 1) = D(i)
        BY <2>4, <2>4a
      <4> QED
        BY <1>8, <3>1, <4>1, <4>2
    <3>3. Kind(t, k - 1) = Closes
      BY <3>2
    <3>4. D(k - 1 + 1) = D(k - 1) - 1
      BY <2>4a, <3>3, Depths DEF D
    <3>5. D(k) = D(k - 1) - 1
      BY <2>4a, <3>4
    <3> QED
      BY <3>1, <3>3, <3>5
  <2>7. Shaped(t, m + 1, k - 1)
    <3>1. \A l \in m + 1 .. k - 1 - 1 : l \in i .. j - 1 /\ l \in Nat
      BY <1>6, <2>4
    <3>3. ASSUME NEW l \in m + 1 .. k - 1 - 1, Kind(t, l) \in {Ends, Opens}
          PROVE  l > m + 1 /\ Kind(t, l - 1) = "word"
      <4>1. Kind(t, l - 1) = "word"
        BY <1>1, <3>1, <3>3
      <4>2. l # m + 1
        <5> SUFFICES ASSUME l = m + 1 PROVE FALSE
          OBVIOUS
        <5>1. l - 1 = m
          BY <1>8
        <5> QED
          BY <1>11, <4>1, <5>1, MarksNamed
      <4> QED
        BY <1>8, <4>1, <4>2
    <3>4. k - 1 <= Len(t) /\ Kind(t, k - 1) = Closes /\ m + 1 <= k - 1
      BY <2>4a, <2>6
    <3>5. D(k - 1) = D(m + 1) /\ \A l \in m + 1 .. k - 1 : D(l) >= D(m + 1)
      BY <2>1, <2>4, <2>5, <2>6
    <3>6. \A l \in m + 1 .. k - 1 - 1 : Kind(t, l) \in Marks \cup {"word"}
      BY <1>1, <3>1
    <3> QED
      BY <3>3, <3>4, <3>5, <3>6 DEF Shaped, D
  <2>8. Stated(t, i, m, k)
    BY <1>7, <1>11, <2>4a, <2>6, <2>7 DEF Stated
  <2>9. Shaped(t, k, j)
    <3>0. Kind(t, k - 1) # "word"
      BY <2>6, MarksNamed
    <3>1. \A l \in k .. j - 1 : l \in i .. j - 1 /\ l \in Nat
      BY <2>4a
    <3>2. \A l \in k .. j : l \in i .. j
      BY <2>4a
    <3>3. ASSUME NEW l \in k .. j - 1, Kind(t, l) \in {Ends, Opens}
          PROVE  l > k /\ Kind(t, l - 1) = "word"
      <4>1. Kind(t, l - 1) = "word"
        BY <1>1, <3>1, <3>3
      <4>2. l # k
        BY <3>0, <4>1
      <4> QED
        BY <2>4a, <4>1, <4>2
    <3>4. k <= j /\ (k < j /\ Kind(t, j - 1) = "word" => j <= Len(t) /\ Kind(t, j) = Closes)
      BY <1>1, <2>4a
    <3>5. D(j) = D(k) /\ \A l \in k .. j : D(l) >= D(k)
      BY <1>1, <2>4, <3>2
    <3>6. \A l \in k .. j - 1 : Kind(t, l) \in Marks \cup {"word"}
      BY <1>1, <3>1
    <3> QED
      BY <3>3, <3>4, <3>5, <3>6 DEF Shaped, D
  <2> QED
    BY <2>4a, <2>8, <2>9
<1>12. m # j => Kind(t, m) # Closes
  <2> SUFFICES ASSUME m # j, Kind(t, m) = Closes PROVE FALSE
    OBVIOUS
  <2>1. D(m + 1) = D(i) - 1
    BY <1>8, Depths
  <2>2. m + 1 \in i .. j
    BY <1>6
  <2> QED
    BY <1>1, <1>8, <2>1, <2>2
<1>13. m # j => Kind(t, m) \in {Ends, Opens}
  <2> SUFFICES ASSUME m # j PROVE Kind(t, m) \in {Ends, Opens}
    OBVIOUS
  <2>1. m \in i .. j - 1
    BY <1>6
  <2> QED
    BY <1>1, <1>6, <1>12, <2>1, MarksNamed
<1> QED
  BY <1>9, <1>10, <1>11, <1>13

LEMMA StatementIs ==
  ASSUME NEW t, NEW f, NEW i, NEW k
  PROVE  IsStatement(t, f, i, k) <=>
           \E m \in i + 1 .. k :
             /\ i < m /\ \A l \in i .. m - 1 : Kind(t, l) = "word"
             /\ \/ m = k - 1 /\ Kind(t, m) = Ends
                \/ m = k /\ k <= Len(t) /\ Kind(t, k) = Closes
                \/ m < k - 1 /\ Kind(t, m) = Opens /\ Kind(t, k - 1) = Closes /\ f[<<m + 1, k - 1>>]
BY Zenon DEF IsStatement, IsWords, Kind, Ends, Closes, Opens

\* A block by the grammar, of those inside it.
Recursive(t, f, i, j) ==
  \/ i = j
  \/ \E k \in i + 1 .. j : IsStatement(t, f, i, k) /\ f[<<k, j>>]

Places(t) == 1 .. Len(t) + 1
IsGrammar(t, f) ==
  f = [p \in Places(t) \X Places(t) |-> Recursive(t, f, p[1], p[2])]

\* What a statement is depends on shorter blocks only.
LEMMA StatementShaped ==
  ASSUME NEW t, Len(t) \in Nat, NEW f, NEW i \in Places(t), NEW k \in Places(t),
         \A a \in Places(t), b \in Places(t) : a > i /\ b < k => (f[<<a, b>>] <=> Shaped(t, a, b))
  PROVE  IsStatement(t, f, i, k) <=> \E m \in i + 1 .. k : Stated(t, i, m, k)
<1>1. ASSUME NEW m \in i + 1 .. k, m < k - 1
      PROVE  f[<<m + 1, k - 1>>] <=> Shaped(t, m + 1, k - 1)
  <2>1. m + 1 \in Places(t) /\ k - 1 \in Places(t) /\ m + 1 > i /\ k - 1 < k
    BY <1>1 DEF Places
  <2> QED
    BY <2>1
<1>2. ASSUME NEW m \in i + 1 .. k
      PROVE  Stated(t, i, m, k) <=>
               /\ i < m /\ \A l \in i .. m - 1 : Kind(t, l) = "word"
               /\ \/ m = k - 1 /\ Kind(t, m) = Ends
                  \/ m = k /\ k <= Len(t) /\ Kind(t, k) = Closes
                  \/ m < k - 1 /\ Kind(t, m) = Opens /\ Kind(t, k - 1) = Closes /\ f[<<m + 1, k - 1>>]
  BY <1>1, Zenon DEF Stated
<1> QED
  BY <1>2, StatementIs, Zenon

LEMMA RecursiveShaped ==
  ASSUME NEW t, Len(t) \in Nat, NEW f, NEW i \in Places(t), NEW j \in Places(t),
         \A a \in Places(t), b \in Places(t) : a > i /\ b <= j => (f[<<a, b>>] <=> Shaped(t, a, b))
  PROVE  Recursive(t, f, i, j) <=> Shaped(t, i, j)
<1>0. i \in Nat \ {0} /\ j \in 1 .. Len(t) + 1 /\ i \in Nat /\ j \in Nat
  BY DEF Places
<1>1. ASSUME NEW k \in i + 1 .. j
      PROVE  /\ k \in Places(t) /\ (f[<<k, j>>] <=> Shaped(t, k, j))
             /\ IsStatement(t, f, i, k) <=> \E m \in i + 1 .. k : Stated(t, i, m, k)
  <2>1. k \in Places(t) /\ k > i /\ k <= j /\ j <= j /\ k \in Nat
    BY <1>0 DEF Places
  <2>2. ASSUME NEW a \in Places(t), NEW b \in Places(t), a > i, b < k
        PROVE  f[<<a, b>>] <=> Shaped(t, a, b)
    <3>1. b <= j
      BY <1>0, <2>1, <2>2 DEF Places
    <3> QED
      BY <2>2, <3>1
  <2>3. IsStatement(t, f, i, k) <=> \E m \in i + 1 .. k : Stated(t, i, m, k)
    BY <2>1, <2>2, StatementShaped
  <2> QED
    BY <2>1, <2>3
<1>2. CASE i = j
  BY <1>0, <1>2, ShapedEmpty DEF Recursive
<1>3. CASE i # j
  <2>1. Shaped(t, i, j) =>
          \E k \in i + 1 .. j : (\E m \in i + 1 .. k : Stated(t, i, m, k)) /\ Shaped(t, k, j)
    BY <1>0, <1>3, ShapedSplit
  <2>2. ASSUME NEW k \in i + 1 .. j, \E m \in i + 1 .. k : Stated(t, i, m, k), Shaped(t, k, j)
        PROVE  Shaped(t, i, j)
    <3>1. PICK m \in i + 1 .. k : Stated(t, i, m, k)
      BY <2>2
    <3> QED
      BY <1>0, <2>2, <3>1, ShapedJoin
  <2>3. Recursive(t, f, i, j) <=>
          \E k \in i + 1 .. j : (\E m \in i + 1 .. k : Stated(t, i, m, k)) /\ Shaped(t, k, j)
    BY <1>1, <1>3, Zenon DEF Recursive
  <2> QED
    BY <2>1, <2>2, <2>3
<1> QED
  BY <1>2, <1>3

\* So the recursion has a solution, and only one.
LEMMA GrammarExists ==
  ASSUME NEW t, Len(t) \in Nat
  PROVE  \E f : IsGrammar(t, f)
<1> DEFINE f == [p \in Places(t) \X Places(t) |-> Shaped(t, p[1], p[2])]
<1>1. \A a \in Places(t), b \in Places(t) : f[<<a, b>>] = Shaped(t, a, b)
  OBVIOUS
<1>2. \A p \in Places(t) \X Places(t) : f[p] = Shaped(t, p[1], p[2]) /\ p[1] \in Places(t) /\ p[2] \in Places(t)
  OBVIOUS
<1>3. f = [p \in Places(t) \X Places(t) |-> f[p]]
  OBVIOUS
<1> HIDE DEF f
<1>4. ASSUME NEW p \in Places(t) \X Places(t)
      PROVE  f[p] = Recursive(t, f, p[1], p[2])
  <2>1. Recursive(t, f, p[1], p[2]) <=> Shaped(t, p[1], p[2])
    BY <1>1, <1>2, RecursiveShaped
  <2>2. Recursive(t, f, p[1], p[2]) \in BOOLEAN /\ Shaped(t, p[1], p[2]) \in BOOLEAN
    BY Zenon DEF Recursive, Shaped
  <2> QED
    BY <1>2, <2>1, <2>2
<1>5. [p \in Places(t) \X Places(t) |-> f[p]]
        = [p \in Places(t) \X Places(t) |-> Recursive(t, f, p[1], p[2])]
  BY <1>4, Zenon
<1> QED
  BY <1>3, <1>5 DEF IsGrammar

LEMMA BlockIs ==
  ASSUME NEW t, Len(t) \in Nat, NEW i \in Places(t), NEW j \in Places(t)
  PROVE  IsBlock(t)[<<i, j>>] <=> Shaped(t, i, j)
<1> DEFINE f == IsBlock(t)
           n == Len(t) + 1
           T == {m \in Nat : \A a \in Places(t), b \in Places(t) :
                               a >= n - m => (f[<<a, b>>] <=> Shaped(t, a, b))}
<1>1. f = CHOOSE g : IsGrammar(t, g)
  BY Zenon DEF IsBlock, IsGrammar, Places, Recursive
<1>2. IsGrammar(t, f)
  BY <1>1, GrammarExists, Zenon
<1> HIDE DEF f
<1>3. ASSUME NEW a \in Places(t), NEW b \in Places(t)
      PROVE  f[<<a, b>>] = Recursive(t, f, a, b)
  <2>1. <<a, b>> \in Places(t) \X Places(t) /\ <<a, b>>[1] = a /\ <<a, b>>[2] = b
    OBVIOUS
  <2>2. f = [p \in Places(t) \X Places(t) |-> Recursive(t, f, p[1], p[2])]
    BY <1>2 DEF IsGrammar
  <2> QED
    BY <2>1, <2>2
<1>4. ASSUME NEW m \in Nat, \A l \in 0 .. m - 1 : l \in T PROVE m \in T
  <2> SUFFICES ASSUME NEW a \in Places(t), NEW b \in Places(t), a >= n - m
               PROVE  f[<<a, b>>] <=> Shaped(t, a, b)
    OBVIOUS
  <2>1. ASSUME NEW c \in Places(t), NEW d \in Places(t), c > a
        PROVE  f[<<c, d>>] <=> Shaped(t, c, d)
    <3>1. m # 0
      BY <2>1 DEF Places
    <3>2. m - 1 \in 0 .. m - 1 /\ c >= n - (m - 1)
      <4>1. a \in Nat /\ c \in Nat /\ n \in Nat
        BY DEF Places
      <4> HIDE DEF n, T
      <4> QED
        BY <2>1, <3>1, <4>1
    <3>3. m - 1 \in T
      <4> HIDE DEF T
      <4> QED
        BY <1>4, <3>2
    <3> QED
      BY <3>2, <3>3
  <2> HIDE DEF T
  <2>2. Recursive(t, f, a, b) <=> Shaped(t, a, b)
    BY <2>1, RecursiveShaped
  <2> QED
    BY <1>3, <2>2
<1>5. n \in Nat /\ i >= n - n
  BY DEF Places
<1> HIDE DEF T
<1>6. n \in T
  BY <1>4, <1>5, Induction
<1>7. f[<<i, j>>] <=> Shaped(t, i, j)
  BY <1>5, <1>6 DEF T
<1> QED
  BY <1>7 DEF f

\* A configuration, over its tokens.
LEMMA ConfigIs ==
  ASSUME NEW t \in Seq(Token)
  PROVE  IsConfig(t) <=>
           /\ t # <<>>
           /\ \A k \in 1 .. Len(t) : Kind(t, k) \in Marks \cup {"word"}
           /\ \A k \in 1 .. Len(t) : Kind(t, k) \in {Ends, Opens} => k > 1 /\ Kind(t, k - 1) = "word"
           /\ \A k \in 1 .. Len(t) + 1 : DepthAt(t, k) >= 0
           /\ DepthAt(t, Len(t) + 1) = 0
           /\ Len(t) # 0 => Kind(t, Len(t)) # "word"
<1> DEFINE n == Len(t)
<1>1. n \in Nat
  OBVIOUS
<1>2. 1 \in Places(t) /\ n + 1 \in Places(t)
  BY <1>1 DEF Places
<1>3. IsConfig(t) <=> t # <<>> /\ Shaped(t, 1, n + 1)
  BY <1>1, <1>2, BlockIs DEF IsConfig
<1>4. n + 1 - 1 = n /\ 1 <= n + 1 /\ ~(n + 1 <= n) /\ (1 < n + 1 <=> n # 0)
  BY <1>1
<1>5. Shaped(t, 1, n + 1) <=>
        /\ \A k \in 1 .. n : Kind(t, k) \in Marks \cup {"word"}
        /\ \A k \in 1 .. n : Kind(t, k) \in {Ends, Opens} => k > 1 /\ Kind(t, k - 1) = "word"
        /\ \A k \in 1 .. n + 1 : DepthAt(t, k) >= 0
        /\ DepthAt(t, n + 1) = 0
        /\ n # 0 => Kind(t, n) # "word"
  <2> HIDE DEF n
  <2>1. Shaped(t, 1, n + 1) <=>
        /\ \A k \in 1 .. n : Kind(t, k) \in Marks \cup {"word"}
        /\ \A k \in 1 .. n : Kind(t, k) \in {Ends, Opens} => k > 1 /\ Kind(t, k - 1) = "word"
        /\ \A k \in 1 .. n + 1 : DepthAt(t, k) >= 0
        /\ DepthAt(t, n + 1) = 0
        /\ n # 0 /\ Kind(t, n) = "word" => n + 1 <= Len(t) /\ Kind(t, n + 1) = Closes
    <3>1. DepthAt(t, 1) = 0
      BY DepthStart
    <3> DEFINE j == n + 1
    <3>2. j - 1 = n /\ 1 <= j /\ (1 < j <=> n # 0)
      BY <1>1
    <3> HIDE DEF j
    <3>3. Shaped(t, 1, j) <=>
        /\ 1 <= j
        /\ \A k \in 1 .. j - 1 : Kind(t, k) \in Marks \cup {"word"}
        /\ \A k \in 1 .. j - 1 : Kind(t, k) \in {Ends, Opens} => k > 1 /\ Kind(t, k - 1) = "word"
        /\ \A k \in 1 .. j : DepthAt(t, k) >= DepthAt(t, 1)
        /\ DepthAt(t, j) = DepthAt(t, 1)
        /\ 1 < j /\ Kind(t, j - 1) = "word" => j <= Len(t) /\ Kind(t, j) = Closes
      BY DEF Shaped
    <3>4. Shaped(t, 1, j) <=>
        /\ \A k \in 1 .. n : Kind(t, k) \in Marks \cup {"word"}
        /\ \A k \in 1 .. n : Kind(t, k) \in {Ends, Opens} => k > 1 /\ Kind(t, k - 1) = "word"
        /\ \A k \in 1 .. j : DepthAt(t, k) >= 0
        /\ DepthAt(t, j) = 0
        /\ n # 0 /\ Kind(t, n) = "word" => j <= Len(t) /\ Kind(t, j) = Closes
      BY <3>1, <3>2, <3>3
    <3> QED
      BY <3>4 DEF j
  <2>2. ~(n + 1 <= Len(t))
    BY <1>4 DEF n
  <2> QED
    BY <2>1, <2>2
<1> QED
  BY <1>3, <1>5

LEMMA DepthsTaken ==
  ASSUME PInv
  PROVE  /\ \A k \in 1 .. Done : Kind(Toks, k) \in Marks \cup {"word"}
         /\ \A k \in 1 .. Done : Kind(Toks, k) \in {Ends, Opens} => k > 1 /\ Kind(Toks, k - 1) = "word"
         /\ \A k \in 1 .. Done : DepthAt(Toks, k) >= 0
         /\ Done # 0 => last = Kind(Toks, Done)
BY FollowedNow DEF PInv, Followed, Fits, Kind

LEMMA EndLeft == ASSUME token = "eof" PROVE Left = <<>>
BY DEF Left, Pending, Behind, Types, Marks

\* An accepted text is a configuration.
LEMMA AcceptedConfig == ASSUME PInv, status = "accepted" PROVE IsConfig(Toks)
<1>1. token = "eof" /\ last \in {Ends, Closes} /\ depth = 0
  BY MarksNamed DEF PInv, Outcome
<1>2. Left = <<>>
  BY <1>1, EndLeft
<1>3. Done = Len(Toks)
  BY <1>2, FollowedNow
<1>4. Done # 0 /\ last = Kind(Toks, Done) /\ last # "word"
  BY <1>1, FollowedNow, DepthsTaken, MarksNamed
<1>5. \A k \in 1 .. Len(Toks) + 1 : DepthAt(Toks, k) >= 0
  <2> TAKE k \in 1 .. Len(Toks) + 1
  <2>1. CASE k = Done + 1
    BY <1>1, <2>1, FollowedNow
  <2>2. CASE k # Done + 1
    <3>1. k \in 1 .. Done
      BY <1>3, <2>2, FollowedNow
    <3> QED
      BY <3>1, DepthsTaken
  <2> QED
    BY <2>1, <2>2
<1>6. DepthAt(Toks, Len(Toks) + 1) = 0
  BY <1>1, <1>3, FollowedNow
<1>7. Toks # <<>> /\ Toks \in Seq(Token)
  BY <1>3, <1>4, FollowedNow
<1> QED
  BY <1>3, <1>4, <1>5, <1>6, <1>7, DepthsTaken, ConfigIs

\* What is rejected, or derails Parse, is none.
LEMMA OtherwiseNone ==
  ASSUME PInv, status \in {"rejected", "undefined"}
  PROVE  ~IsConfig(Toks)
<1> DEFINE t == Toks
           d == Done
           n == Len(t)
<1> SUFFICES ASSUME /\ t # <<>>
                    /\ \A k \in 1 .. n : Kind(t, k) \in Marks \cup {"word"}
                    /\ \A k \in 1 .. n : Kind(t, k) \in {Ends, Opens} => k > 1 /\ Kind(t, k - 1) = "word"
                    /\ \A k \in 1 .. n + 1 : DepthAt(t, k) >= 0
                    /\ DepthAt(t, n + 1) = 0
                    /\ n # 0 => Kind(t, n) # "word"
             PROVE  FALSE
  BY FollowedNow, ConfigIs
<1>1. /\ t \in Seq(Token) /\ d \in 0 .. n /\ n \in Nat
      /\ last = IF d = 0 THEN "start" ELSE Kind(t, d)
      /\ last \in Marks \cup {"word", "start"}
      /\ depth = DepthAt(t, d + 1)
  BY FollowedNow DEF Kind
<1>2. token \in Types => d + 1 \in 1 .. n /\ Kind(t, d + 1) = token
  BY StoppedAt
<1>3. token = "eof" => d = n
  <2> SUFFICES ASSUME token = "eof" PROVE d = n
    OBVIOUS
  <2> QED
    BY EndLeft, FollowedNow
<1>4. \A k \in 1 .. d : Kind(t, k) \in Marks \cup {"word"} /\ DepthAt(t, k) >= 0
  BY DepthsTaken
<1> HIDE DEF t, d, n
<1>5. token # "error"
  <2> SUFFICES ASSUME token = "error" PROVE FALSE
    OBVIOUS
  <2> QED
    BY <1>2, MarksNamed DEF Types
<1>6. ~(token = "eof" /\ ~Complete)
  <2> SUFFICES ASSUME token = "eof", ~Complete PROVE FALSE
    OBVIOUS
  <2>1. d = n /\ depth = 0 /\ n # 0
    <3>1. n # 0
      BY <1>1 DEF n
    <3> QED
      BY <1>1, <1>3, <3>1
  <2>2. last = Opens
    BY <1>1, <2>1, MarksNamed
  <2>3. n \in Nat \ {0} /\ n \in 1 .. d /\ Kind(t, n) = Opens
    BY <1>1, <2>1, <2>2
  <2>4. DepthAt(t, n + 1) = DepthAt(t, n) + 1 /\ DepthAt(t, n) \in Int /\ DepthAt(t, n) >= 0
    BY <1>4, <2>3, Depths
  <2> QED
    BY <2>4
<1>7. ASSUME token \in {Ends, Opens} PROVE last = "word"
  <2>1. d + 1 \in 1 .. n /\ Kind(t, d + 1) = token /\ d + 1 - 1 = d
    BY <1>1, <1>2, <1>7, MarksNamed DEF Types
  <2>2. d # 0 /\ Kind(t, d) = "word"
    <3> DEFINE e == d + 1
    <3>0. e \in 1 .. n /\ Kind(t, e) \in {Ends, Opens}
      BY <1>7, <2>1
    <3>1. e - 1 = d
      BY <1>1
    <3> HIDE DEF e
    <3>2. e > 1 /\ Kind(t, e - 1) = "word"
      BY <3>0
    <3> QED
      BY <1>1, <3>0, <3>1, <3>2
  <2> QED
    BY <1>1, <2>2
<1>8. ASSUME token = Closes PROVE last # "start"
  <2> SUFFICES ASSUME last = "start" PROVE FALSE
    OBVIOUS
  <2>1. d = 0 /\ d + 1 \in 1 .. n /\ Kind(t, d + 1) = Closes
    <3>1. d # 0 => Kind(t, d) # "start"
      BY <1>1, <1>4, MarksNamed
    <3> QED
      BY <1>1, <1>2, <1>8, <3>1, MarksNamed DEF Types
  <2>2. Kind(t, 1) = Closes /\ 1 \in 1 .. n
    BY <2>1
  <2>3. DepthAt(t, 1 + 1) = DepthAt(t, 1) - 1 /\ DepthAt(t, 1) = 0
    BY <2>2, Depths, DepthStart
  <2>4. 1 + 1 \in 1 .. n + 1
    BY <1>1, <2>2
  <2> QED
    BY <2>3, <2>4
<1>9. ~(token \in {"word", Closes} /\ depth < 0)
  <2> SUFFICES ASSUME token \in {"word", Closes}, depth < 0 PROVE FALSE
    OBVIOUS
  <2>1. d + 1 \in 1 .. n
    BY <1>2, MarksNamed DEF Types
  <2>2. d + 1 \in 1 .. n + 1
    BY <1>1, <2>1
  <2> QED
    BY <1>1, <2>2, FollowedNow
<1> QED
  BY <1>1, <1>5, <1>6, <1>7, <1>8, <1>9, MarksNamed DEF PInv, Outcome

LEMMA Decided == PInv => AcceptedIffConfig
BY AcceptedConfig, OtherwiseNone DEF AcceptedIffConfig, PInv, Outcome, Toks

\* Parse returns true exactly for the texts whose tokens are a configuration by the
\* grammar: what last_token_type and the counters of braces let through is neither
\* more nor less, whatever the nesting.
THEOREM AcceptedAreConfigs == Spec => []AcceptedIffConfig
<1>1. PInv => AcceptedIffConfig
  BY Decided
<1> QED
  BY <1>1, InitPInv, NextFollows, PTL DEF Spec

----------------------------------------------------------------------------
(* Where the statements come from: at[<<b, i>>] is the place of the first  *)
(* word of statement i of block b.                                         *)

WordsOf(b, i) == blocks[b][i].words
ChildOf(b, i) == blocks[b][i].child
\* The place behind its words.
EndOf(at, b, i) == at[<<b, i>>] + Len(WordsOf(b, i))

Starts(t, p) == Kind(t, p) = "word" /\ (p = 1 \/ Kind(t, p - 1) # "word")

\* Its words, and whether a block is behind them, once there is something behind them;
\* at most one statement can go on.
Worded(at, b, i) ==
  /\ at[<<b, i>>] \in 1 .. Done /\ Starts(Toks, at[<<b, i>>])
  /\ \A k \in 1 .. Len(WordsOf(b, i)) : Toks[at[<<b, i>>] + k - 1] = WordToken(WordsOf(b, i)[k])
  /\ EndOf(at, b, i) <= Done + 1
  /\ EndOf(at, b, i) <= Done =>
       /\ Kind(Toks, EndOf(at, b, i)) # "word"
       /\ Kind(Toks, EndOf(at, b, i)) = Opens <=> ChildOf(b, i) # 0
  /\ EndOf(at, b, i) = Done + 1 => last = "word" /\ b = Top /\ i = Len(blocks[b]) /\ ChildOf(b, i) = 0

\* From behind the opening brace at e of a statement at p up to q, it is not closed.
Within(p, e, q) == q > e /\ \A m \in e + 1 .. q : DepthAt(Toks, m) > DepthAt(Toks, p)

\* Its block has what is between its braces.
Nested(at, b, i) ==
  ChildOf(b, i) # 0 =>
    /\ \A j \in DOMAIN blocks[ChildOf(b, i)] :
         /\ Within(at[<<b, i>>], EndOf(at, b, i), at[<<ChildOf(b, i), j>>])
         /\ DepthAt(Toks, at[<<ChildOf(b, i), j>>]) = DepthAt(Toks, at[<<b, i>>]) + 1
    /\ \A k \in DOMAIN stack : stack[k] = ChildOf(b, i) =>
         /\ Within(at[<<b, i>>], EndOf(at, b, i), Done + 1)
         /\ DepthAt(Toks, at[<<b, i>>]) = k - 2

Placed(at) ==
  /\ \A b \in DOMAIN blocks : \A i \in DOMAIN blocks[b] : Worded(at, b, i) /\ Nested(at, b, i)
  /\ \A i \in DOMAIN blocks[1] : DepthAt(Toks, at[<<1, i>>]) = 0
  /\ \A p \in 1 .. Done : Starts(Toks, p) =>
       \E b \in DOMAIN blocks : \E i \in DOMAIN blocks[b] : at[<<b, i>>] = p
  /\ last = "word" =>
       stack # <<>> /\ blocks[Top] # <<>> /\ EndOf(at, Top, Len(blocks[Top])) = Done + 1
  /\ \A k \in DOMAIN stack : k > 1 => stack[k] # 1

\* Every block but the caller's is a statement's.
Owned ==
  /\ 1 \in DOMAIN blocks
  /\ \A c \in DOMAIN blocks : c # 1 =>
       \E b \in DOMAIN blocks : \E i \in DOMAIN blocks[b] : ChildOf(b, i) = c

Spots == [Nat \X Nat -> Nat]
PlacedInv == PInv /\ Owned /\ \E at \in Spots : Placed(at)

LEMMA StatementIs1 ==
  ASSUME PInv, NEW b \in DOMAIN blocks, NEW i \in DOMAIN blocks[b]
  PROVE  /\ b \in Nat /\ i \in Nat /\ blocks[b] \in Seq(StatementSet) /\ blocks[b][i] \in StatementSet
         /\ WordsOf(b, i) \in Seq(WordSet) /\ Len(WordsOf(b, i)) \in Nat /\ Len(WordsOf(b, i)) > 0
         /\ ChildOf(b, i) \in Nat /\ (ChildOf(b, i) # 0 => ChildOf(b, i) \in b + 1 .. Len(blocks))
<1>1. blocks \in Seq(Seq(StatementSet))
  BY DEF PInv, CInv, IInv, Typed
<1>2. blocks[b] \in Seq(StatementSet) /\ b \in Nat
  BY <1>1
<1>3. blocks[b][i] \in StatementSet /\ i \in Nat
  BY <1>2
<1>4. WordsOf(b, i) \in Seq(WordSet) /\ ChildOf(b, i) \in Nat
  BY <1>3 DEF StatementSet, WordsOf, ChildOf
<1>5. WordsOf(b, i) # <<>> /\ (ChildOf(b, i) # 0 => ChildOf(b, i) \in b + 1 .. Len(blocks))
  BY DEF PInv, CInv, IInv, HasWords, WordsOf, ChildOf
<1> QED
  BY <1>2, <1>3, <1>4, <1>5

\* A statement that a token does not touch.
LEMMA KeepsWorded ==
  ASSUME NEW at, NEW to, NEW b, NEW i, Worded(at, b, i), at[<<b, i>>] \in Nat,
         Len(WordsOf(b, i)) \in Nat, EndOf(at, b, i) <= Done,
         to[<<b, i>>] = at[<<b, i>>], WordsOf(b, i)' = WordsOf(b, i), ChildOf(b, i)' = ChildOf(b, i),
         Toks' = Toks, Done \in Nat, Done' = Done + 1
  PROVE  Worded(to, b, i)'
<1> DEFINE e == EndOf(at, b, i)
           n == Done
<1>1. EndOf(to, b, i)' = e /\ e \in Nat
  BY DEF EndOf
<1>2. Done' = n + 1 /\ n \in Nat /\ e <= n
  OBVIOUS
<1>3. /\ at[<<b, i>>] \in 1 .. n /\ Starts(Toks, at[<<b, i>>])
      /\ \A k \in 1 .. Len(WordsOf(b, i)) : Toks[at[<<b, i>>] + k - 1] = WordToken(WordsOf(b, i)[k])
      /\ Kind(Toks, e) # "word" /\ (Kind(Toks, e) = Opens <=> ChildOf(b, i) # 0)
  BY DEF Worded
<1> HIDE DEF e, n
<1>4. at[<<b, i>>] \in 1 .. n + 1 /\ e <= n + 1 /\ e <= n + 1 + 1 /\ e # n + 1 + 1
  BY <1>1, <1>2, <1>3
<1> QED
  BY <1>1, <1>2, <1>3, <1>4 DEF Worded

\* The one that goes on, and something else comes.
LEMMA EndsWorded ==
  ASSUME NEW at, NEW b, NEW i, Worded(at, b, i), at[<<b, i>>] \in Nat,
         Len(WordsOf(b, i)) \in Nat, EndOf(at, b, i) = Done + 1,
         WordsOf(b, i)' = WordsOf(b, i), Toks' = Toks, Done \in Nat, Done' = Done + 1,
         Kind(Toks, Done + 1) # "word", Kind(Toks, Done + 1) = Opens <=> ChildOf(b, i)' # 0
  PROVE  Worded(at, b, i)'
<1> DEFINE e == EndOf(at, b, i)
           n == Done
<1>1. EndOf(at, b, i)' = e /\ e \in Nat
  BY DEF EndOf
<1>2. Done' = n + 1 /\ n \in Nat /\ e = n + 1
  OBVIOUS
<1>3. /\ at[<<b, i>>] \in 1 .. n /\ Starts(Toks, at[<<b, i>>])
      /\ \A k \in 1 .. Len(WordsOf(b, i)) : Toks[at[<<b, i>>] + k - 1] = WordToken(WordsOf(b, i)[k])
  BY DEF Worded
<1>3a. Kind(Toks, e) # "word" /\ (Kind(Toks, e) = Opens <=> ChildOf(b, i)' # 0)
  BY <1>2
<1> HIDE DEF e, n
<1>4. at[<<b, i>>] \in 1 .. n + 1 /\ e <= n + 1 /\ e <= n + 1 + 1 /\ e # n + 1 + 1
  BY <1>1, <1>2, <1>3
<1> QED
  BY <1>1, <1>2, <1>3, <1>3a, <1>4 DEF Worded

\* What is between braces stays there, and what is open stays open.
LEMMA KeepsNested ==
  ASSUME NEW at, NEW to, NEW b, NEW i, Nested(at, b, i),
         to[<<b, i>>] = at[<<b, i>>], WordsOf(b, i)' = WordsOf(b, i), ChildOf(b, i)' = ChildOf(b, i),
         Toks' = Toks, Done \in Nat, Done' = Done + 1, EndOf(at, b, i) \in Nat,
         DepthAt(Toks, Done + 2) \in Int, Len(stack') = DepthAt(Toks, Done + 2) + 1, stack' \in Seq(Nat), stack \in Seq(Nat),
         \A k \in DOMAIN stack' : stack'[k] = ChildOf(b, i) => k \in DOMAIN stack /\ stack[k] = ChildOf(b, i),
         \A j \in DOMAIN blocks'[ChildOf(b, i)] :
           \/ j \in DOMAIN blocks[ChildOf(b, i)] /\ to[<<ChildOf(b, i), j>>] = at[<<ChildOf(b, i), j>>]
           \/ /\ to[<<ChildOf(b, i), j>>] = Done + 1
              /\ \E k \in DOMAIN stack : stack[k] = ChildOf(b, i) /\ DepthAt(Toks, Done + 1) = k - 1
  PROVE  Nested(to, b, i)'
<1> DEFINE c == ChildOf(b, i)
           p == at[<<b, i>>]
           e == EndOf(at, b, i)
           n == Done
<1> SUFFICES ASSUME c # 0
             PROVE  /\ \A j \in DOMAIN blocks'[c] :
                         /\ Within(p, e, to[<<c, j>>])
                         /\ DepthAt(Toks, to[<<c, j>>]) = DepthAt(Toks, p) + 1
                    /\ \A k \in DOMAIN stack' : stack'[k] = c =>
                         Within(p, e, n + 2) /\ DepthAt(Toks, p) = k - 2
  <2>1. EndOf(to, b, i)' = e
    BY DEF EndOf
  <2>2. \A x, y, q : Within(x, y, q)' <=> Within(x, y, q)
    BY DEF Within
  <2>3. Done' + 1 = n + 2
    OBVIOUS
  <2> QED
    BY <2>1, <2>2, <2>3 DEF Nested, Within
<1>1. /\ \A j \in DOMAIN blocks[c] :
           /\ Within(p, e, at[<<c, j>>])
           /\ DepthAt(Toks, at[<<c, j>>]) = DepthAt(Toks, p) + 1
      /\ \A k \in DOMAIN stack : stack[k] = c =>
           Within(p, e, n + 1) /\ DepthAt(Toks, p) = k - 2
  BY DEF Nested
<1>2. \A k \in DOMAIN stack' : stack'[k] = c => k \in DOMAIN stack /\ stack[k] = c
  OBVIOUS
<1>3. \A j \in DOMAIN blocks'[c] :
        \/ j \in DOMAIN blocks[c] /\ to[<<c, j>>] = at[<<c, j>>]
        \/ /\ to[<<c, j>>] = n + 1
           /\ \E k \in DOMAIN stack : stack[k] = c /\ DepthAt(Toks, n + 1) = k - 1
  OBVIOUS
<1>4. n \in Nat /\ e \in Nat /\ DepthAt(Toks, n + 2) \in Int /\ Len(stack') = DepthAt(Toks, n + 2) + 1
  OBVIOUS
<1> HIDE DEF c, p, e, n
<1>5. ASSUME NEW j \in DOMAIN blocks'[c]
      PROVE  Within(p, e, to[<<c, j>>]) /\ DepthAt(Toks, to[<<c, j>>]) = DepthAt(Toks, p) + 1
  <2>1. CASE j \in DOMAIN blocks[c] /\ to[<<c, j>>] = at[<<c, j>>]
    BY <1>1, <2>1
  <2>2. ASSUME to[<<c, j>>] = n + 1, NEW k \in DOMAIN stack, stack[k] = c, DepthAt(Toks, n + 1) = k - 1
        PROVE  Within(p, e, to[<<c, j>>]) /\ DepthAt(Toks, to[<<c, j>>]) = DepthAt(Toks, p) + 1
    <3>1. Within(p, e, n + 1) /\ DepthAt(Toks, p) = k - 2
      BY <1>1, <2>2
    <3>2. k \in Int
      OBVIOUS
    <3> QED
      BY <2>2, <3>1, <3>2
  <2> QED
    BY <1>3, <2>1, <2>2
<1>6. ASSUME NEW k \in DOMAIN stack', stack'[k] = c
      PROVE  Within(p, e, n + 2) /\ DepthAt(Toks, p) = k - 2
  <2>1. Within(p, e, n + 1) /\ DepthAt(Toks, p) = k - 2
    BY <1>1, <1>2, <1>6
  <2>2. k \in 1 .. Len(stack')
    BY <1>6
  <2>3. DepthAt(Toks, n + 2) > DepthAt(Toks, p)
    BY <1>4, <2>1, <2>2
  <2>4. \A m \in e + 1 .. n + 2 : m \in e + 1 .. n + 1 \/ m = n + 2
    BY <1>4
  <2>5. n + 2 > e
    BY <1>4, <2>1 DEF Within
  <2> QED
    BY <2>1, <2>3, <2>4, <2>5 DEF Within
<1> QED
  BY <1>5, <1>6

\* The statements after a word.
LEMMA WordBlocks ==
  ASSUME PInv, Word, NEW b, b = Top, NEW n, n = Len(blocks[b])
  PROVE  /\ b \in DOMAIN blocks /\ DOMAIN blocks' = DOMAIN blocks /\ Top' = b /\ n \in Nat
         /\ \A c \in DOMAIN blocks : c # b => blocks'[c] = blocks[c]
         /\ last = "word" =>
              /\ n \in DOMAIN blocks[b] /\ DOMAIN blocks'[b] = DOMAIN blocks[b] /\ Len(blocks'[b]) = n
              /\ \A i \in DOMAIN blocks[b] : i # n => blocks'[b][i] = blocks[b][i]
              /\ WordsOf(b, n)' = Append(WordsOf(b, n), value) /\ ChildOf(b, n)' = ChildOf(b, n)
         /\ last # "word" =>
              /\ DOMAIN blocks'[b] = DOMAIN blocks[b] \cup {n + 1} /\ Len(blocks'[b]) = n + 1
              /\ \A i \in DOMAIN blocks[b] : blocks'[b][i] = blocks[b][i]
              /\ WordsOf(b, n + 1)' = <<value>> /\ ChildOf(b, n + 1)' = 0
<1>1. /\ stack \in Seq(Nat) /\ stack # <<>> /\ stack' = stack /\ status = "reading"
      /\ blocks \in Seq(Seq(StatementSet)) /\ value \in WordSet
  BY DEF PInv, CInv, IInv, Typed, Word, Handle
<1>2. b \in DOMAIN blocks
  BY <1>1, LastOne DEF PInv, CInv, IInv, Opened, Top
<1>3. blocks[b] \in Seq(StatementSet) /\ n \in Nat
  BY <1>1, <1>2
<1>4. blocks' = [blocks EXCEPT ![b] = WithWord(blocks[b])]
  BY DEF Word
<1>5. last = "word" => blocks[b] # <<>>
  BY <1>1 DEF PInv, CInv, IInv, GoesOn
<1> DEFINE new == WithWord(blocks[b])
<1>6. /\ DOMAIN blocks' = DOMAIN blocks /\ blocks'[b] = new
      /\ \A c \in DOMAIN blocks : c # b => blocks'[c] = blocks[c]
  BY <1>1, <1>2, <1>4
<1>7. Top' = b
  BY <1>1 DEF Top
<1>8. ASSUME last = "word"
      PROVE  /\ n \in DOMAIN blocks[b] /\ DOMAIN new = DOMAIN blocks[b] /\ Len(new) = n
             /\ \A i \in DOMAIN blocks[b] : i # n => new[i] = blocks[b][i]
             /\ new[n].words = Append(blocks[b][n].words, value) /\ new[n].child = blocks[b][n].child
  <2> DEFINE t == [blocks[b][n] EXCEPT !.words = Append(@, value)]
  <2>1. n \in DOMAIN blocks[b] /\ blocks[b][n] \in StatementSet
    BY <1>3, <1>5, <1>8, LastOne
  <2>2. new = [blocks[b] EXCEPT ![n] = t]
    BY <1>8 DEF WithWord
  <2>3. t.words = Append(blocks[b][n].words, value) /\ t.child = blocks[b][n].child
    BY <2>1 DEF StatementSet
  <2>4. t \in StatementSet
    <3>1. blocks[b][n].words \in Seq(WordSet)
      BY <2>1 DEF StatementSet
    <3>2. Append(blocks[b][n].words, value) \in Seq(WordSet)
      BY <1>1, <3>1, Appended
    <3> QED
      BY <2>1, <3>2 DEF StatementSet
  <2> HIDE DEF t, new
  <2> QED
    BY <1>3, <2>1, <2>2, <2>3, <2>4, Replaced
<1>9. ASSUME last # "word"
      PROVE  /\ DOMAIN new = DOMAIN blocks[b] \cup {n + 1} /\ Len(new) = n + 1
             /\ \A i \in DOMAIN blocks[b] : new[i] = blocks[b][i]
             /\ new[n + 1].words = <<value>> /\ new[n + 1].child = 0
  <2> DEFINE t == Statement(<<value>>, 0)
  <2>1. t \in StatementSet /\ t.words = <<value>> /\ t.child = 0
    BY <1>1 DEF StatementSet, Statement
  <2>2. new = Append(blocks[b], t)
    BY <1>9 DEF WithWord
  <2> HIDE DEF t, new
  <2>3. new[n + 1] = t
    BY <1>3, <2>1, <2>2, Appended
  <2> QED
    BY <1>3, <2>1, <2>2, <2>3, Appended
<1> HIDE DEF new
<1> QED
  BY <1>2, <1>3, <1>6, <1>7, <1>8, <1>9 DEF WordsOf, ChildOf

\* What taking a token changes, for what follows.
LEMMA TakesMore ==
  ASSUME PInv, PInv', NextToken, token \in Marks \cup {"word"}
  PROVE  /\ Toks' = Toks /\ Done \in Nat /\ Done' = Done + 1 /\ Kind(Toks, Done + 1) = token
         /\ Toks[Done + 1] = IF token = "word" THEN WordToken(value) ELSE MarkToken(token)
         /\ DepthAt(Toks, Done + 2) \in Int /\ Len(stack') = DepthAt(Toks, Done + 2) + 1
         /\ DepthAt(Toks, Done + 1) \in Int /\ Len(stack) = DepthAt(Toks, Done + 1) + 1
         /\ stack' \in Seq(Nat) /\ stack \in Seq(Nat)
         /\ Done # 0 => last = Kind(Toks, Done)
<1>0. token \in Types \ {"error"}
  BY MarksNamed DEF Types
<1>1. /\ Toks' = Toks /\ Done \in Nat /\ Done' = Done + 1 /\ Toks[Done + 1].type = token
      /\ Toks[Done + 1] = IF token = "word" THEN WordToken(value) ELSE MarkToken(token)
  BY <1>0, Takes
<1>2. depth = DepthAt(Toks, Done + 1) /\ depth \in Int /\ (Done # 0 => last = Toks[Done].type)
  BY FollowedNow
<1>3. depth' = DepthAt(Toks', Done' + 1) /\ depth' \in Int
  BY DEF PInv, Followed, CInv, IInv, Typed
<1>4. Done' + 1 = Done + 2
  BY <1>1
<1>5. Len(stack) = depth + 1 /\ Len(stack') = depth' + 1 /\ stack' \in Seq(Nat) /\ stack \in Seq(Nat)
  BY DEF PInv, CInv, IInv, Typed, Counted
<1> QED
  BY <1>1, <1>2, <1>3, <1>4, <1>5 DEF Kind

\* A statement is done with, or the one that goes on.
LEMMA GoesOnOrDone ==
  ASSUME PInv, NEW at \in Spots, Placed(at), NEW b \in DOMAIN blocks, NEW i \in DOMAIN blocks[b]
  PROVE  /\ EndOf(at, b, i) \in Nat /\ at[<<b, i>>] \in Nat
         /\ \/ EndOf(at, b, i) <= Done
            \/ EndOf(at, b, i) = Done + 1 /\ last = "word" /\ b = Top /\ i = Len(blocks[b]) /\ ChildOf(b, i) = 0
<1>1. Worded(at, b, i)
  BY DEF Placed
<1>2. b \in Nat /\ i \in Nat /\ Len(WordsOf(b, i)) \in Nat
  BY StatementIs1
<1>3. at[<<b, i>>] \in Nat
  BY <1>2 DEF Spots
<1>4. EndOf(at, b, i) \in Nat /\ Done \in Nat
  BY <1>2, <1>3, FollowedNow DEF EndOf
<1>5. EndOf(at, b, i) <= Done \/ EndOf(at, b, i) = Done + 1
  BY <1>1, <1>4 DEF Worded
<1> QED
  BY <1>1, <1>3, <1>4, <1>5 DEF Worded

\* Where a statement begins among the tokens taken.
AllPlaced(at) ==
  \A p \in 1 .. Done : Starts(Toks, p) =>
    \E b \in DOMAIN blocks : \E i \in DOMAIN blocks[b] : at[<<b, i>>] = p

LEMMA KeepsAll ==
  ASSUME NEW at, NEW to, AllPlaced(at), Toks' = Toks, Done \in Nat, Done' = Done + 1,
         \A b \in DOMAIN blocks : b \in DOMAIN blocks' /\ \A i \in DOMAIN blocks[b] :
           i \in DOMAIN blocks'[b] /\ to[<<b, i>>] = at[<<b, i>>],
         Starts(Toks, Done + 1) =>
           \E b \in DOMAIN blocks' : \E i \in DOMAIN blocks'[b] : to[<<b, i>>] = Done + 1
  PROVE  AllPlaced(to)'
<1> DEFINE n == Done
<1> SUFFICES ASSUME NEW p \in 1 .. n + 1, Starts(Toks, p)
             PROVE  \E b \in DOMAIN blocks' : \E i \in DOMAIN blocks'[b] : to[<<b, i>>] = p
  <2>1. \A p : Starts(Toks', p) = Starts(Toks, p)
    OBVIOUS
  <2>2. Done' = n + 1
    OBVIOUS
  <2> HIDE DEF n
  <2> QED
    BY <2>2 DEF AllPlaced
<1>1. CASE p = n + 1
  BY <1>1
<1>2. CASE p # n + 1
  <2>1. p \in 1 .. Done
    BY <1>2
  <2>2. PICK b \in DOMAIN blocks : \E i \in DOMAIN blocks[b] : at[<<b, i>>] = p
    BY <2>1 DEF AllPlaced
  <2>3. PICK i \in DOMAIN blocks[b] : at[<<b, i>>] = p
    BY <2>2
  <2>4. b \in DOMAIN blocks' /\ i \in DOMAIN blocks'[b] /\ to[<<b, i>>] = p
    BY <2>3
  <2> QED
    BY <2>4
<1> QED
  BY <1>1, <1>2

\* A statement that is done with, whatever token comes.
LEMMA Untouched ==
  ASSUME PInv, PInv', NextToken, token \in Marks \cup {"word"}, NEW at \in Spots, Placed(at), NEW to,
         NEW c \in DOMAIN blocks, NEW i \in DOMAIN blocks[c], EndOf(at, c, i) <= Done,
         to[<<c, i>>] = at[<<c, i>>], WordsOf(c, i)' = WordsOf(c, i), ChildOf(c, i)' = ChildOf(c, i),
         ChildOf(c, i) \in DOMAIN blocks =>
           /\ \A k \in DOMAIN stack' : stack'[k] = ChildOf(c, i) => k \in DOMAIN stack /\ stack[k] = ChildOf(c, i)
           /\ \A j \in DOMAIN blocks'[ChildOf(c, i)] :
                \/ j \in DOMAIN blocks[ChildOf(c, i)] /\ to[<<ChildOf(c, i), j>>] = at[<<ChildOf(c, i), j>>]
                \/ /\ to[<<ChildOf(c, i), j>>] = Done + 1
                   /\ \E k \in DOMAIN stack : stack[k] = ChildOf(c, i) /\ DepthAt(Toks, Done + 1) = k - 1
  PROVE  Worded(to, c, i)' /\ Nested(to, c, i)'
<1>1. /\ Toks' = Toks /\ Done \in Nat /\ Done' = Done + 1
      /\ DepthAt(Toks, Done + 2) \in Int /\ Len(stack') = DepthAt(Toks, Done + 2) + 1
      /\ stack' \in Seq(Nat) /\ stack \in Seq(Nat)
  BY TakesMore
<1>2. EndOf(at, c, i) \in Nat /\ at[<<c, i>>] \in Nat
  BY GoesOnOrDone
<1>3. Len(WordsOf(c, i)) \in Nat /\ (ChildOf(c, i) # 0 => ChildOf(c, i) \in DOMAIN blocks)
  <2>1. /\ Len(WordsOf(c, i)) \in Nat /\ c \in Nat
        /\ (ChildOf(c, i) # 0 => ChildOf(c, i) \in c + 1 .. Len(blocks))
    BY StatementIs1
  <2> QED
    BY <2>1 DEF PInv, CInv, IInv, Typed
<1>4. Worded(at, c, i) /\ Nested(at, c, i)
  BY DEF Placed
<1>5. Worded(to, c, i)'
  BY <1>1, <1>2, <1>3, <1>4, KeepsWorded
<1>6. CASE ChildOf(c, i) = 0
  BY <1>5, <1>6 DEF Nested
<1>7. CASE ChildOf(c, i) # 0
  <2>1. Nested(to, c, i)'
    BY <1>1, <1>2, <1>3, <1>4, <1>7, KeepsNested
  <2> QED
    BY <1>5, <2>1
<1> QED
  BY <1>6, <1>7

\* A word more of the statement that goes on.
LEMMA WordMore ==
  ASSUME PInv, PInv', Word, last = "word", NEW at \in Spots, Placed(at)
  PROVE  Placed(at)'
<1>1. PICK b : b = Top
  OBVIOUS
<1>2. PICK n : n = Len(blocks[b])
  OBVIOUS
<1>3. /\ b \in DOMAIN blocks /\ DOMAIN blocks' = DOMAIN blocks /\ Top' = b /\ n \in Nat
      /\ \A c \in DOMAIN blocks : c # b => blocks'[c] = blocks[c]
      /\ n \in DOMAIN blocks[b] /\ DOMAIN blocks'[b] = DOMAIN blocks[b] /\ Len(blocks'[b]) = n
      /\ \A i \in DOMAIN blocks[b] : i # n => blocks'[b][i] = blocks[b][i]
      /\ WordsOf(b, n)' = Append(WordsOf(b, n), value) /\ ChildOf(b, n)' = ChildOf(b, n)
  BY <1>1, <1>2, WordBlocks
<1>4. token = "word" /\ last' = "word" /\ stack' = stack /\ stack # <<>> /\ NextToken
  BY DEF Word, Handle
<1>5. /\ Toks' = Toks /\ Done \in Nat /\ Done' = Done + 1 /\ Kind(Toks, Done + 1) = "word"
      /\ Toks[Done + 1] = WordToken(value)
      /\ DepthAt(Toks, Done + 2) \in Int /\ Len(stack') = DepthAt(Toks, Done + 2) + 1
      /\ stack' \in Seq(Nat) /\ stack \in Seq(Nat) /\ (Done # 0 => last = Kind(Toks, Done))
  BY <1>4, TakesMore
<1>6. EndOf(at, b, n) = Done + 1 /\ Worded(at, b, n) /\ ChildOf(b, n) = 0
  <2>1. EndOf(at, b, n) = Done + 1
    BY <1>1, <1>2 DEF Placed
  <2>2. Worded(at, b, n)
    BY <1>3 DEF Placed
  <2> QED
    BY <2>1, <2>2 DEF Worded
<1>7. /\ WordsOf(b, n) \in Seq(WordSet) /\ at[<<b, n>>] \in Nat /\ Len(WordsOf(b, n)) \in Nat
      /\ value \in WordSet
  BY <1>3, <1>4, StatementIs1, GoesOnOrDone DEF PInv, Lexed
<1>8. Worded(at, b, n)'
  <2> DEFINE p == at[<<b, n>>]
             L == Len(WordsOf(b, n))
             ws == WordsOf(b, n)
             d == Done
  <2>1. EndOf(at, b, n)' = p + L + 1 /\ p + L = d + 1 /\ Len(WordsOf(b, n)') = L + 1
    <3>1. Len(WordsOf(b, n)') = L + 1
      BY <1>3, <1>7, Appended
    <3>2. EndOf(at, b, n)' = p + Len(WordsOf(b, n)') /\ EndOf(at, b, n) = p + L
      BY DEF EndOf
    <3>3. p \in Nat /\ L \in Nat
      BY <1>7
    <3> HIDE DEF p, L
    <3> QED
      BY <1>6, <3>1, <3>2, <3>3
  <2>2. p \in 1 .. d /\ Starts(Toks, p) /\ \A k \in 1 .. L : Toks[p + k - 1] = WordToken(ws[k])
    BY <1>6 DEF Worded
  <2>3. ASSUME NEW k \in 1 .. L + 1 PROVE Toks[p + k - 1] = WordToken(WordsOf(b, n)'[k])
    <3>1. CASE k = L + 1
      <4>1. p + k - 1 = d + 1
        BY <1>5, <1>7, <2>1, <3>1
      <4>2. WordsOf(b, n)'[k] = value
        BY <1>3, <1>7, <3>1, Appended
      <4> QED
        BY <1>5, <4>1, <4>2
    <3>2. CASE k # L + 1
      <4>1. k \in 1 .. L /\ k \in DOMAIN ws
        BY <1>7, <3>2
      <4>2. WordsOf(b, n)'[k] = ws[k]
        BY <1>3, <1>7, <4>1, Appended
      <4> QED
        BY <2>2, <4>1, <4>2
    <3> QED
      BY <3>1, <3>2
  <2>4. p \in 1 .. d + 1 /\ p + L + 1 = d + 1 + 1 /\ ~(p + L + 1 <= d + 1)
    BY <1>5, <1>7, <2>1, <2>2
  <2>4a. Done' = d + 1
    BY <1>5
  <2> HIDE DEF p, L, ws, d
  <2>5. p = at[<<b, n>>]
    BY DEF p
  <2>6. ChildOf(b, n)' = 0 /\ n = Len(blocks[b])'
    BY <1>3, <1>6
  <2>7. last' = "word" /\ b = Top' /\ Toks' = Toks
    BY <1>3, <1>4, <1>5
  <2>8. (at[<<b, n>>] \in 1 .. Done /\ Starts(Toks, at[<<b, n>>]))'
    BY <2>2, <2>4, <2>4a, <2>5, <2>7 DEF Starts
  <2>9. (\A k \in 1 .. Len(WordsOf(b, n)) : Toks[at[<<b, n>>] + k - 1] = WordToken(WordsOf(b, n)[k]))'
    BY <2>1, <2>3, <2>5, <2>7
  <2>10. (EndOf(at, b, n) = Done + 1 /\ EndOf(at, b, n) <= Done + 1 /\ ~(EndOf(at, b, n) <= Done))'
    BY <2>1, <2>4, <2>4a
  <2> QED
    BY <2>6, <2>7, <2>8, <2>9, <2>10 DEF Worded
<1>9. ASSUME NEW c \in DOMAIN blocks', NEW i \in DOMAIN blocks'[c]
      PROVE  Worded(at, c, i)' /\ Nested(at, c, i)'
  <2>1. CASE c = b /\ i = n
    <3>1. ChildOf(b, n)' = 0
      BY <1>3, <1>6
    <3> QED
      BY <1>8, <2>1, <3>1 DEF Nested
  <2>2. CASE c # b \/ i # n
    <3>1. c \in DOMAIN blocks /\ i \in DOMAIN blocks[c] /\ blocks'[c][i] = blocks[c][i]
      BY <1>3, <2>2
    <3>2. WordsOf(c, i)' = WordsOf(c, i) /\ ChildOf(c, i)' = ChildOf(c, i)
      BY <3>1 DEF WordsOf, ChildOf
    <3>3. EndOf(at, c, i) <= Done
      BY <1>1, <1>2, <2>2, <3>1, GoesOnOrDone
    <3>4. ChildOf(c, i) \in DOMAIN blocks => DOMAIN blocks'[ChildOf(c, i)] = DOMAIN blocks[ChildOf(c, i)]
      BY <1>3
    <3> QED
      BY <1>4, <3>1, <3>2, <3>3, <3>4, Untouched
  <2> QED
    BY <2>1, <2>2
<1>10. \A i \in DOMAIN blocks'[1] : DepthAt(Toks', at[<<1, i>>]) = 0
  <2>1. 1 \in DOMAIN blocks => DOMAIN blocks'[1] = DOMAIN blocks[1]
    BY <1>3
  <2>2. 1 \in DOMAIN blocks
    BY <1>3 DEF PInv, CInv, IInv, Typed
  <2> QED
    BY <1>5, <2>1, <2>2 DEF Placed
<1>11. AllPlaced(at)'
  <2>1. ~Starts(Toks, Done + 1)
    <3>1. Done # 0 /\ Done + 1 - 1 = Done /\ Done + 1 # 1
      BY <1>5, FollowedNow
    <3> QED
      BY <1>5, <3>1 DEF Starts
  <2>2. \A c \in DOMAIN blocks : c \in DOMAIN blocks' /\ DOMAIN blocks'[c] = DOMAIN blocks[c]
    BY <1>3
  <2>3. AllPlaced(at)
    BY DEF Placed, AllPlaced
  <2> QED
    BY <1>5, <2>1, <2>2, <2>3, KeepsAll
<1>12. stack' # <<>> /\ blocks'[b] # <<>> /\ EndOf(at, b, n)' = Done' + 1
  <2>1. EndOf(at, b, n)' = Done' + 1
    <3>1. Len(WordsOf(b, n)') = Len(WordsOf(b, n)) + 1
      BY <1>3, <1>7, Appended
    <3>2. /\ EndOf(at, b, n)' = at[<<b, n>>] + Len(WordsOf(b, n)')
          /\ EndOf(at, b, n) = at[<<b, n>>] + Len(WordsOf(b, n))
      BY DEF EndOf
    <3>3. EndOf(at, b, n)' = EndOf(at, b, n) + 1
      BY <1>7, <3>1, <3>2
    <3> QED
      BY <1>5, <1>6, <3>3
  <2>2. blocks'[b] # <<>>
    BY <1>3
  <2> QED
    BY <1>4, <2>1, <2>2
<1>13. \A k \in DOMAIN stack' : k > 1 => stack'[k] # 1
  BY <1>4 DEF Placed
<1>14. EndOf(at, Top, Len(blocks[Top]))' = Done' + 1
  BY <1>3, <1>12 DEF EndOf, WordsOf
<1>15. (stack # <<>> /\ blocks[Top] # <<>>)'
  BY <1>3, <1>12
<1> QED
  BY <1>9, <1>10, <1>11, <1>13, <1>14, <1>15 DEF Placed, AllPlaced

\* The first word of a statement.
LEMMA WordNew ==
  ASSUME PInv, PInv', Word, last # "word", NEW at \in Spots, Placed(at)
  PROVE  \E to \in Spots : Placed(to)'
<1>1. PICK b : b = Top
  OBVIOUS
<1>2. PICK n : n = Len(blocks[b])
  OBVIOUS
<1>3. /\ b \in DOMAIN blocks /\ DOMAIN blocks' = DOMAIN blocks /\ Top' = b /\ n \in Nat
      /\ \A c \in DOMAIN blocks : c # b => blocks'[c] = blocks[c]
      /\ DOMAIN blocks'[b] = DOMAIN blocks[b] \cup {n + 1} /\ Len(blocks'[b]) = n + 1
      /\ \A i \in DOMAIN blocks[b] : blocks'[b][i] = blocks[b][i]
      /\ WordsOf(b, n + 1)' = <<value>> /\ ChildOf(b, n + 1)' = 0
  BY <1>1, <1>2, WordBlocks
<1>4. token = "word" /\ last' = "word" /\ stack' = stack /\ stack # <<>> /\ NextToken
  BY DEF Word, Handle
<1>5. /\ Toks' = Toks /\ Done \in Nat /\ Done' = Done + 1 /\ Kind(Toks, Done + 1) = "word"
      /\ Toks[Done + 1] = WordToken(value)
      /\ DepthAt(Toks, Done + 1) \in Int /\ Len(stack) = DepthAt(Toks, Done + 1) + 1
      /\ stack' \in Seq(Nat) /\ stack \in Seq(Nat) /\ (Done # 0 => last = Kind(Toks, Done))
  BY <1>4, TakesMore
<1>6. b \in Nat /\ n + 1 \notin DOMAIN blocks[b]
  <2>1. blocks \in Seq(Seq(StatementSet))
    BY DEF PInv, CInv, IInv, Typed
  <2>2. blocks[b] \in Seq(StatementSet) /\ b \in Nat
    BY <1>3, <2>1
  <2> QED
    BY <1>2, <1>3, <2>2
<1>6a. PICK to : to = [at EXCEPT ![<<b, n + 1>>] = Done + 1]
  OBVIOUS
<1>7. to \in Spots /\ to[<<b, n + 1>>] = Done + 1
  BY <1>3, <1>5, <1>6, <1>6a DEF Spots
<1>8. \A c \in DOMAIN blocks : \A i \in DOMAIN blocks[c] : to[<<c, i>>] = at[<<c, i>>]
  <2> SUFFICES ASSUME NEW c \in DOMAIN blocks, NEW i \in DOMAIN blocks[c] PROVE to[<<c, i>>] = at[<<c, i>>]
    OBVIOUS
  <2>1. c \in Nat /\ i \in Nat
    BY StatementIs1
  <2>2. <<c, i>> # <<b, n + 1>>
    BY <1>6
  <2> QED
    BY <1>6a, <2>1, <2>2 DEF Spots
<1>9. Worded(to, b, n + 1)' /\ Nested(to, b, n + 1)'
  <2> DEFINE d == Done
             m == n + 1
  <2>1. Starts(Toks, d + 1)
    BY <1>5 DEF Starts
  <2>2. Len(WordsOf(b, m)') = 1 /\ \A k \in 1 .. 1 : WordsOf(b, m)'[k] = value /\ d + 1 + k - 1 = d + 1
    BY <1>3, <1>5
  <2>3. EndOf(to, b, m)' = d + 2
    <3>1. EndOf(to, b, m)' = to[<<b, m>>] + Len(WordsOf(b, m)')
      BY DEF EndOf
    <3>2. to[<<b, m>>] = d + 1 /\ Len(WordsOf(b, m)') = 1 /\ d \in Nat
      BY <1>5, <1>7, <2>2
    <3> HIDE DEF m, d
    <3> QED
      BY <3>1, <3>2
  <2>4. Done' = d + 1 /\ d + 1 \in 1 .. d + 1 /\ d + 2 = d + 1 + 1 /\ ~(d + 2 <= d + 1) /\ d + 2 <= d + 1 + 1
    BY <1>5
  <2>5. Toks[d + 1] = WordToken(value) /\ Toks' = Toks /\ to[<<b, m>>] = d + 1
    BY <1>5, <1>7
  <2>6. ChildOf(b, m)' = 0 /\ m = Len(blocks[b])' /\ last' = "word" /\ b = Top'
    BY <1>3, <1>4
  <2> HIDE DEF d, m
  <2>7. Worded(to, b, m)'
    BY <2>1, <2>2, <2>3, <2>4, <2>5, <2>6 DEF Worded
  <2>8. Nested(to, b, m)'
    BY <2>6 DEF Nested
  <2> QED
    BY <2>7, <2>8 DEF m
<1>10. ASSUME NEW c \in DOMAIN blocks', NEW i \in DOMAIN blocks'[c]
       PROVE  Worded(to, c, i)' /\ Nested(to, c, i)'
  <2>1. CASE c = b /\ i = n + 1
    BY <1>9, <2>1
  <2>2. CASE c # b \/ i # n + 1
    <3>1. c \in DOMAIN blocks /\ i \in DOMAIN blocks[c] /\ blocks'[c][i] = blocks[c][i]
      BY <1>3, <2>2
    <3>2. WordsOf(c, i)' = WordsOf(c, i) /\ ChildOf(c, i)' = ChildOf(c, i)
      BY <3>1 DEF WordsOf, ChildOf
    <3>3. EndOf(at, c, i) <= Done
      BY <3>1, GoesOnOrDone
    <3>4. ASSUME ChildOf(c, i) \in DOMAIN blocks, NEW j \in DOMAIN blocks'[ChildOf(c, i)]
          PROVE  \/ j \in DOMAIN blocks[ChildOf(c, i)] /\ to[<<ChildOf(c, i), j>>] = at[<<ChildOf(c, i), j>>]
                 \/ /\ to[<<ChildOf(c, i), j>>] = Done + 1
                    /\ \E k \in DOMAIN stack : stack[k] = ChildOf(c, i) /\ DepthAt(Toks, Done + 1) = k - 1
      <4>1. CASE j \in DOMAIN blocks[ChildOf(c, i)]
        BY <1>8, <3>4, <4>1
      <4>2. CASE j \notin DOMAIN blocks[ChildOf(c, i)]
        <5>1. ChildOf(c, i) = b /\ j = n + 1
          BY <1>3, <3>4, <4>2
        <5>2. Len(stack) \in DOMAIN stack /\ stack[Len(stack)] = b /\ DepthAt(Toks, Done + 1) = Len(stack) - 1
          BY <1>1, <1>4, <1>5, LastOne DEF Top
        <5> QED
          BY <1>7, <5>1, <5>2
      <4> QED
        BY <4>1, <4>2
    <3> QED
      BY <1>4, <1>8, <3>1, <3>2, <3>3, <3>4, Untouched
  <2> QED
    BY <2>1, <2>2
<1>11. \A i \in DOMAIN blocks'[1] : DepthAt(Toks', to[<<1, i>>]) = 0
  <2>1. 1 \in DOMAIN blocks
    BY <1>3 DEF PInv, CInv, IInv, Typed
  <2>2. ASSUME NEW i \in DOMAIN blocks[1] PROVE DepthAt(Toks, to[<<1, i>>]) = 0
    BY <1>8, <2>1 DEF Placed
  <2>3. ASSUME b = 1 PROVE DepthAt(Toks, Done + 1) = 0
    <3>1. Len(stack) \in DOMAIN stack /\ stack[Len(stack)] = 1 /\ Len(stack) \in Nat /\ Len(stack) # 0
      BY <1>1, <1>4, <1>5, <2>3, LastOne DEF Top
    <3>2. ~(Len(stack) > 1)
      BY <3>1 DEF Placed
    <3> DEFINE L == Len(stack)
               D == DepthAt(Toks, Done + 1)
    <3>3. L \in Nat /\ L # 0 /\ ~(L > 1) /\ D \in Int /\ L = D + 1
      BY <1>5, <3>1, <3>2
    <3> HIDE DEF L, D
    <3>4. D = 0
      BY <3>3
    <3> QED
      BY <3>4 DEF D
  <2> QED
    BY <1>3, <1>5, <1>7, <2>1, <2>2, <2>3
<1>12. AllPlaced(to)'
  <2>1. \A c \in DOMAIN blocks : c \in DOMAIN blocks' /\ \A i \in DOMAIN blocks[c] : i \in DOMAIN blocks'[c]
    BY <1>3
  <2>2. b \in DOMAIN blocks' /\ n + 1 \in DOMAIN blocks'[b]
    BY <1>3
  <2>3. AllPlaced(at)
    BY DEF Placed, AllPlaced
  <2> QED
    BY <1>5, <1>7, <1>8, <2>1, <2>2, <2>3, KeepsAll
<1>13. EndOf(to, b, n + 1)' = Done' + 1
  <2>1. EndOf(to, b, n + 1)' = to[<<b, n + 1>>] + Len(WordsOf(b, n + 1)')
    BY DEF EndOf
  <2>2. Len(WordsOf(b, n + 1)') = 1
    BY <1>3
  <2> QED
    BY <1>5, <1>7, <2>1, <2>2
<1>14. EndOf(to, Top, Len(blocks[Top]))' = Done' + 1
  BY <1>3, <1>13 DEF EndOf, WordsOf
<1>15. (stack # <<>> /\ blocks[Top] # <<>>)'
  BY <1>3, <1>4
<1>16. \A k \in DOMAIN stack' : k > 1 => stack'[k] # 1
  BY <1>4 DEF Placed
<1>17. Placed(to)'
  BY <1>10, <1>11, <1>12, <1>14, <1>15, <1>16 DEF Placed, AllPlaced
<1> QED
  BY <1>7, <1>17

\* ";" and "}" end the statement that goes on, if one does.
LEMMA EndsPlaced ==
  ASSUME PInv, PInv', NextToken, token \in {Ends, Closes}, last' = token, blocks' = blocks,
         \A k \in DOMAIN stack' : k \in DOMAIN stack /\ stack'[k] = stack[k],
         NEW at \in Spots, Placed(at)
  PROVE  Placed(at)'
<1>1. token \in Marks \cup {"word"} /\ token # "word" /\ token # Opens
  BY MarksNamed
<1>2. /\ Toks' = Toks /\ Done \in Nat /\ Done' = Done + 1 /\ Kind(Toks, Done + 1) = token
  BY <1>1, TakesMore
<1>3. ASSUME NEW c \in DOMAIN blocks, NEW i \in DOMAIN blocks[c]
      PROVE  Worded(at, c, i)' /\ Nested(at, c, i)'
  <2>1. WordsOf(c, i)' = WordsOf(c, i) /\ ChildOf(c, i)' = ChildOf(c, i)
    BY DEF WordsOf, ChildOf
  <2>2. CASE EndOf(at, c, i) <= Done
    BY <1>1, <2>1, <2>2, Untouched
  <2>3. CASE EndOf(at, c, i) = Done + 1 /\ ChildOf(c, i) = 0
    <3>1. Worded(at, c, i) /\ Len(WordsOf(c, i)) \in Nat /\ at[<<c, i>>] \in Nat
      BY StatementIs1, GoesOnOrDone DEF Placed
    <3>2. Kind(Toks, Done + 1) # "word" /\ (Kind(Toks, Done + 1) = Opens <=> ChildOf(c, i)' # 0)
      BY <1>1, <1>2, <2>1, <2>3
    <3>3. Worded(at, c, i)'
      BY <1>2, <2>1, <2>3, <3>1, <3>2, EndsWorded
    <3> QED
      BY <2>1, <2>3, <3>3 DEF Nested
  <2> QED
    BY <2>2, <2>3, GoesOnOrDone
<1>4. AllPlaced(at)'
  <2>1. AllPlaced(at) /\ ~Starts(Toks, Done + 1)
    BY <1>1, <1>2 DEF Placed, AllPlaced, Starts
  <2> QED
    BY <1>2, <2>1, KeepsAll
<1>5. \A i \in DOMAIN blocks'[1] : DepthAt(Toks', at[<<1, i>>]) = 0
  BY <1>2 DEF Placed
<1>6. last' # "word" /\ \A k \in DOMAIN stack' : k > 1 => stack'[k] # 1
  BY <1>1 DEF Placed
<1> QED
  BY <1>3, <1>4, <1>5, <1>6 DEF Placed, AllPlaced

\* The statements after a "{".
Started(b, n, c) ==
  /\ last = "word" /\ token = Opens /\ last' = Opens /\ NextToken /\ stack # <<>>
  /\ b \in DOMAIN blocks /\ n \in DOMAIN blocks[b] /\ c \in Nat /\ c > 1
  /\ c \notin DOMAIN blocks /\ DOMAIN blocks' = DOMAIN blocks \cup {c} /\ blocks'[c] = <<>>
  /\ \A d \in DOMAIN blocks : DOMAIN blocks'[d] = DOMAIN blocks[d]
  /\ \A d \in DOMAIN blocks : \A i \in DOMAIN blocks[d] :
       d # b \/ i # n => blocks'[d][i] = blocks[d][i]
  /\ WordsOf(b, n)' = WordsOf(b, n) /\ ChildOf(b, n)' = c
  /\ stack' = Append(stack, c)

LEMMA StartBlocks ==
  ASSUME PInv, StartBlock, NEW b, b = Top, NEW n, n = Len(blocks[b]), NEW c, c = Len(blocks) + 1
  PROVE  Started(b, n, c)
<1>1. /\ token = Opens /\ status = "reading" /\ last \in MayBegin /\ last' = Opens /\ NextToken
      /\ blocks[b] # <<>>
  BY Zenon DEF StartBlock, Handle, Opens
<1>2. last = "word" /\ stack # <<>>
  <2>1. last # Opens
    BY <1>1 DEF PInv, Followed, Fresh
  <2>2. stack # <<>>
    BY <1>1 DEF PInv, CInv, IInv, GoesOn
  <2> QED
    BY <1>1, <2>1, <2>2, MarksNamed
<1>3. stack \in Seq(Nat) /\ blocks \in Seq(Seq(StatementSet))
  BY DEF PInv, CInv, IInv, Typed
<1>4. b \in DOMAIN blocks /\ blocks[b] \in Seq(StatementSet)
  <2>1. b \in DOMAIN blocks
    BY <1>2, <1>3, LastOne DEF PInv, CInv, IInv, Opened, Top
  <2> QED
    BY <1>3, <2>1
<1>5. n \in DOMAIN blocks[b] /\ blocks[b][n] \in StatementSet
  BY <1>1, <1>4, LastOne
<1>6. b \in Nat /\ b <= Len(blocks) /\ Len(blocks) \in Nat /\ b > 0
  BY <1>3, <1>4
<1>7. c \in Nat /\ c > 1 /\ c \notin DOMAIN blocks
  BY <1>3, <1>6
<1> DEFINE t == [blocks[b][n] EXCEPT !.child = c]
           new == WithChild(blocks[b], c)
           mid == [blocks EXCEPT ![b] = new]
<1>8. t.words = blocks[b][n].words /\ t.child = c
  BY <1>5 DEF StatementSet
<1>9. t \in StatementSet
  BY <1>5, <1>7 DEF StatementSet
<1>10. new = [blocks[b] EXCEPT ![n] = t]
  BY DEF WithChild
<1>11. blocks' = Append(mid, <<>>) /\ stack' = Append(stack, c)
  BY DEF StartBlock
<1> HIDE DEF t, new
<1>12. /\ new \in Seq(StatementSet) /\ DOMAIN new = DOMAIN blocks[b] /\ new[n] = t
       /\ \A i \in DOMAIN blocks[b] : i # n => new[i] = blocks[b][i]
  BY <1>4, <1>5, <1>9, <1>10, Replaced
<1>13. /\ mid \in Seq(Seq(StatementSet)) /\ Len(mid) = Len(blocks) /\ DOMAIN mid = DOMAIN blocks
       /\ mid[b] = new /\ \A d \in DOMAIN blocks : d # b => mid[d] = blocks[d]
  BY <1>3, <1>4, <1>12, Replaced
<1> HIDE DEF mid
<1>14. <<>> \in Seq(StatementSet)
  OBVIOUS
<1>15. /\ DOMAIN blocks' = DOMAIN blocks \cup {c} /\ blocks'[c] = <<>>
       /\ \A d \in DOMAIN blocks : blocks'[d] = mid[d]
  BY <1>11, <1>13, <1>14, Appended
<1>16. blocks'[b] = new /\ \A d \in DOMAIN blocks : d # b => blocks'[d] = blocks[d]
  BY <1>4, <1>13, <1>15
<1>17. WordsOf(b, n)' = WordsOf(b, n) /\ ChildOf(b, n)' = c
  BY <1>8, <1>12, <1>16 DEF WordsOf, ChildOf
<1>18. ASSUME NEW d \in DOMAIN blocks
       PROVE  /\ DOMAIN blocks'[d] = DOMAIN blocks[d]
              /\ \A i \in DOMAIN blocks[d] : d # b \/ i # n => blocks'[d][i] = blocks[d][i]
  BY <1>12, <1>16
<1> QED
  BY <1>1, <1>2, <1>4, <1>5, <1>7, <1>11, <1>15, <1>17, <1>18 DEF Started

LEMMA StartPlaced ==
  ASSUME PInv, PInv', StartBlock, NEW at \in Spots, Placed(at)
  PROVE  Placed(at)'
<1>1. PICK b : b = Top
  OBVIOUS
<1>2. PICK n : n = Len(blocks[b])
  OBVIOUS
<1>3. PICK c : c = Len(blocks) + 1
  OBVIOUS
<1>4. /\ last = "word" /\ token = Opens /\ last' = Opens /\ NextToken /\ stack # <<>>
      /\ b \in DOMAIN blocks /\ n \in DOMAIN blocks[b] /\ c \in Nat /\ c > 1
      /\ c \notin DOMAIN blocks /\ DOMAIN blocks' = DOMAIN blocks \cup {c} /\ blocks'[c] = <<>>
      /\ \A d \in DOMAIN blocks : DOMAIN blocks'[d] = DOMAIN blocks[d]
      /\ \A d \in DOMAIN blocks : \A i \in DOMAIN blocks[d] :
           d # b \/ i # n => blocks'[d][i] = blocks[d][i]
      /\ WordsOf(b, n)' = WordsOf(b, n) /\ ChildOf(b, n)' = c
      /\ stack' = Append(stack, c)
  <2>1. Started(b, n, c)
    BY <1>1, <1>2, <1>3, StartBlocks
  <2> QED
    BY <2>1 DEF Started
<1>5. token \in Marks \cup {"word"} /\ Opens # "word"
  BY <1>4, MarksNamed
<1>6. /\ Toks' = Toks /\ Done \in Nat /\ Done' = Done + 1 /\ Kind(Toks, Done + 1) = Opens
      /\ DepthAt(Toks, Done + 2) \in Int /\ Len(stack') = DepthAt(Toks, Done + 2) + 1
      /\ DepthAt(Toks, Done + 1) \in Int /\ Len(stack) = DepthAt(Toks, Done + 1) + 1
      /\ stack' \in Seq(Nat) /\ stack \in Seq(Nat)
  BY <1>4, <1>5, TakesMore
<1>7. /\ DOMAIN stack' = DOMAIN stack \cup {Len(stack) + 1} /\ stack'[Len(stack) + 1] = c
      /\ \A k \in DOMAIN stack : stack'[k] = stack[k] /\ stack[k] \in DOMAIN blocks
      /\ Len(stack') = Len(stack) + 1
  BY <1>4, <1>6, Appended DEF PInv, CInv, IInv, Opened
<1>8. Worded(at, b, n)' /\ Nested(at, b, n)'
  <2>1. EndOf(at, b, n) = Done + 1
    BY <1>1, <1>2, <1>4 DEF Placed
  <2>2. /\ Worded(at, b, n) /\ WordsOf(b, n) \in Seq(WordSet) /\ Len(WordsOf(b, n)) \in Nat
        /\ at[<<b, n>>] \in Nat
    BY <1>4, StatementIs1, GoesOnOrDone DEF Placed
  <2>3. Worded(at, b, n)'
    <3>1. Kind(Toks, Done + 1) # "word" /\ (Kind(Toks, Done + 1) = Opens <=> ChildOf(b, n)' # 0)
      BY <1>4, <1>5, <1>6
    <3> QED
      BY <1>4, <1>6, <2>1, <2>2, <3>1, EndsWorded
  <2> DEFINE p == at[<<b, n>>]
             d == Done
  <2>4. DepthAt(Toks, d + 1) = DepthAt(Toks, p) /\ p \in Nat \ {0}
    <3> DEFINE L == Len(WordsOf(b, n))
               ws == WordsOf(b, n)
    <3>1. p \in 1 .. d /\ \A k \in 1 .. L : Toks[p + k - 1] = WordToken(ws[k])
      BY <2>2 DEF Worded
    <3>2. p + L = d + 1 /\ L \in Nat /\ d \in Nat
      BY <1>6, <2>1, <2>2 DEF EndOf
    <3> HIDE DEF p, L, d, ws
    <3>3. PICK m : m = d + 1
      OBVIOUS
    <3>4. ASSUME NEW l \in p .. m - 1 PROVE Kind(Toks, l) = "word"
      <4>1. l - p + 1 \in 1 .. L /\ p + (l - p + 1) - 1 = l
        BY <3>1, <3>2, <3>3
      <4>2. Toks[l] = WordToken(ws[l - p + 1])
        BY <3>1, <4>1
      <4> QED
        BY <4>2 DEF Kind, WordToken
    <3>5. p \in Nat \ {0} /\ m \in Nat /\ p <= m /\ m \in p .. m
      BY <3>1, <3>2, <3>3
    <3>6. \A l \in p .. m : DepthAt(Toks, l) = DepthAt(Toks, p)
      BY <3>4, <3>5, WordsFlat
    <3> QED
      BY <3>3, <3>5, <3>6
<2>5. DepthAt(Toks, d + 2) = DepthAt(Toks, p) + 1 /\ DepthAt(Toks, p) = Len(stack) + 1 - 2
    <3>1. DepthAt(Toks, d + 1 + 1) = DepthAt(Toks, d + 1) + 1 /\ d + 1 + 1 = d + 2
      BY <1>6, Depths
    <3> QED
      BY <1>6, <2>4, <3>1
  <2>6. Within(p, d + 1, d + 2)
    <3>1. d + 2 > d + 1 /\ \A m \in d + 1 + 1 .. d + 2 : m = d + 2
      BY <1>6
    <3>2. DepthAt(Toks, d + 2) > DepthAt(Toks, p)
      BY <1>6, <2>5
    <3> QED
      BY <3>1, <3>2 DEF Within
  <2>7. EndOf(at, b, n)' = d + 1
    BY <1>4, <2>1 DEF EndOf
  <2>8. \A k \in DOMAIN stack' : stack'[k] = c => k = Len(stack) + 1
    BY <1>4, <1>7
  <2>9. Done' + 1 = d + 2
    BY <1>6
  <2>10. DOMAIN blocks'[c] = {}
    BY <1>4
  <2>11. p = at[<<b, n>>]
    OBVIOUS
  <2> HIDE DEF p, d
  <2>12. Nested(at, b, n)'
    BY <1>4, <1>6, <2>5, <2>6, <2>7, <2>8, <2>9, <2>10, <2>11, SMTT(30) DEF Nested, Within
  <2> QED
    BY <2>3, <2>12
<1>9. ASSUME NEW d \in DOMAIN blocks, NEW i \in DOMAIN blocks[d]
      PROVE  Worded(at, d, i)' /\ Nested(at, d, i)'
  <2>1. CASE d = b /\ i = n
    BY <1>8, <2>1
  <2>2. CASE d # b \/ i # n
    <3>1. WordsOf(d, i)' = WordsOf(d, i) /\ ChildOf(d, i)' = ChildOf(d, i)
      BY <1>4, <2>2 DEF WordsOf, ChildOf
    <3>2. EndOf(at, d, i) <= Done
      BY <1>1, <1>2, <2>2, GoesOnOrDone
    <3>3. ASSUME ChildOf(d, i) \in DOMAIN blocks
          PROVE  /\ \A k \in DOMAIN stack' : stack'[k] = ChildOf(d, i) => k \in DOMAIN stack /\ stack[k] = ChildOf(d, i)
                 /\ DOMAIN blocks'[ChildOf(d, i)] = DOMAIN blocks[ChildOf(d, i)]
      BY <1>4, <1>7, <3>3
    <3> QED
      BY <1>4, <1>5, <3>1, <3>2, <3>3, Untouched
  <2> QED
    BY <2>1, <2>2
<1>10. AllPlaced(at)'
  <2>1. AllPlaced(at) /\ ~Starts(Toks, Done + 1)
    BY <1>5, <1>6 DEF Placed, AllPlaced, Starts
  <2>2. \A d \in DOMAIN blocks : d \in DOMAIN blocks' /\ DOMAIN blocks'[d] = DOMAIN blocks[d]
    BY <1>4
  <2> QED
    BY <1>6, <2>1, <2>2, KeepsAll
<1>11. \A i \in DOMAIN blocks'[1] : DepthAt(Toks', at[<<1, i>>]) = 0
  <2>1. 1 \in DOMAIN blocks
    BY <1>4 DEF PInv, CInv, IInv, Typed
  <2> QED
    BY <1>4, <1>6, <2>1 DEF Placed
<1>12. last' # "word" /\ \A k \in DOMAIN stack' : k > 1 => stack'[k] # 1
  BY <1>4, <1>5, <1>7 DEF Placed
<1>13. \A d \in DOMAIN blocks' : \A i \in DOMAIN blocks'[d] : d \in DOMAIN blocks /\ i \in DOMAIN blocks[d]
  BY <1>4
<1>14. \A d \in DOMAIN blocks' : \A i \in DOMAIN blocks'[d] : Worded(at, d, i)' /\ Nested(at, d, i)'
  BY <1>9, <1>13
<1> QED
  BY <1>10, <1>11, <1>12, <1>14 DEF Placed, AllPlaced

\* Nothing is taken, or a comment.
LEMMA StaysPlaced ==
  ASSUME Toks' = Toks, Done' = Done, UNCHANGED <<last, blocks, stack>>, NEW at, Placed(at)
  PROVE  Placed(at)'
<1>1. ASSUME NEW b, NEW i PROVE Worded(at, b, i)' = Worded(at, b, i) /\ Nested(at, b, i)' = Nested(at, b, i)
  <2>1. /\ WordsOf(b, i)' = WordsOf(b, i) /\ ChildOf(b, i)' = ChildOf(b, i) /\ Top' = Top
        /\ EndOf(at, b, i)' = EndOf(at, b, i)
    BY DEF WordsOf, ChildOf, Top, EndOf
  <2>2. \A p, e, q : Within(p, e, q)' = Within(p, e, q)
    BY DEF Within
  <2> QED
    BY <2>1, <2>2 DEF Worded, Nested
<1>2. Top' = Top /\ Len(blocks[Top])' = Len(blocks[Top])
  BY DEF Top
<1>3. \A b, i : EndOf(at, b, i)' = EndOf(at, b, i)
  BY DEF EndOf, WordsOf
<1>4. EndOf(at, Top, Len(blocks[Top]))' = EndOf(at, Top, Len(blocks[Top]))
  BY DEF EndOf, WordsOf, Top
<1> QED
  BY <1>1, <1>2, <1>4 DEF Placed

LEMMA SameStays ==
  ASSUME PInv, [Next]_vars, ~Word, ~EndStatement, ~StartBlock, ~EndBlock
  PROVE  Toks' = Toks /\ Done' = Done /\ UNCHANGED <<last, blocks, stack>>
<1>1. CASE ParseToken
  BY <1>1, ParseTokenLeft DEF PInv, parser, Toks, Done
<1>2. CASE SkipComment
  <2>1. token = "comment" /\ status = "reading" /\ NextToken /\ UNCHANGED parser
    BY <1>2 DEF SkipComment, Handle
  <2>2. Left = Pending \o Left' /\ Left' \in Seq(Token)
    BY <2>1, NextTokenLeft DEF PInv
  <2>3. Pending = <<>>
    BY <2>1, MarksNamed DEF Pending, Types
  <2>4. Left' = Left
    BY <2>2, <2>3
  <2> QED
    BY <2>1, <2>4 DEF parser, Toks, Done, NextToken
<1>3. CASE Accept \/ Reject \/ Derail \/ Refuse \/ Start \/ UNCHANGED vars
  <2>1. UNCHANGED <<lexer, token, last, blocks, stack>>
    BY <1>3 DEF Accept, Reject, Derail, Stop, Refuse, Start, vars, parser
  <2> QED
    BY <2>1, SameLeft DEF PInv, Toks, Done
<1> QED
  BY <1>1, <1>2, <1>3 DEF Next, Parse

LEMMA NextPlaces ==
  ASSUME PInv, [Next]_vars, NEW at \in Spots, Placed(at)
  PROVE  \E to \in Spots : Placed(to)'
<1>0. PInv'
  BY NextFollows
<1>1. CASE Word
  BY <1>0, <1>1, WordMore, WordNew
<1>2. CASE EndStatement
  <2>1. token = Ends /\ last' = Ends /\ NextToken /\ UNCHANGED <<blocks, stack>>
    BY <1>2, Zenon DEF EndStatement, Handle, Ends
  <2> QED
    BY <1>0, <2>1, EndsPlaced
<1>3. CASE StartBlock
  BY <1>0, <1>3, StartPlaced
<1>4. CASE EndBlock
  <2>1. token = Closes /\ last' = Closes /\ NextToken /\ UNCHANGED blocks /\ stack # <<>> /\ stack' = Pop(stack)
    BY <1>4, Zenon DEF EndBlock, Handle, Closes
  <2>2. stack \in Seq(Nat)
    BY DEF PInv, CInv, IInv, Typed
  <2>3. \A k \in DOMAIN stack' : k \in DOMAIN stack /\ stack'[k] = stack[k]
    BY <2>1, <2>2, Popped
  <2> QED
    BY <1>0, <2>1, <2>3, EndsPlaced
<1>5. CASE ~Word /\ ~EndStatement /\ ~StartBlock /\ ~EndBlock
  BY <1>5, SameStays, StaysPlaced
<1> QED
  BY <1>1, <1>2, <1>3, <1>4, <1>5

\* Where a statement was, one is, with its block.
LEMMA OwnersStay ==
  ASSUME Owned, DOMAIN blocks' = DOMAIN blocks,
         \A b \in DOMAIN blocks : \A i \in DOMAIN blocks[b] :
           i \in DOMAIN blocks'[b] /\ ChildOf(b, i)' = ChildOf(b, i)
  PROVE  Owned'
BY DEF Owned

LEMMA NextOwned ==
  ASSUME PInv, Owned, [Next]_vars, NEW at \in Spots, Placed(at)
  PROVE  Owned'
<1>1. CASE Word
  <2>1. PICK b : b = Top
    OBVIOUS
  <2>2. PICK n : n = Len(blocks[b])
    OBVIOUS
  <2>3. /\ b \in DOMAIN blocks /\ DOMAIN blocks' = DOMAIN blocks
        /\ \A c \in DOMAIN blocks : c # b => blocks'[c] = blocks[c]
        /\ last = "word" =>
              /\ n \in DOMAIN blocks[b] /\ DOMAIN blocks'[b] = DOMAIN blocks[b]
              /\ \A i \in DOMAIN blocks[b] : i # n => blocks'[b][i] = blocks[b][i]
              /\ ChildOf(b, n)' = ChildOf(b, n)
        /\ last # "word" =>
              /\ DOMAIN blocks'[b] = DOMAIN blocks[b] \cup {n + 1}
              /\ \A i \in DOMAIN blocks[b] : blocks'[b][i] = blocks[b][i]
    BY <1>1, <2>1, <2>2, WordBlocks
  <2>4. ASSUME NEW c \in DOMAIN blocks, NEW i \in DOMAIN blocks[c]
        PROVE  i \in DOMAIN blocks'[c] /\ ChildOf(c, i)' = ChildOf(c, i)
    <3>1. CASE c # b
      BY <2>3, <3>1 DEF ChildOf
    <3>2. CASE c = b /\ last = "word" /\ i = n
      BY <2>3, <3>2
    <3>3. CASE c = b /\ ~(last = "word" /\ i = n)
      BY <2>3, <3>3 DEF ChildOf
    <3> QED
      BY <3>1, <3>2, <3>3
  <2> QED
    BY <2>3, <2>4, OwnersStay
<1>2. CASE StartBlock
  <2>1. PICK b : b = Top
    OBVIOUS
  <2>2. PICK n : n = Len(blocks[b])
    OBVIOUS
  <2>3. PICK c : c = Len(blocks) + 1
    OBVIOUS
  <2>4. /\ last = "word" /\ stack # <<>> /\ b \in DOMAIN blocks /\ n \in DOMAIN blocks[b]
        /\ DOMAIN blocks' = DOMAIN blocks \cup {c}
        /\ \A d \in DOMAIN blocks : DOMAIN blocks'[d] = DOMAIN blocks[d]
        /\ \A d \in DOMAIN blocks : \A i \in DOMAIN blocks[d] :
             d # b \/ i # n => blocks'[d][i] = blocks[d][i]
        /\ ChildOf(b, n)' = c
    <3>1. Started(b, n, c)
      BY <1>2, <2>1, <2>2, <2>3, StartBlocks
    <3> QED
      BY <3>1 DEF Started
  <2>5. ASSUME NEW d \in DOMAIN blocks', d # 1
        PROVE  \E e \in DOMAIN blocks' : \E i \in DOMAIN blocks'[e] : ChildOf(e, i)' = d
    <3>1. CASE d = c
      BY <2>4, <3>1
    <3>2. CASE d # c
      <4>1. PICK e \in DOMAIN blocks : \E i \in DOMAIN blocks[e] : ChildOf(e, i) = d
        BY <2>4, <2>5, <3>2 DEF Owned
      <4>2. PICK i \in DOMAIN blocks[e] : ChildOf(e, i) = d
        BY <4>1
      <4>3. CASE e # b \/ i # n
        BY <2>4, <4>2, <4>3 DEF ChildOf
      <4>4. CASE e = b /\ i = n
        <5>1. ChildOf(b, n) = 0
          <6>1. EndOf(at, b, n) = Done + 1 /\ Worded(at, b, n)
            BY <2>1, <2>2, <2>4 DEF Placed
          <6> QED
            BY <6>1 DEF Worded
        <5>2. d \in Nat \ {0}
          BY <2>4, <3>2 DEF PInv, CInv, IInv, Typed
        <5> QED
          BY <4>2, <4>4, <5>1, <5>2
      <4> QED
        BY <4>3, <4>4
    <3> QED
      BY <3>1, <3>2
  <2> QED
    BY <2>4, <2>5 DEF Owned
<1>3. CASE EndStatement \/ EndBlock
  <2>1. UNCHANGED blocks
    BY <1>3 DEF EndStatement, EndBlock
  <2> QED
    BY <2>1 DEF Owned, ChildOf
<1>4. CASE ~Word /\ ~EndStatement /\ ~StartBlock /\ ~EndBlock
  <2>1. UNCHANGED blocks
    BY <1>4, SameStays
  <2> QED
    BY <2>1 DEF Owned, ChildOf
<1> QED
  BY <1>1, <1>2, <1>3, <1>4

LEMMA InitPlaced == Init => PlacedInv
<1> SUFFICES ASSUME Init PROVE PlacedInv
  OBVIOUS
<1>1. PInv /\ last = "start" /\ stack = <<1>> /\ blocks = << <<>> >>
  BY InitPInv DEF Init
<1>2. Done = 0
  BY <1>1, FollowedNow, MarksNamed DEF Fits
<1>3. Owned
  BY <1>1 DEF Owned
<1> DEFINE at == [x \in Nat \X Nat |-> 0]
<1>4. at \in Spots
  BY DEF Spots
<1>5. DOMAIN blocks = {1} /\ DOMAIN blocks[1] = {} /\ 1 .. Done = {} /\ \A k \in DOMAIN stack : ~(k > 1)
  BY <1>1, <1>2
<1> HIDE DEF at
<1>6. Placed(at)
  BY <1>1, <1>5 DEF Placed
<1> QED
  BY <1>1, <1>3, <1>4, <1>6 DEF PlacedInv

\* The statements are where the grammar's are, whatever Parse takes.
LEMMA PlacedKeeps == PlacedInv /\ [Next]_vars => PlacedInv'
<1> SUFFICES ASSUME PlacedInv, [Next]_vars PROVE PlacedInv'
  OBVIOUS
<1>1. PICK at \in Spots : Placed(at)
  BY DEF PlacedInv
<1>2. PInv /\ Owned
  BY DEF PlacedInv
<1>3. PICK to \in Spots : Placed(to)'
  BY <1>1, <1>2, NextPlaces
<1>4. (\E x \in Spots : Placed(x))'
  BY <1>3 DEF Spots
<1> QED
  BY <1>1, <1>2, <1>4, NextFollows, NextOwned DEF PlacedInv

----------------------------------------------------------------------------
(* What main reads in an accepted configuration.                           *)

LEMMA AfterIs ==
  ASSUME NEW t, Len(t) \in Nat, NEW p \in Nat, NEW e \in p + 1 .. Len(t), Kind(t, e) # "word",
         \A k \in p .. e - 1 : Kind(t, k) = "word"
  PROVE  After(t, p) = e
<1> DEFINE Behind1(j) == t[j].type # "word" /\ \A k \in p .. j - 1 : t[k].type = "word"
<1>1. Behind1(e) /\ e \in Int
  BY DEF Kind
<1>2. ASSUME NEW j \in p + 1 .. Len(t), Behind1(j) PROVE j = e
  <2>1. CASE j < e
    <3>1. j \in p .. e - 1
      BY <2>1
    <3> QED
      BY <1>1, <1>2, <3>1
  <2>2. CASE e < j
    <3>1. e \in p .. j - 1
      BY <2>2
    <3> QED
      BY <1>1, <1>2, <3>1
  <2> QED
    BY <1>1, <2>1, <2>2
<1>3. After(t, p) = CHOOSE j \in p + 1 .. Len(t) : Behind1(j)
  BY DEF After
<1> HIDE DEF Behind1
<1> QED
  BY <1>1, <1>2, <1>3

\* A statement was read at at[<<b, i>>], word by word.
LEMMA AcceptedAt ==
  ASSUME PInv, status = "accepted", NEW at \in Spots, Placed(at),
         NEW b \in DOMAIN blocks, NEW i \in DOMAIN blocks[b], NEW p, p = at[<<b, i>>]
  PROVE  /\ p \in Begins(Toks) /\ After(Toks, p) = EndOf(at, b, i) /\ EndOf(at, b, i) \in p + 1 .. Len(Toks)
         /\ \A k \in p .. EndOf(at, b, i) - 1 : Kind(Toks, k) = "word"
         /\ WordsAt(Toks, p) = WordsOf(b, i) /\ (HasBlock(Toks, p) <=> ChildOf(b, i) # 0)
<1>1. token = "eof" /\ last # "word"
  BY MarksNamed DEF PInv, Outcome
<1>2. Done = Len(Toks) /\ Toks \in Seq(Token) /\ Len(Toks) \in Nat
  BY <1>1, EndLeft, FollowedNow
<1> DEFINE e == EndOf(at, b, i)
           L == Len(WordsOf(b, i))
           ws == WordsOf(b, i)
<1>3. /\ e <= Len(Toks) /\ e \in Nat /\ p \in Nat
  BY <1>1, <1>2, GoesOnOrDone
<1>4. Worded(at, b, i) /\ ws \in Seq(WordSet) /\ L \in Nat /\ L > 0
  BY StatementIs1 DEF Placed
<1>5. /\ p \in 1 .. Len(Toks) /\ Starts(Toks, p)
      /\ \A k \in 1 .. L : Toks[p + k - 1] = WordToken(ws[k])
      /\ Kind(Toks, e) # "word" /\ (Kind(Toks, e) = Opens <=> ChildOf(b, i) # 0)
  BY <1>2, <1>3, <1>4 DEF Worded
<1>6. e = p + L
  BY DEF EndOf
<1>7. ws = [k \in 1 .. L |-> ws[k]]
  BY <1>4
<1> HIDE DEF e, L, ws
<1>8. e \in p + 1 .. Len(Toks)
  BY <1>3, <1>4, <1>6
<1>9. ASSUME NEW k \in p .. e - 1 PROVE Kind(Toks, k) = "word"
  <2>1. k - p + 1 \in 1 .. L /\ p + (k - p + 1) - 1 = k
    BY <1>3, <1>4, <1>6, SMTT(30)
  <2>2. Toks[k] = WordToken(ws[k - p + 1])
    BY <1>5, <2>1
  <2> QED
    BY <2>2 DEF Kind, WordToken
<1>10. After(Toks, p) = e
  BY <1>2, <1>3, <1>5, <1>8, <1>9, AfterIs
<1>11. p \in Begins(Toks)
  <2>1. DOMAIN Toks = 1 .. Len(Toks)
    BY <1>2
  <2> QED
    BY <1>5, <2>1 DEF Begins, Starts, Kind
<1>12. WordsAt(Toks, p) = ws
  <2>1. e - p = L
    BY <1>3, <1>4, <1>6
  <2>1a. \A w : WordToken(w).word = w
    BY DEF WordToken
  <2>2. \A k \in 1 .. L : Toks[p + k - 1].word = ws[k]
    BY <1>5, <2>1a
  <2> QED
    BY <1>7, <1>10, <2>1, <2>2 DEF WordsAt
<1>13. HasBlock(Toks, p) <=> ChildOf(b, i) # 0
  BY <1>5, <1>10, Zenon DEF HasBlock, Kind, Opens
<1> QED
  BY <1>8, <1>9, <1>10, <1>11, <1>12, <1>13 DEF e, ws

\* Every statement of the text was read.
LEMMA AcceptedAll ==
  ASSUME PInv, status = "accepted", NEW at, Placed(at), NEW p \in Begins(Toks)
  PROVE  \E b \in DOMAIN blocks : \E i \in DOMAIN blocks[b] : at[<<b, i>>] = p
<1>1. token = "eof"
  BY DEF PInv, Outcome
<1>2. Done = Len(Toks) /\ Toks \in Seq(Token)
  BY <1>1, EndLeft, FollowedNow
<1>3. p \in 1 .. Done /\ Starts(Toks, p)
  BY <1>2 DEF Begins, Starts, Kind
<1> QED
  BY <1>3 DEF Placed

\* What is in the block of a statement is inside it in the text.
LEMMA AcceptedInside ==
  ASSUME PInv, status = "accepted", NEW at \in Spots, Placed(at),
         NEW b \in DOMAIN blocks, NEW i \in DOMAIN blocks[b],
         NEW c, c = ChildOf(b, i), c # 0, NEW j \in DOMAIN blocks[c]
  PROVE  c \in DOMAIN blocks /\ at[<<c, j>>] \in Inside(Toks, at[<<b, i>>])
<1>1. c \in DOMAIN blocks
  <2>1. b \in Nat /\ c \in b + 1 .. Len(blocks)
    BY StatementIs1
  <2> QED
    BY <2>1 DEF PInv, CInv, IInv, Typed
<1> DEFINE p == at[<<b, i>>]
           q == at[<<c, j>>]
           e == EndOf(at, b, i)
<1>2. p \in Begins(Toks) /\ e \in p + 1 .. Len(Toks) /\ \A k \in p .. e - 1 : Kind(Toks, k) = "word"
  BY AcceptedAt
<1>3. q \in Begins(Toks)
  BY <1>1, AcceptedAt
<1>4. Within(p, e, q) /\ DepthAt(Toks, q) = DepthAt(Toks, p) + 1
  BY DEF Placed, Nested
<1>5. p \in Nat \ {0} /\ q \in Nat /\ e \in Nat
  <2>1. b \in Nat /\ i \in Nat /\ c \in Nat /\ j \in Nat
    BY <1>1, StatementIs1
  <2>2. p \in Nat /\ q \in Nat
    BY <2>1 DEF Spots
  <2>3. p # 0
    BY <1>2, FollowedNow DEF Begins
  <2> QED
    BY <1>2, <2>2, <2>3
<1>6. Kind(Toks, e) # "word"
  <2>1. Worded(at, b, i) /\ EndOf(at, b, i) <= Done
    BY GoesOnOrDone DEF Placed
  <2> QED
    BY <2>1 DEF Worded
<1> HIDE DEF p, q, e
<1>7. ASSUME NEW k \in p + 1 .. q, k \in Begins(Toks) PROVE DepthAt(Toks, k) > DepthAt(Toks, p)
  <2>1. CASE k > e
    <3>1. k \in e + 1 .. q
      BY <1>5, <2>1
    <3> QED
      BY <1>4, <3>1 DEF Within
  <2>2. CASE k <= e
    <3>1. Kind(Toks, k) = "word" /\ (k = 1 \/ Kind(Toks, k - 1) # "word")
      BY <1>7 DEF Begins, Kind
    <3>2. k # e
      BY <1>6, <3>1
    <3>3. k - 1 \in p .. e - 1 /\ k # 1
      BY <1>5, <2>2, <3>2
    <3> QED
      BY <1>2, <3>1, <3>3
  <2> QED
    BY <1>5, <2>1, <2>2
<1>8. p < q
  BY <1>2, <1>4, <1>5 DEF Within
<1>9. q \in Inside(Toks, p)
  BY <1>3, <1>4, <1>7, <1>8 DEF Inside
<1> QED
  BY <1>1, <1>9 DEF p, q

\* get_port_num of block b, with f for the blocks inside.
Result(f, b) ==
  LET i == SelectInSeq(blocks[b], LAMBDA s :
             IF s.child = 0 THEN s.words[1] = <<"port">> ELSE IsFound(f[s.child]))
  IN IF i = 0 THEN NoPort
     ELSE LET s == blocks[b][i] IN IF s.child = 0 THEN PortIn(s) ELSE f[s.child]
Finds(f, a) == f = [b \in a .. Len(blocks) |-> Result(f, b)]

Picks(f, b) ==
  {i \in 1 .. Len(blocks[b]) :
    IF ChildOf(b, i) = 0 THEN WordsOf(b, i)[1] = <<"port">> ELSE f[ChildOf(b, i)] # NoPort}

LEMMA ResultIs ==
  ASSUME NEW f, NEW b, Len(blocks[b]) \in Nat
  PROVE  /\ Picks(f, b) = {} => Result(f, b) = NoPort
         /\ Picks(f, b) # {} =>
              /\ Min(Picks(f, b)) \in Picks(f, b)
              /\ Result(f, b) = IF ChildOf(b, Min(Picks(f, b))) = 0 THEN PortIn(blocks[b][Min(Picks(f, b))])
                                ELSE f[ChildOf(b, Min(Picks(f, b)))]
<1> DEFINE I == {i \in 1 .. Len(blocks[b]) :
                  IF blocks[b][i].child = 0 THEN blocks[b][i].words[1] = <<"port">>
                  ELSE IsFound(f[blocks[b][i].child])}
           k == IF I # {} THEN Min(I) ELSE 0
<1>1. I = Picks(f, b)
  BY DEF Picks, ChildOf, WordsOf, IsFound
<1>2. Result(f, b) = IF k = 0 THEN NoPort
                     ELSE IF ChildOf(b, k) = 0 THEN PortIn(blocks[b][k]) ELSE f[ChildOf(b, k)]
  BY Zenon DEF Result, SelectInSeq, ChildOf
<1>3. I # {} => Min(I) \in I
  <2> SUFFICES ASSUME I # {} PROVE Min(I) \in I
    OBVIOUS
  <2>1. I \subseteq Nat
    OBVIOUS
  <2> HIDE DEF I
  <2>2. \E x \in I : \A y \in I : x <= y
    BY <2>1, LeastNumber
  <2> QED
    BY <2>2 DEF Min
<1>3a. I \subseteq Nat \ {0}
  OBVIOUS
<1> HIDE DEF I
<1>4. I # {} => Min(I) # 0
  BY <1>3, <1>3a
<1> QED
  BY <1>1, <1>2, <1>3, <1>4

\* It asks for the blocks inside only.
LEMMA ResultSame ==
  ASSUME NEW f, NEW g, NEW b, Len(blocks[b]) \in Nat,
         \A i \in 1 .. Len(blocks[b]) : ChildOf(b, i) # 0 => f[ChildOf(b, i)] = g[ChildOf(b, i)]
  PROVE  Result(f, b) = Result(g, b)
<1>1. Picks(f, b) = Picks(g, b)
  BY DEF Picks
<1>2. \A i \in Picks(f, b) : ChildOf(b, i) # 0 => f[ChildOf(b, i)] = g[ChildOf(b, i)]
  BY DEF Picks
<1> QED
  BY <1>1, <1>2, ResultIs

LEMMA FindsExists ==
  ASSUME PInv, NEW k \in Nat, k <= Len(blocks)
  PROVE  \E f : Finds(f, Len(blocks) + 1 - k)
<1> DEFINE n == Len(blocks)
           T == {m \in Nat : m <= n => \E f : Finds(f, n + 1 - m)}
<1>0. n \in Nat /\ DOMAIN blocks = 1 .. n
  BY DEF PInv, CInv, IInv, Typed
<1>1. ASSUME NEW m \in Nat, \A l \in 0 .. m - 1 : l \in T PROVE m \in T
  <2> SUFFICES ASSUME m <= n PROVE \E f : Finds(f, n + 1 - m)
    OBVIOUS
  <2>1. CASE m = 0
    <3> DEFINE f == [b \in n + 1 .. n |-> 0]
    <3>1. n + 1 .. n = {} /\ n + 1 - m = n + 1
      BY <1>0, <2>1
    <3>2. f = [b \in n + 1 .. n |-> Result(f, b)]
      BY <3>1
    <3> QED
      BY <3>1, <3>2 DEF Finds
  <2>2. CASE m # 0
    <3> DEFINE a == n + 1 - m
    <3>1. PICK f : Finds(f, a + 1)
      <4>1. m - 1 \in T /\ n + 1 - (m - 1) = a + 1
        BY <1>0, <1>1, <2>2
      <4> QED
        BY <1>0, <2>2, <4>1
    <3>2. a \in 1 .. n
      BY <1>0, <2>2
    <3> DEFINE g == [b \in a .. n |-> IF b = a THEN Result(f, a) ELSE f[b]]
    <3>3. \A b \in a + 1 .. n : g[b] = f[b]
      BY <1>0, <3>2
    <3>3a. g[a] = Result(f, a)
      BY <1>0, <3>2
    <3>4. g = [b \in a .. n |-> g[b]]
      OBVIOUS
    <3>5. \A b \in a + 1 .. n : f[b] = Result(f, b)
      BY <3>1 DEF Finds
    <3> HIDE DEF a, g
    <3>6. ASSUME NEW b \in a .. n PROVE g[b] = Result(g, b)
      <4>1. b \in DOMAIN blocks
        BY <1>0, <3>2, <3>6
      <4>2. Len(blocks[b]) \in Nat /\ DOMAIN blocks[b] = 1 .. Len(blocks[b])
        <5>1. blocks[b] \in Seq(StatementSet)
          BY <4>1 DEF PInv, CInv, IInv, Typed
        <5> QED
          BY <5>1
      <4>3. ASSUME NEW i \in 1 .. Len(blocks[b]), ChildOf(b, i) # 0
            PROVE  f[ChildOf(b, i)] = g[ChildOf(b, i)]
        <5>1. ChildOf(b, i) \in b + 1 .. n
          BY <4>1, <4>2, <4>3, StatementIs1
        <5>2. ChildOf(b, i) \in a + 1 .. n
          BY <1>0, <3>2, <5>1
        <5> QED
          BY <3>3, <5>2
      <4>4. Result(f, b) = Result(g, b)
        BY <4>2, <4>3, ResultSame
      <4>5. b = a \/ b \in a + 1 .. n
        BY <1>0, <3>2
      <4> QED
        BY <3>3, <3>3a, <3>5, <4>4, <4>5
    <3>7. Finds(g, a)
      BY <3>4, <3>6 DEF Finds
    <3> QED
      BY <3>7 DEF a
  <2> QED
    BY <2>1, <2>2
<1> HIDE DEF T
<1>2. Nat \subseteq T
  BY <1>1, Induction
<1> QED
  BY <1>2 DEF T

LEMMA PortNumIs ==
  ASSUME PInv
  PROVE  \E f : PortNum = f[1] /\ \A b \in DOMAIN blocks : f[b] = Result(f, b)
<1>1. Len(blocks) \in Nat /\ DOMAIN blocks = 1 .. Len(blocks) /\ Len(blocks) + 1 - Len(blocks) = 1
  BY DEF PInv, CInv, IInv, Typed
<1>2. \E f : Finds(f, 1)
  BY <1>1, FindsExists
<1> DEFINE f == CHOOSE g : Finds(g, 1)
<1>3. Finds(f, 1)
  BY <1>2
<1>4. PortNum = f[1]
  BY DEF PortNum, Finds, Result
<1> HIDE DEF f
<1>5. \A b \in DOMAIN blocks : f[b] = Result(f, b)
  BY <1>1, <1>3 DEF Finds
<1> QED
  BY <1>4, <1>5

\* A port statement, and the numbers got for the blocks.
IsPort(b, i) == ChildOf(b, i) = 0 /\ WordsOf(b, i)[1] = <<"port">>
Founds(f) == \A b \in DOMAIN blocks : f[b] = Result(f, b)

LEMMA FoundIs ==
  ASSUME PInv, NEW f, Founds(f), NEW b \in DOMAIN blocks
  PROVE  /\ Picks(f, b) = {} => f[b] = NoPort
         /\ Picks(f, b) # {} => \E i \in DOMAIN blocks[b] :
              \/ IsPort(b, i) /\ f[b] = PortIn(blocks[b][i])
              \/ /\ ChildOf(b, i) \in DOMAIN blocks /\ ChildOf(b, i) > b
                 /\ f[ChildOf(b, i)] # NoPort /\ f[b] = f[ChildOf(b, i)]
<1>1. Len(blocks[b]) \in Nat /\ DOMAIN blocks[b] = 1 .. Len(blocks[b])
  <2>1. blocks[b] \in Seq(StatementSet)
    BY DEF PInv, CInv, IInv, Typed
  <2> QED
    BY <2>1
<1>2. f[b] = Result(f, b)
  BY DEF Founds
<1>3. Picks(f, b) = {} => f[b] = NoPort
  BY <1>1, <1>2, ResultIs
<1>4. ASSUME Picks(f, b) # {}
      PROVE  \E i \in DOMAIN blocks[b] :
              \/ IsPort(b, i) /\ f[b] = PortIn(blocks[b][i])
              \/ /\ ChildOf(b, i) \in DOMAIN blocks /\ ChildOf(b, i) > b
                 /\ f[ChildOf(b, i)] # NoPort /\ f[b] = f[ChildOf(b, i)]
  <2>1. PICK i : /\ i \in Picks(f, b)
                 /\ f[b] = IF ChildOf(b, i) = 0 THEN PortIn(blocks[b][i]) ELSE f[ChildOf(b, i)]
    BY <1>1, <1>2, <1>4, ResultIs
  <2>2. i \in DOMAIN blocks[b]
    BY <1>1, <2>1 DEF Picks
  <2>3. CASE ChildOf(b, i) = 0
    BY <2>1, <2>2, <2>3 DEF Picks, IsPort
  <2>4. CASE ChildOf(b, i) # 0
    <3>1. ChildOf(b, i) \in b + 1 .. Len(blocks) /\ b \in Nat
      BY <2>2, <2>4, StatementIs1
    <3>2. ChildOf(b, i) \in DOMAIN blocks /\ ChildOf(b, i) > b
      BY <3>1 DEF PInv, CInv, IInv, Typed
    <3> QED
      BY <2>1, <2>2, <2>4, <3>2 DEF Picks
  <2> QED
    BY <2>3, <2>4
<1> QED
  BY <1>3, <1>4

\* What is found in a block is some port statement's.
LEMMA FoundFrom ==
  ASSUME PInv, NEW f, Founds(f), NEW b \in DOMAIN blocks, f[b] # NoPort
  PROVE  \E c \in DOMAIN blocks : \E i \in DOMAIN blocks[c] :
           IsPort(c, i) /\ f[b] = PortIn(blocks[c][i])
<1> DEFINE n == Len(blocks)
           From1(a) == \E c \in DOMAIN blocks : \E i \in DOMAIN blocks[c] :
                         IsPort(c, i) /\ f[a] = PortIn(blocks[c][i])
           T == {m \in Nat : m <= n => \A a \in DOMAIN blocks : a = n - m /\ f[a] # NoPort => From1(a)}
<1>0. n \in Nat /\ DOMAIN blocks = 1 .. n
  BY DEF PInv, CInv, IInv, Typed
<1>1. ASSUME NEW m \in Nat, \A l \in 0 .. m - 1 : l \in T PROVE m \in T
  <2> SUFFICES ASSUME m <= n, NEW a \in DOMAIN blocks, a = n - m, f[a] # NoPort PROVE From1(a)
    OBVIOUS
  <2>1. PICK i \in DOMAIN blocks[a] :
              \/ IsPort(a, i) /\ f[a] = PortIn(blocks[a][i])
              \/ /\ ChildOf(a, i) \in DOMAIN blocks /\ ChildOf(a, i) > a
                 /\ f[ChildOf(a, i)] # NoPort /\ f[a] = f[ChildOf(a, i)]
    BY FoundIs
  <2>2. CASE IsPort(a, i) /\ f[a] = PortIn(blocks[a][i])
    BY <2>2
  <2>3. ASSUME NEW c, c = ChildOf(a, i), c \in DOMAIN blocks, c > a, f[c] # NoPort, f[a] = f[c]
        PROVE  From1(a)
    <3>1. n - c \in 0 .. m - 1 /\ n - c \in Nat /\ n - c <= n /\ c = n - (n - c)
      BY <1>0, <2>3
    <3>2. n - c \in T
      BY <1>1, <3>1
    <3>3. From1(c)
      BY <2>3, <3>1, <3>2
    <3> QED
      BY <2>3, <3>3
  <2> QED
    BY <2>1, <2>2, <2>3
<1>2. ASSUME NEW x \in T, x = n - b PROVE From1(b)
  <2>1. x <= n /\ b = n - x
    BY <1>0, <1>2
  <2> QED
    BY <1>2, <2>1
<1> HIDE DEF T, From1
<1>3. Nat \subseteq T
  BY <1>1, Induction
<1>4. n - b \in T
  BY <1>0, <1>3
<1>5. From1(b)
  BY <1>2, <1>4
<1> QED
  BY <1>5 DEF From1

\* What is found in a block is found at the top, if no port is out of range: one
\* that is hides what is behind it.
LEMMA FoundAtTop ==
  ASSUME PInv, Owned, NEW f, Founds(f), NEW b \in DOMAIN blocks, f[b] # NoPort,
         \A c \in DOMAIN blocks : \A i \in DOMAIN blocks[c] :
           IsPort(c, i) => PortIn(blocks[c][i]) # NoPort
  PROVE  f[1] # NoPort
<1> DEFINE T == {m \in Nat : m \in DOMAIN blocks /\ f[m] # NoPort => f[1] # NoPort}
<1>0. DOMAIN blocks = 1 .. Len(blocks) /\ Len(blocks) \in Nat
  BY DEF PInv, CInv, IInv, Typed
<1>1. ASSUME NEW m \in Nat, \A l \in 0 .. m - 1 : l \in T PROVE m \in T
  <2> SUFFICES ASSUME m \in DOMAIN blocks, f[m] # NoPort, m # 1 PROVE f[1] # NoPort
    OBVIOUS
  <2>1. PICK a \in DOMAIN blocks : \E i \in DOMAIN blocks[a] : ChildOf(a, i) = m
    BY DEF Owned
  <2>2. PICK i \in DOMAIN blocks[a] : ChildOf(a, i) = m
    BY <2>1
  <2>3. m # 0 /\ m \in a + 1 .. Len(blocks) /\ a \in Nat
    BY <1>0, <2>2, StatementIs1
  <2>4. i \in 1 .. Len(blocks[a])
    <3>1. blocks[a] \in Seq(StatementSet)
      BY DEF PInv, CInv, IInv, Typed
    <3> QED
      BY <3>1
  <2>5. i \in Picks(f, a)
    BY <2>2, <2>3, <2>4 DEF Picks
  <2>6. f[a] # NoPort
    <3>1. PICK k \in DOMAIN blocks[a] :
              \/ IsPort(a, k) /\ f[a] = PortIn(blocks[a][k])
              \/ f[ChildOf(a, k)] # NoPort /\ f[a] = f[ChildOf(a, k)]
      BY <2>5, FoundIs
    <3> QED
      BY <3>1
  <2>7. a \in 0 .. m - 1
    BY <1>0, <2>3
  <2> QED
    BY <1>1, <2>6, <2>7
<1> HIDE DEF T
<1>2. Nat \subseteq T
  BY <1>1, Induction
<1>3. b \in T
  BY <1>0, <1>2
<1> QED
  BY <1>3 DEF T

\* What main made of the configuration.
MainInv ==
  /\ server \in {"none", "refused", "up", "undefined"}
  /\ server # "none" => status \in {"accepted", "rejected"}
  /\ server = "none" => port = NoPort
  /\ server = "up" => status = "accepted" /\ PortNum # NoPort /\ port = PortNum
  /\ server = "refused" => port = NoPort /\ (status = "accepted" => PortNum = NoPort)
  /\ server = "undefined" => status = "accepted" /\ (PortNum = PastTheEnd \/ Misreads # {})

\* get_port_num asks for nothing but the blocks.
PortNumOf(bs) ==
  LET found[b \in 1 .. Len(bs)] ==
        LET i == SelectInSeq(bs[b], LAMBDA s :
                   IF s.child = 0 THEN s.words[1] = <<"port">> ELSE IsFound(found[s.child]))
        IN IF i = 0 THEN NoPort
           ELSE LET s == bs[b][i] IN IF s.child = 0 THEN PortIn(s) ELSE found[s.child]
  IN found[1]

LEMMA SameBlocks ==
  ASSUME blocks' = blocks
  PROVE  PortNum' = PortNum /\ Misreads' = Misreads
<1>1. PortNum' = PortNum
  <2>1. PortNum = PortNumOf(blocks)
    BY DEF PortNum, PortNumOf
  <2>2. PortNum' = PortNumOf(blocks')
    BY DEF PortNum, PortNumOf, SelectInSeq
  <2> QED
    BY <2>1, <2>2
<1>2. Misreads' = Misreads
  BY DEF Misreads, Misread
<1> QED
  BY <1>1, <1>2

LEMMA MainKeeps == MainInv /\ [Next]_vars => MainInv'
<1> SUFFICES ASSUME MainInv, [Next]_vars PROVE MainInv'
  OBVIOUS
<1>1. CASE ParseToken \/ Parse
  <2>1. status = "reading" /\ UNCHANGED main
    BY <1>1 DEF ParseToken, Skip, Mark, Begin, Continue, WordEnd, CommentEnd, QuoteEnd, EndOfFile,
       Reading, Parse, SkipComment, Word, EndStatement, StartBlock, EndBlock, Accept, Reject, Derail,
       Handle, Stop
  <2>2. server = "none" /\ port = NoPort
    BY <2>1 DEF MainInv
  <2> QED
    BY <2>1, <2>2 DEF MainInv, main
<1>2. CASE Refuse
  <2>1. blocks' = blocks /\ status' = status /\ PortNum' = PortNum /\ port' = port
    BY <1>2, SameBlocks DEF Refuse, parser
  <2> QED
    BY <1>2, <2>1 DEF MainInv, Refuse
<1>3. CASE Start
  <2>1. blocks' = blocks /\ status' = status /\ PortNum' = PortNum /\ Misreads' = Misreads
    BY <1>3, SameBlocks DEF Start, parser
  <2> QED
    BY <1>3, <2>1 DEF MainInv, Start
<1>4. CASE UNCHANGED vars
  <2>1. UNCHANGED <<status, server, port>> /\ PortNum' = PortNum /\ Misreads' = Misreads
    BY <1>4, SameBlocks DEF vars, parser, main
  <2> QED
    BY <2>1 DEF MainInv
<1> QED
  BY <1>1, <1>2, <1>3, <1>4 DEF Next

LEMMA InitMain == Init => MainInv
BY DEF Init, MainInv

\* A port in range is one, and none is past the end.
LEMMA PortIs ==
  ASSUME NEW s
  PROVE  /\ Len(s.words) < 2 => PortIn(s) = PastTheEnd
         /\ ~(Len(s.words) < 2) =>
              PortIn(s) = (IF InRange(Atoi(s.words[2])) THEN Atoi(s.words[2]) ELSE NoPort)
         /\ PortIn(s) = PastTheEnd => Len(s.words) < 2
         /\ PastTheEnd # NoPort
<1>1. \A w : Atoi(w) \in {-8000, 0, 8000, 70000}
  BY DEF Atoi
<1>2. PastTheEnd = -2 /\ NoPort = -1
  BY DEF PastTheEnd, NoPort
<1>3. \A w : Atoi(w) # PastTheEnd /\ PastTheEnd # NoPort
  BY <1>1, <1>2
<1> QED
  BY <1>3 DEF PortIn

\* A port statement of the blocks is one of the text, and the other way around.
LEMMA PortAt ==
  ASSUME PInv, status = "accepted", NEW at \in Spots, Placed(at),
         NEW b \in DOMAIN blocks, NEW i \in DOMAIN blocks[b], NEW p, p = at[<<b, i>>]
  PROVE  /\ p \in Begins(Toks) /\ WordsAt(Toks, p) = WordsOf(b, i)
         /\ IsPort(b, i) <=> WordsAt(Toks, p)[1] = <<"port">> /\ ~HasBlock(Toks, p)
<1>1. p \in Begins(Toks) /\ WordsAt(Toks, p) = WordsOf(b, i) /\ (HasBlock(Toks, p) <=> ChildOf(b, i) # 0)
  BY AcceptedAt
<1> QED
  BY <1>1 DEF IsPort

LEMMA PortRead == PlacedInv /\ MainInv => PortAsWritten
<1> SUFFICES ASSUME PlacedInv, MainInv, status = "accepted", server \in {"up", "refused"}
             PROVE  PortAsWritten
  BY DEF PortAsWritten
<1>0. PInv /\ Owned
  BY DEF PlacedInv
<1>1. PICK at \in Spots : Placed(at)
  BY DEF PlacedInv
<1>2. PICK f : PortNum = f[1] /\ Founds(f)
  BY <1>0, PortNumIs DEF Founds
<1>3. 1 \in DOMAIN blocks
  BY <1>0 DEF Owned
<1>4. ASSUME NEW b \in DOMAIN blocks, NEW i \in DOMAIN blocks[b], IsPort(b, i)
      PROVE  /\ at[<<b, i>>] \in Ports(Toks) /\ WordsAt(Toks, at[<<b, i>>]) = WordsOf(b, i)
             /\ Len(WordsOf(b, i)) > 1 => PortIn(blocks[b][i]) = NumberAt(Toks, at[<<b, i>>])
  <2>1. at[<<b, i>>] \in Ports(Toks) /\ WordsAt(Toks, at[<<b, i>>]) = WordsOf(b, i)
    BY <1>0, <1>1, <1>4, PortAt DEF Ports
  <2>2. Len(WordsOf(b, i)) \in Nat
    BY <1>0, StatementIs1
  <2>3. blocks[b][i].words = WordsOf(b, i)
    BY DEF WordsOf
  <2>4. ASSUME Len(WordsOf(b, i)) > 1
        PROVE  PortIn(blocks[b][i]) = IF InRange(Atoi(WordsOf(b, i)[2])) THEN Atoi(WordsOf(b, i)[2]) ELSE NoPort
    <3>1. ~(Len(WordsOf(b, i)) < 2)
      BY <2>2, <2>4
    <3> QED
      BY <2>3, <3>1, PortIs
  <2> QED
    BY <2>1, <2>4 DEF NumberAt, InRange
<1>5. ASSUME Ports(Toks) = {} PROVE server = "refused"
  <2>1. ASSUME f[1] # NoPort PROVE FALSE
    <3>1. PICK c \in DOMAIN blocks : \E i \in DOMAIN blocks[c] : IsPort(c, i)
      BY <1>0, <1>2, <1>3, <2>1, FoundFrom
    <3>2. PICK i \in DOMAIN blocks[c] : IsPort(c, i)
      BY <3>1
    <3> QED
      BY <1>4, <1>5, <3>2
  <2> QED
    BY <1>2, <2>1 DEF MainInv
<1>6. ASSUME NEW i \in Ports(Toks), Ports(Toks) = {i}, Len(WordsAt(Toks, i)) > 1
      PROVE  port = NumberAt(Toks, i)
  <2>1. ASSUME NEW b \in DOMAIN blocks, NEW k \in DOMAIN blocks[b], IsPort(b, k)
        PROVE  PortIn(blocks[b][k]) = NumberAt(Toks, i)
    <3>1. at[<<b, k>>] \in Ports(Toks)
      BY <1>4, <2>1
    <3>2. at[<<b, k>>] = i
      BY <1>6, <3>1
    <3> QED
      BY <1>4, <1>6, <2>1, <3>2
  <2>2. \A b \in DOMAIN blocks : f[b] # NoPort => f[b] = NumberAt(Toks, i)
    BY <1>0, <1>2, <2>1, FoundFrom
  <2>3. CASE NumberAt(Toks, i) = NoPort
    <3>1. PortNum = NoPort
      BY <1>2, <1>3, <2>2, <2>3
    <3> QED
      BY <2>3, <3>1 DEF MainInv
  <2>4. CASE NumberAt(Toks, i) # NoPort
    <3>1. PICK b \in DOMAIN blocks : \E k \in DOMAIN blocks[b] : at[<<b, k>>] = i
      BY <1>0, <1>1, AcceptedAll DEF Ports
    <3>2. PICK k \in DOMAIN blocks[b] : at[<<b, k>>] = i
      BY <3>1
    <3>3. IsPort(b, k)
      BY <1>0, <1>1, <3>2, PortAt DEF Ports
    <3>4. Picks(f, b) # {}
      <4>1. k \in 1 .. Len(blocks[b])
        <5>1. blocks[b] \in Seq(StatementSet)
          BY <1>0 DEF PInv, CInv, IInv, Typed
        <5> QED
          BY <5>1
      <4> QED
        BY <3>3, <4>1 DEF Picks, IsPort
    <3>5. f[b] # NoPort
      BY <1>0, <1>2, <2>1, <2>4, <3>4, FoundIs
    <3>6. \A c \in DOMAIN blocks : \A l \in DOMAIN blocks[c] : IsPort(c, l) => PortIn(blocks[c][l]) # NoPort
      BY <2>1, <2>4
    <3>7. f[1] # NoPort
      BY <1>0, <1>2, <3>5, <3>6, FoundAtTop
    <3>8. PortNum = NumberAt(Toks, i) /\ PortNum # NoPort
      BY <1>2, <1>3, <2>2, <3>7
    <3> QED
      BY <3>8 DEF MainInv
  <2> QED
    BY <2>3, <2>4
<1> QED
  BY <1>5, <1>6 DEF PortAsWritten, Toks

\* In a configuration without anything missing no query reads past the end.
LEMMA SoundRead == PlacedInv /\ MainInv => SoundIsRead
<1> SUFFICES ASSUME PlacedInv, MainInv, server = "undefined", Sound(Toks) PROVE FALSE
  BY DEF SoundIsRead, MainInv, Toks
<1>0. PInv /\ status = "accepted" /\ (PortNum = PastTheEnd \/ Misreads # {})
  BY DEF PlacedInv, MainInv
<1>1. PICK at \in Spots : Placed(at)
  BY DEF PlacedInv
<1>2. ASSUME NEW b \in DOMAIN blocks, NEW i \in DOMAIN blocks[b], NEW p, p = at[<<b, i>>]
      PROVE  p \in Begins(Toks) /\ WordsAt(Toks, p) = WordsOf(b, i) /\ (HasBlock(Toks, p) <=> ChildOf(b, i) # 0)
  BY <1>0, <1>1, <1>2, AcceptedAt
<1>3. ASSUME PortNum = PastTheEnd PROVE FALSE
  <2>1. PICK f : PortNum = f[1] /\ Founds(f)
    BY <1>0, PortNumIs DEF Founds
  <2>2. 1 \in DOMAIN blocks /\ f[1] # NoPort
    BY <1>3, <2>1, PortIs DEF PlacedInv, Owned
  <2>3. PICK c \in DOMAIN blocks : \E i \in DOMAIN blocks[c] : IsPort(c, i) /\ f[1] = PortIn(blocks[c][i])
    BY <1>0, <2>1, <2>2, FoundFrom
  <2>4. PICK i \in DOMAIN blocks[c] : IsPort(c, i) /\ f[1] = PortIn(blocks[c][i])
    BY <2>3
  <2>5. Len(WordsOf(c, i)) < 2
    BY <1>3, <2>1, <2>4, PortIs DEF WordsOf
  <2>6. PICK p : p = at[<<c, i>>]
    OBVIOUS
  <2>7. p \in Begins(Toks) /\ WordsAt(Toks, p) = WordsOf(c, i) /\ ~HasBlock(Toks, p)
    BY <1>2, <2>4, <2>6 DEF IsPort
  <2>8. Len(WordsOf(c, i)) > 1
    BY <2>4, <2>7 DEF Sound, IsPort
  <2>9. Len(WordsOf(c, i)) \in Nat
    BY <1>0, StatementIs1
  <2> QED
    BY <2>5, <2>8, <2>9
<1>4. ASSUME NEW i \in DOMAIN blocks[1], Misread(i) PROVE FALSE
  <2>0. 1 \in DOMAIN blocks
    BY DEF PlacedInv, Owned
  <2>1. PICK p : p = at[<<1, i>>]
    OBVIOUS
  <2>2. PICK ws : ws = WordsOf(1, i)
    OBVIOUS
  <2>3. PICK c : c = ChildOf(1, i)
    OBVIOUS
  <2>4. p \in Begins(Toks) /\ WordsAt(Toks, p) = ws /\ (HasBlock(Toks, p) <=> c # 0)
    BY <1>2, <2>0, <2>1, <2>2, <2>3
  <2>5. DepthAt(Toks, p) = 0
    BY <1>1, <2>1 DEF Placed
  <2>6. ws[1] = <<"location">>
    BY <1>4, <2>2, Zenon DEF Misread, WordsOf
  <2>7. /\ Len(ws) > 2
        /\ ws[3][1] \in {"CrudHandler", "MarkdownHandler", "StaticHandler"} =>
             /\ c # 0
             /\ \A j \in Inside(Toks, p) :
                  Len(WordsAt(Toks, j)) > 1 /\ Last(WordsAt(Toks, j)) # <<"root">>
    BY <2>4, <2>5, <2>6 DEF Sound
  <2>8. ASSUME c # 0, NEW a \in ToSet(blocks[c]), ws[3][1] \in {"CrudHandler", "MarkdownHandler", "StaticHandler"}
        PROVE  Len(a.words) > 1 /\ Last(a.words) # <<"root">> /\ Len(a.words) \in Nat
    <3>1. PICK j \in DOMAIN blocks[c] : a = blocks[c][j]
      BY DEF ToSet
    <3>2. PICK q : q = at[<<c, j>>]
      OBVIOUS
    <3>3. c \in DOMAIN blocks /\ q \in Inside(Toks, p)
      BY <1>0, <1>1, <2>0, <2>1, <2>3, <2>8, <3>2, AcceptedInside
    <3>4. WordsAt(Toks, q) = WordsOf(c, j) /\ Len(WordsOf(c, j)) \in Nat
      BY <1>0, <1>2, <3>2, <3>3, StatementIs1
    <3>5. a.words = WordsOf(c, j)
      BY <3>1 DEF WordsOf
    <3> QED
      BY <2>7, <2>8, <3>3, <3>4, <3>5
  <2>9. Len(ws) \in Nat
    BY <1>0, <2>0, <2>2, StatementIs1
  <2>10. /\ \A h : ws[3] = <<h>> => ws[3][1] = h
         /\ ~(Len(ws) < 3)
    BY <2>7, <2>9
  <2>11. \/ ws[3][1] \in {"CrudHandler", "MarkdownHandler"} /\ (c = 0 \/ \E a \in ToSet(blocks[c]) : NoArgument(a))
         \/ ws[3][1] = "StaticHandler" /\ (c = 0 \/ \E a \in ToSet(blocks[c]) : Last(a.words) = <<"root">>)
    <3>1. blocks[1][i].words = ws /\ blocks[1][i].child = c
      BY <2>2, <2>3 DEF WordsOf, ChildOf
    <3> QED
      BY <1>4, <2>10, <3>1, Zenon DEF Misread
  <2>12. ASSUME c # 0, NEW a \in ToSet(blocks[c]), ws[3][1] \in {"CrudHandler", "MarkdownHandler"} PROVE ~NoArgument(a)
    BY <2>8, <2>12 DEF NoArgument
  <2> QED
    BY <2>7, <2>8, <2>11, <2>12
<1> QED
  BY <1>0, <1>3, <1>4 DEF Misreads

LEMMA NextReads == PlacedInv /\ MainInv /\ [Next]_vars => (PlacedInv /\ MainInv)'
BY PlacedKeeps, MainKeeps

\* get_port_num and the queries that configMap calls index past the end of a
\* statement only where the text lacks what it should say: the statements they read
\* are the text's, each with its words and with what is between its braces.
THEOREM QueriesStayInside == Spec => []SoundIsRead
<1>1. Init => PlacedInv /\ MainInv
  BY InitPlaced, InitMain
<1> QED
  BY <1>1, NextReads, SoundRead, PTL DEF Spec

\* A text with one port statement, however deep get_port_num must go for it, has the
\* server listen on its number, or not start if it is out of range; one without any
\* does not start it.
THEOREM ListensAsWritten == Spec => []PortAsWritten
<1>1. Init => PlacedInv /\ MainInv
  BY InitPlaced, InitMain
<1> QED
  BY <1>1, NextReads, PortRead, PTL DEF Spec

----------------------------------------------------------------------------
(* What ToString writes: W is what it writes of each block.                *)

Written == Seq(Token)
Writings == [Nat -> Written]

WordsText(words) == [k \in DOMAIN words |-> WordToken(words[k])]
\* What is behind the words of a statement.
EndText(child, W) ==
  IF child = 0 THEN <<MarkToken(Ends)>> ELSE <<MarkToken(Opens)>> \o W[child] \o <<MarkToken(Closes)>>
StatementText(s, W) == WordsText(s.words) \o EndText(s.child, W)
BlockText(ss, W) == FlattenSeq([i \in DOMAIN ss |-> StatementText(ss[i], W)])
\* The statements of a block, without what ends the last one.
BegunText(ss, W) == BlockText(Pop(ss), W) \o WordsText(ss[Len(ss)].words)

LEMMA TokenIs ==
  /\ \A w \in WordSet : WordToken(w) \in Token
  /\ MarkToken(Ends) \in Token /\ MarkToken(Opens) \in Token /\ MarkToken(Closes) \in Token
BY EmptyWord, MarksNamed DEF Token, Types, WordToken, MarkToken

LEMMA WordsTyped ==
  ASSUME NEW words \in Seq(WordSet)
  PROVE  WordsText(words) \in Written /\ Len(WordsText(words)) = Len(words)
<1>1. \A k \in 1 .. Len(words) : WordToken(words[k]) \in Token
  BY TokenIs
<1>2. DOMAIN words = 1 .. Len(words) /\ Len(words) \in Nat
  OBVIOUS
<1>3. WordsText(words) = [k \in 1 .. Len(words) |-> WordToken(words[k])]
  BY <1>2 DEF WordsText
<1> QED
  BY <1>1, <1>2, <1>3 DEF Written

LEMMA WordsMore ==
  ASSUME NEW words \in Seq(WordSet), NEW w \in WordSet
  PROVE  WordsText(Append(words, w)) = Append(WordsText(words), WordToken(w))
<1>1. PICK more : more = Append(words, w)
  OBVIOUS
<1>2. /\ more \in Seq(WordSet) /\ Len(more) = Len(words) + 1 /\ DOMAIN more = 1 .. Len(words) + 1
      /\ more[Len(words) + 1] = w /\ \A k \in 1 .. Len(words) : more[k] = words[k]
  BY <1>1, Appended
<1>3. WordToken(w) \in Token
  BY TokenIs
<1>4. /\ Append(WordsText(words), WordToken(w)) \in Seq(Token)
      /\ Len(Append(WordsText(words), WordToken(w))) = Len(words) + 1
      /\ Append(WordsText(words), WordToken(w))[Len(words) + 1] = WordToken(w)
      /\ \A k \in 1 .. Len(words) : Append(WordsText(words), WordToken(w))[k] = WordsText(words)[k]
  BY <1>3, WordsTyped, Appended DEF Written
<1>5. \A k \in 1 .. Len(words) : WordsText(words)[k] = WordToken(words[k])
  BY DEF WordsText
<1>6. WordsText(more) \in Seq(Token) /\ Len(WordsText(more)) = Len(words) + 1
  BY <1>2, WordsTyped DEF Written
<1>7. \A k \in 1 .. Len(words) + 1 : WordsText(more)[k] = WordToken(more[k])
  BY <1>2 DEF WordsText
<1>8. ASSUME NEW k \in 1 .. Len(words) + 1
      PROVE  WordsText(more)[k] = Append(WordsText(words), WordToken(w))[k]
  <2>1. Len(words) \in Nat
    OBVIOUS
  <2>2. k = Len(words) + 1 \/ k \in 1 .. Len(words)
    BY <2>1
  <2> QED
    BY <1>2, <1>4, <1>5, <1>7, <2>2
<1>9. WordsText(more) = Append(WordsText(words), WordToken(w))
  BY <1>4, <1>6, <1>8, SeqEqual
<1> QED
  BY <1>1, <1>9

LEMMA EndTyped ==
  ASSUME NEW child \in Nat, NEW W \in Writings
  PROVE  EndText(child, W) \in Written
<1>1. W[child] \in Seq(Token)
  BY DEF Writings, Written
<1>2. <<MarkToken(Ends)>> \in Seq(Token) /\ <<MarkToken(Opens)>> \in Seq(Token) /\ <<MarkToken(Closes)>> \in Seq(Token)
  BY TokenIs
<1>3. <<MarkToken(Opens)>> \o W[child] \o <<MarkToken(Closes)>> \in Seq(Token)
  BY <1>1, <1>2, ConcatProperties
<1> QED
  BY <1>2, <1>3 DEF EndText, Written

LEMMA StatementTyped ==
  ASSUME NEW s \in StatementSet, NEW W \in Writings
  PROVE  StatementText(s, W) \in Written
<1>1. s.words \in Seq(WordSet) /\ s.child \in Nat
  BY DEF StatementSet
<1>2. WordsText(s.words) \in Seq(Token) /\ EndText(s.child, W) \in Seq(Token)
  BY <1>1, WordsTyped, EndTyped DEF Written
<1>3. WordsText(s.words) \o EndText(s.child, W) \in Seq(Token)
  BY <1>2, ConcatProperties
<1> QED
  BY <1>3 DEF StatementText, Written

LEMMA PartsTyped ==
  ASSUME NEW ss \in Seq(StatementSet), NEW W \in Writings
  PROVE  [i \in DOMAIN ss |-> StatementText(ss[i], W)] \in Seq(Written)
<1>1. \A i \in 1 .. Len(ss) : StatementText(ss[i], W) \in Written
  BY StatementTyped
<1>2. DOMAIN ss = 1 .. Len(ss) /\ Len(ss) \in Nat
  OBVIOUS
<1> QED
  BY <1>1, <1>2

LEMMA BlockTyped ==
  ASSUME NEW ss \in Seq(StatementSet), NEW W \in Writings
  PROVE  BlockText(ss, W) \in Written
<1>1. [i \in DOMAIN ss |-> StatementText(ss[i], W)] \in Seq(Seq(Token))
  BY PartsTyped DEF Written
<1>2. FlattenSeq([i \in DOMAIN ss |-> StatementText(ss[i], W)]) \in Seq(Token)
  BY <1>1, FlatType
<1> QED
  BY <1>2 DEF BlockText, Written

LEMMA BlockEmpty == ASSUME NEW W PROVE BlockText(<<>>, W) = <<>>
<1>1. [i \in DOMAIN <<>> |-> StatementText(<<>>[i], W)] = <<>>
  OBVIOUS
<1> QED
  BY <1>1, FlatEmpty DEF BlockText

\* A statement more is its text more.
LEMMA BlockMore ==
  ASSUME NEW ss \in Seq(StatementSet), NEW more \in Seq(StatementSet), NEW W \in Writings,
         Len(more) = Len(ss) + 1, \A i \in 1 .. Len(ss) : more[i] = ss[i]
  PROVE  BlockText(more, W) = BlockText(ss, W) \o StatementText(more[Len(ss) + 1], W)
<1>1. PICK n \in Nat : n = Len(ss)
  OBVIOUS
<1>2. PICK p : p = [i \in DOMAIN ss |-> StatementText(ss[i], W)]
  OBVIOUS
<1>3. PICK q : q = [i \in DOMAIN more |-> StatementText(more[i], W)]
  OBVIOUS
<1>4. PICK x : x = StatementText(more[n + 1], W)
  OBVIOUS
<1>5. DOMAIN ss = 1 .. n /\ DOMAIN more = 1 .. n + 1 /\ n + 1 \in DOMAIN more
  BY <1>1
<1>6. more[n + 1] \in StatementSet
  BY <1>5
<1>7. p \in Seq(Written) /\ Len(p) = n /\ x \in Written /\ q \in Seq(Written) /\ Len(q) = n + 1
  <2>1. p \in Seq(Written) /\ q \in Seq(Written)
    BY <1>2, <1>3, PartsTyped
  <2>2. x \in Written
    BY <1>4, <1>6, StatementTyped
  <2>3. Len(p) = n /\ Len(q) = n + 1
    BY <1>1, <1>2, <1>3, <1>5, <2>1
  <2> QED
    BY <2>1, <2>2, <2>3
<1>8. q = Append(p, x)
  <2>1. /\ Append(p, x) \in Seq(Written) /\ Len(Append(p, x)) = n + 1 /\ Append(p, x)[n + 1] = x
        /\ \A i \in 1 .. n : Append(p, x)[i] = p[i]
    BY <1>7, OneAppended
  <2>2. \A i \in 1 .. n : q[i] = p[i]
    BY <1>1, <1>2, <1>3, <1>5
  <2>3. q[n + 1] = x
    BY <1>3, <1>4, <1>5
  <2>4. \A i \in 1 .. n + 1 : q[i] = Append(p, x)[i]
    BY <2>1, <2>2, <2>3
  <2> QED
    BY <1>7, <2>1, <2>4, SeqEqual
<1>9. FlattenSeq(Append(p, x)) = FlattenSeq(p) \o x
  BY <1>7, FlatAppend DEF Written
<1> QED
  BY <1>1, <1>2, <1>3, <1>4, <1>8, <1>9 DEF BlockText

LEMMA PopIs ==
  ASSUME NEW S, NEW s \in Seq(S), s # <<>>
  PROVE  /\ Pop(s) \in Seq(S) /\ Len(s) \in Nat \ {0} /\ Len(Pop(s)) = Len(s) - 1
         /\ \A k \in 1 .. Len(s) - 1 : Pop(s)[k] = s[k]
<1>1. /\ Pop(s) \in Seq(S) /\ Len(Pop(s)) = Len(s) - 1
      /\ \A k \in DOMAIN Pop(s) : Pop(s)[k] = s[k]
  BY Popped
<1>2. DOMAIN Pop(s) = 1 .. Len(s) - 1
  BY <1>1
<1>3. Len(s) \in Nat \ {0}
  OBVIOUS
<1> QED
  BY <1>1, <1>2, <1>3

LEMMA SamePop ==
  ASSUME NEW S, NEW s \in Seq(S), NEW t \in Seq(S), s # <<>>, Len(t) = Len(s),
         \A k \in 1 .. Len(s) - 1 : t[k] = s[k]
  PROVE  Pop(t) = Pop(s)
<1>1. /\ Pop(s) \in Seq(S) /\ Len(Pop(s)) = Len(s) - 1 /\ Len(s) \in Nat \ {0}
      /\ \A k \in 1 .. Len(s) - 1 : Pop(s)[k] = s[k]
  BY PopIs
<1>2. t # <<>>
  BY <1>1
<1>3. /\ Pop(t) \in Seq(S) /\ Len(Pop(t)) = Len(s) - 1
      /\ \A k \in 1 .. Len(s) - 1 : Pop(t)[k] = s[k]
  BY <1>2, PopIs
<1> QED
  BY <1>1, <1>3, SeqEqual

LEMMA PopMore ==
  ASSUME NEW S, NEW s \in Seq(S), NEW t \in Seq(S), Len(t) = Len(s) + 1,
         \A k \in 1 .. Len(s) : t[k] = s[k]
  PROVE  t # <<>> /\ Pop(t) = s
<1>1. Len(s) \in Nat /\ t # <<>>
  OBVIOUS
<1>2. /\ Pop(t) \in Seq(S) /\ Len(Pop(t)) = Len(t) - 1
      /\ \A k \in 1 .. Len(t) - 1 : Pop(t)[k] = t[k]
  BY <1>1, PopIs
<1>3. Len(t) - 1 = Len(s)
  BY <1>1
<1>4. Pop(t) \in Seq(S) /\ Len(Pop(t)) = Len(s) /\ \A k \in 1 .. Len(s) : Pop(t)[k] = s[k]
  BY <1>2, <1>3
<1> QED
  BY <1>1, <1>4, SeqEqual

LEMMA JoinedText ==
  ASSUME NEW x \in Written, NEW y \in Written
  PROVE  x \o y \in Written
BY ConcatProperties DEF Written

LEMMA OneText ==
  ASSUME NEW x \in Written, NEW a \in Token
  PROVE  x \o <<a>> = Append(x, a) /\ Append(x, a) \in Written
<1>1. x \in Seq(Token)
  BY DEF Written
<1>2. x \o <<a>> = Append(x, a) /\ Append(x, a) \in Seq(Token)
  BY <1>1
<1> QED
  BY <1>2 DEF Written

LEMMA LastText ==
  ASSUME NEW x \in Written, NEW y \in Written, NEW a \in Token
  PROVE  x \o Append(y, a) = Append(x \o y, a)
<1>1. x \in Seq(Token) /\ y \in Seq(Token)
  BY DEF Written
<1> QED
  BY <1>1

Associates(x, y, z) == (x \o y) \o z = x \o (y \o z)

LEMMA AssocText == \A x, y, z \in Written : Associates(x, y, z)
BY ConcatAssociative DEF Written, Associates

LEMMA BegunTyped ==
  ASSUME NEW ss \in Seq(StatementSet), ss # <<>>, NEW W \in Writings
  PROVE  BegunText(ss, W) \in Written /\ ss[Len(ss)] \in StatementSet /\ Pop(ss) \in Seq(StatementSet)
<1>1. Pop(ss) \in Seq(StatementSet) /\ ss[Len(ss)] \in StatementSet
  BY PopIs, LastOne
<1>2. BlockText(Pop(ss), W) \in Written
  BY <1>1, BlockTyped
<1>3. ss[Len(ss)].words \in Seq(WordSet)
  BY <1>1 DEF StatementSet
<1>4. WordsText(ss[Len(ss)].words) \in Written
  BY <1>3, WordsTyped
<1> QED
  BY <1>1, <1>2, <1>4, JoinedText DEF BegunText

\* What ends the last statement makes a block of it.
LEMMA BegunEnds ==
  ASSUME NEW ss \in Seq(StatementSet), ss # <<>>, NEW W \in Writings
  PROVE  BlockText(ss, W) = BegunText(ss, W) \o EndText(ss[Len(ss)].child, W)
<1>1. PICK s : s = ss[Len(ss)]
  OBVIOUS
<1>2. /\ s \in StatementSet /\ Pop(ss) \in Seq(StatementSet) /\ Len(ss) \in Nat \ {0}
      /\ Len(Pop(ss)) = Len(ss) - 1 /\ \A k \in 1 .. Len(ss) - 1 : Pop(ss)[k] = ss[k]
  BY <1>1, PopIs, LastOne
<1>3. Len(ss) = Len(Pop(ss)) + 1 /\ \A k \in 1 .. Len(Pop(ss)) : ss[k] = Pop(ss)[k]
  BY <1>2
<1>4. BlockText(ss, W) = BlockText(Pop(ss), W) \o StatementText(ss[Len(Pop(ss)) + 1], W)
  BY <1>2, <1>3, BlockMore
<1>5. BlockText(ss, W) = BlockText(Pop(ss), W) \o StatementText(s, W)
  BY <1>1, <1>3, <1>4
<1>6. s.words \in Seq(WordSet) /\ s.child \in Nat
  BY <1>2 DEF StatementSet
<1>7. WordsText(s.words) \in Written /\ EndText(s.child, W) \in Written /\ BlockText(Pop(ss), W) \in Written
  BY <1>2, <1>6, WordsTyped, EndTyped, BlockTyped
<1>8. Associates(BlockText(Pop(ss), W), WordsText(s.words), EndText(s.child, W))
  BY <1>7, AssocText
<1> QED
  BY <1>1, <1>5, <1>8 DEF BegunText, StatementText, Associates

\* Two writings that agree on the blocks inside.
LEMMA SameBlockText ==
  ASSUME NEW ss, NEW V, NEW W,
         \A i \in DOMAIN ss : ss[i].child # 0 => V[ss[i].child] = W[ss[i].child]
  PROVE  BlockText(ss, V) = BlockText(ss, W)
<1>1. ASSUME NEW i \in DOMAIN ss PROVE StatementText(ss[i], V) = StatementText(ss[i], W)
  <2>1. ss[i].child = 0 \/ V[ss[i].child] = W[ss[i].child]
    OBVIOUS
  <2>2. EndText(ss[i].child, V) = EndText(ss[i].child, W)
    BY <2>1 DEF EndText
  <2> QED
    BY <2>2 DEF StatementText
<1> QED
  BY <1>1 DEF BlockText

LEMMA SameBegunText ==
  ASSUME NEW ss \in Seq(StatementSet), ss # <<>>, NEW V, NEW W,
         \A i \in 1 .. Len(ss) - 1 : ss[i].child # 0 => V[ss[i].child] = W[ss[i].child]
  PROVE  BegunText(ss, V) = BegunText(ss, W)
<1>1. PICK pp : pp = Pop(ss)
  OBVIOUS
<1>2. DOMAIN pp = 1 .. Len(ss) - 1 /\ \A k \in 1 .. Len(ss) - 1 : pp[k] = ss[k]
  BY <1>1, PopIs
<1>3. \A i \in DOMAIN pp : pp[i].child # 0 => V[pp[i].child] = W[pp[i].child]
  BY <1>2
<1>4. BlockText(pp, V) = BlockText(pp, W)
  BY <1>3, SameBlockText
<1> QED
  BY <1>1, <1>4 DEF BegunText

----------------------------------------------------------------------------
(* What it should write of the first n tokens of t: each of them, and what *)
(* the last statement of a block can do without.                           *)

Needs(t, i) == t[i].type = "word" /\ i < Len(t) /\ t[i + 1].type = Closes
Emit(t, i) == IF Needs(t, i) THEN <<t[i], MarkToken(Ends)>> ELSE <<t[i]>>
Expected(t, n) == FlattenSeq([i \in 1 .. n |-> Emit(t, i)])
\* The same, without what depends on the token behind them.
SoFar(t, n) ==
  IF n = 0 THEN <<>>
  ELSE IF Kind(t, n) = "word" THEN Append(Expected(t, n - 1), t[n]) ELSE Expected(t, n)

LEMMA EmitTyped ==
  ASSUME NEW t \in Seq(Token), NEW i \in 1 .. Len(t)
  PROVE  Emit(t, i) \in Written
<1>1. t[i] \in Token /\ MarkToken(Ends) \in Token
  BY TokenIs
<1> QED
  BY <1>1 DEF Emit, Written

LEMMA PiecesTyped ==
  ASSUME NEW t \in Seq(Token), NEW n \in 0 .. Len(t)
  PROVE  /\ [i \in 1 .. n |-> Emit(t, i)] \in Seq(Written) /\ Len([i \in 1 .. n |-> Emit(t, i)]) = n
         /\ Expected(t, n) \in Written
<1>0. n \in Nat /\ Len(t) \in Nat
  OBVIOUS
<1>1. \A i \in 1 .. n : Emit(t, i) \in Written
  BY <1>0, EmitTyped
<1>2. [i \in 1 .. n |-> Emit(t, i)] \in Seq(Written) /\ Len([i \in 1 .. n |-> Emit(t, i)]) = n
  BY <1>0, <1>1
<1>3. Expected(t, n) \in Written
  BY <1>2, FlatType DEF Expected, Written
<1> QED
  BY <1>2, <1>3

LEMMA ExpectedNone == ASSUME NEW t PROVE Expected(t, 0) = <<>>
<1>1. [i \in 1 .. 0 |-> Emit(t, i)] = <<>>
  OBVIOUS
<1> QED
  BY <1>1, FlatEmpty DEF Expected

LEMMA ExpectedMore ==
  ASSUME NEW t \in Seq(Token), NEW n \in Nat, n + 1 <= Len(t)
  PROVE  Expected(t, n + 1) = Expected(t, n) \o Emit(t, n + 1)
<1>1. PICK p : p = [i \in 1 .. n |-> Emit(t, i)]
  OBVIOUS
<1>2. PICK q : q = [i \in 1 .. n + 1 |-> Emit(t, i)]
  OBVIOUS
<1>3. PICK x : x = Emit(t, n + 1)
  OBVIOUS
<1>4. n \in 0 .. Len(t) /\ n + 1 \in 0 .. Len(t) /\ n + 1 \in 1 .. Len(t)
  OBVIOUS
<1>5. p \in Seq(Written) /\ Len(p) = n /\ q \in Seq(Written) /\ Len(q) = n + 1 /\ x \in Written
  BY <1>1, <1>2, <1>3, <1>4, PiecesTyped, EmitTyped
<1>6. q = Append(p, x)
  <2>1. /\ Append(p, x) \in Seq(Written) /\ Len(Append(p, x)) = n + 1 /\ Append(p, x)[n + 1] = x
        /\ \A i \in 1 .. n : Append(p, x)[i] = p[i]
    BY <1>5, OneAppended
  <2>2. \A i \in 1 .. n : q[i] = p[i]
    BY <1>1, <1>2
  <2>3. q[n + 1] = x
    BY <1>2, <1>3
  <2>4. \A i \in 1 .. n + 1 : q[i] = Append(p, x)[i]
    BY <2>1, <2>2, <2>3
  <2> QED
    BY <1>5, <2>1, <2>4, SeqEqual
<1>7. FlattenSeq(Append(p, x)) = FlattenSeq(p) \o x
  BY <1>5, FlatAppend DEF Written
<1> QED
  BY <1>1, <1>2, <1>3, <1>6, <1>7 DEF Expected

LEMMA PairMore ==
  ASSUME NEW x \in Written, NEW a \in Token, NEW b \in Token
  PROVE  x \o <<a, b>> = Append(Append(x, a), b) /\ Append(x, a) \in Written
<1>1. x \in Seq(Token)
  BY DEF Written
<1>2. x \o <<a, b>> = Append(Append(x, a), b)
  BY <1>1
<1>3. Append(x, a) \in Seq(Token)
  BY <1>1
<1> QED
  BY <1>2, <1>3 DEF Written

LEMMA TwoMore ==
  ASSUME NEW x \in Written, NEW a \in Token, NEW b \in Token, NEW c \in Token
  PROVE  Append(x \o <<a, b>>, c) = Append(x, a) \o <<b, c>>
<1>1. x \o <<a, b>> = Append(Append(x, a), b) /\ Append(x, a) \in Written
  BY PairMore
<1>2. Append(x, a) \o <<b, c>> = Append(Append(Append(x, a), b), c)
  BY <1>1, PairMore
<1> QED
  BY <1>1, <1>2

\* A token more; before a closing brace the last statement is ended.
LEMMA SoFarMore ==
  ASSUME NEW t \in Seq(Token), NEW n \in Nat, n + 1 <= Len(t)
  PROVE  /\ SoFar(t, n) \in Written
         /\ n # 0 /\ Kind(t, n) = "word" /\ Kind(t, n + 1) = Closes =>
              SoFar(t, n + 1) = SoFar(t, n) \o <<MarkToken(Ends), t[n + 1]>>
         /\ ~(n # 0 /\ Kind(t, n) = "word" /\ Kind(t, n + 1) = Closes) =>
              SoFar(t, n + 1) = Append(SoFar(t, n), t[n + 1])
<1>0. t[n + 1] \in Token /\ MarkToken(Ends) \in Token /\ Closes # "word" /\ Len(t) \in Nat
  BY TokenIs, MarksNamed
<1>1. n \in 0 .. Len(t) /\ n + 1 \in 0 .. Len(t) /\ (n + 1) - 1 = n
  OBVIOUS
<1>2. Expected(t, n) \in Written
  BY <1>1, PiecesTyped
<1>3. SoFar(t, n + 1) = Append(Expected(t, n), t[n + 1])
  <2>1. CASE Kind(t, n + 1) = "word"
    BY <1>1, <2>1 DEF SoFar
  <2>2. CASE Kind(t, n + 1) # "word"
    <3>1. SoFar(t, n + 1) = Expected(t, n + 1)
      BY <1>1, <2>2 DEF SoFar
    <3>2. Emit(t, n + 1) = <<t[n + 1]>>
      BY <2>2 DEF Emit, Needs, Kind
    <3> QED
      <4>1. Expected(t, n + 1) = Expected(t, n) \o <<t[n + 1]>>
        BY <3>2, ExpectedMore
      <4>2. Expected(t, n) \o <<t[n + 1]>> = Append(Expected(t, n), t[n + 1])
        BY <1>0, <1>2, OneText
      <4> QED
        BY <3>1, <4>1, <4>2
  <2> QED
    BY <2>1, <2>2
<1>4. CASE n = 0
  <2>1. SoFar(t, n) = <<>> /\ Expected(t, n) = <<>> /\ <<>> \in Written
    BY <1>4, ExpectedNone DEF SoFar, Written
  <2> QED
    BY <1>3, <1>4, <2>1
<1>5. CASE n # 0 /\ Kind(t, n) # "word"
  <2>1. SoFar(t, n) = Expected(t, n)
    BY <1>5 DEF SoFar
  <2> QED
    BY <1>2, <1>3, <1>5, <2>1
<1>6. CASE n # 0 /\ Kind(t, n) = "word"
  <2>1. n - 1 \in Nat /\ (n - 1) + 1 = n /\ n <= Len(t) /\ n \in 1 .. Len(t) /\ n - 1 \in 0 .. Len(t)
    BY <1>0, <1>6
  <2>2. Expected(t, n) = Expected(t, n - 1) \o Emit(t, n)
    BY <2>1, ExpectedMore
  <2>3. PICK e \in Written : e = Expected(t, n - 1)
    BY <2>1, PiecesTyped
  <2>4. SoFar(t, n) = Append(e, t[n])
    BY <1>6, <2>3 DEF SoFar
  <2>5. t[n] \in Token
    BY <2>1
  <2>6. SoFar(t, n) \in Written
    BY <2>3, <2>4, <2>5, OneText
  <2>7. CASE Kind(t, n + 1) = Closes
    <3>1. Emit(t, n) = <<t[n], MarkToken(Ends)>>
      BY <1>0, <1>6, <2>1, <2>7 DEF Emit, Needs, Kind
    <3>2. Append(e \o <<t[n], MarkToken(Ends)>>, t[n + 1]) = Append(e, t[n]) \o <<MarkToken(Ends), t[n + 1]>>
      BY <1>0, <2>5, TwoMore
    <3> QED
      BY <1>3, <1>6, <2>2, <2>3, <2>4, <2>6, <2>7, <3>1, <3>2
  <2>8. CASE Kind(t, n + 1) # Closes
    <3>1. Emit(t, n) = <<t[n]>>
      BY <2>8 DEF Emit, Needs, Kind
    <3>2. e \o <<t[n]>> = Append(e, t[n])
      BY <2>3, <2>5, OneText
    <3> QED
      BY <1>3, <2>2, <2>3, <2>4, <2>6, <2>8, <3>1, <3>2
  <2> QED
    BY <2>7, <2>8
<1> QED
  BY <1>4, <1>5, <1>6

----------------------------------------------------------------------------
(* What Parse does to what ToString would write.                           *)

LEMMA BegunSame ==
  ASSUME NEW ss \in Seq(StatementSet), NEW more \in Seq(StatementSet), ss # <<>>, Len(more) = Len(ss),
         \A k \in 1 .. Len(ss) - 1 : more[k] = ss[k],
         more[Len(ss)].words = ss[Len(ss)].words, NEW W
  PROVE  BegunText(more, W) = BegunText(ss, W)
<1>1. Pop(more) = Pop(ss)
  BY SamePop
<1> QED
  BY <1>1 DEF BegunText

LEMMA BegunWord ==
  ASSUME NEW ss \in Seq(StatementSet), NEW more \in Seq(StatementSet), ss # <<>>, Len(more) = Len(ss),
         \A k \in 1 .. Len(ss) - 1 : more[k] = ss[k], NEW w \in WordSet,
         more[Len(ss)].words = Append(ss[Len(ss)].words, w), NEW W \in Writings
  PROVE  BegunText(more, W) = Append(BegunText(ss, W), WordToken(w))
<1>1. Pop(more) = Pop(ss)
  BY SamePop
<1>2. PICK x : x = BlockText(Pop(ss), W)
  OBVIOUS
<1>3. PICK ws : ws = ss[Len(ss)].words
  OBVIOUS
<1>4. ss[Len(ss)] \in StatementSet /\ Pop(ss) \in Seq(StatementSet)
  BY BegunTyped
<1>5. x \in Written /\ ws \in Seq(WordSet)
  BY <1>2, <1>3, <1>4, BlockTyped DEF StatementSet
<1>6. WordsText(ws) \in Written /\ WordToken(w) \in Token
  BY <1>5, WordsTyped, TokenIs
<1>7. WordsText(Append(ws, w)) = Append(WordsText(ws), WordToken(w))
  BY <1>5, WordsMore
<1>8. x \o Append(WordsText(ws), WordToken(w)) = Append(x \o WordsText(ws), WordToken(w))
  BY <1>5, <1>6, LastText
<1>9. BegunText(more, W) = x \o WordsText(Append(ws, w)) /\ BegunText(ss, W) = x \o WordsText(ws)
  BY <1>1, <1>2, <1>3 DEF BegunText
<1> QED
  BY <1>7, <1>8, <1>9

LEMMA BegunNew ==
  ASSUME NEW ss \in Seq(StatementSet), NEW more \in Seq(StatementSet), Len(more) = Len(ss) + 1,
         \A k \in 1 .. Len(ss) : more[k] = ss[k], NEW w \in WordSet,
         more[Len(ss) + 1].words = <<w>>, NEW W \in Writings
  PROVE  BegunText(more, W) = Append(BlockText(ss, W), WordToken(w))
<1>1. Pop(more) = ss
  BY PopMore
<1>2. WordsText(<<w>>) = <<WordToken(w)>>
  BY DEF WordsText
<1>3. BegunText(more, W) = BlockText(ss, W) \o <<WordToken(w)>>
  BY <1>1, <1>2 DEF BegunText
<1>4. BlockText(ss, W) \in Written /\ WordToken(w) \in Token
  BY BlockTyped, TokenIs
<1> QED
  BY <1>3, <1>4, OneText

OpenBlocks == {stack[k] : k \in DOMAIN stack}

\* The open blocks are the last children of the ones around them, and nobody else's.
Hung ==
  /\ \A k \in DOMAIN stack : \A j \in 1 .. k - 1 : stack[j] < stack[k]
  /\ \A b \in DOMAIN blocks : \A i \in DOMAIN blocks[b] : ChildOf(b, i) \in OpenBlocks =>
       i = Len(blocks[b]) /\ \E k \in 1 .. Len(stack) - 1 : stack[k] = b /\ stack[k + 1] = ChildOf(b, i)
  /\ \A k \in 1 .. Len(stack) - 1 :
       blocks[stack[k]] # <<>> /\ ChildOf(stack[k], Len(blocks[stack[k]])) = stack[k + 1]
  /\ stack # <<>> /\ last = "word" => blocks[Top] # <<>> /\ ChildOf(Top, Len(blocks[Top])) = 0

\* W is what is written of each closed block, P what is before each open one; with
\* what is written of the innermost one that is all that was read.
Texted(W, P) ==
  /\ P[1] = <<>>
  /\ \A b \in DOMAIN blocks \ OpenBlocks : W[b] = BlockText(blocks[b], W)
  /\ \A k \in 1 .. Len(stack) - 1 :
       P[stack[k + 1]] = Append(P[stack[k]] \o BegunText(blocks[stack[k]], W), MarkToken(Opens))
  /\ stack # <<>> =>
       P[Top] \o (IF last = "word" THEN BegunText(blocks[Top], W) ELSE BlockText(blocks[Top], W))
         = SoFar(Toks, Done)

TextInv == PInv /\ Hung /\ \E W \in Writings : \E P \in Writings : Texted(W, P)

LEMMA OpenAre ==
  ASSUME PInv
  PROVE  /\ stack \in Seq(Nat) /\ blocks \in Seq(Seq(StatementSet)) /\ value \in WordSet
         /\ Len(stack) \in Nat /\ DOMAIN stack = 1 .. Len(stack) /\ (stack # <<>> <=> Len(stack) > 0)
         /\ OpenBlocks \subseteq DOMAIN blocks /\ DOMAIN blocks = 1 .. Len(blocks) /\ Len(blocks) \in Nat
         /\ \A b \in DOMAIN blocks : /\ blocks[b] \in Seq(StatementSet) /\ b \in Nat \ {0}
                                     /\ DOMAIN blocks[b] = 1 .. Len(blocks[b]) /\ Len(blocks[b]) \in Nat
         /\ \A k \in 1 .. Len(stack) : stack[k] \in DOMAIN blocks /\ stack[k] \in OpenBlocks
         /\ stack # <<>> => Top = stack[Len(stack)] /\ Top \in DOMAIN blocks /\ Top \in OpenBlocks
<1>1. stack \in Seq(Nat) /\ blocks \in Seq(Seq(StatementSet)) /\ value \in WordSet /\ Opened
  BY DEF PInv, CInv, IInv, Typed
<1>2. /\ Len(stack) \in Nat /\ DOMAIN stack = 1 .. Len(stack) /\ (stack # <<>> <=> Len(stack) > 0)
      /\ DOMAIN blocks = 1 .. Len(blocks) /\ Len(blocks) \in Nat
  BY <1>1
<1>3. \A k \in 1 .. Len(stack) : stack[k] \in DOMAIN blocks /\ stack[k] \in OpenBlocks
  BY <1>1, <1>2 DEF Opened, OpenBlocks
<1>4. OpenBlocks \subseteq DOMAIN blocks
  BY <1>2, <1>3 DEF OpenBlocks
<1>5. stack # <<>> => Top = stack[Len(stack)] /\ Top \in DOMAIN blocks /\ Top \in OpenBlocks
  BY <1>2, <1>3 DEF Top
<1>6. ASSUME NEW b \in DOMAIN blocks
      PROVE  /\ blocks[b] \in Seq(StatementSet) /\ b \in Nat \ {0}
             /\ DOMAIN blocks[b] = 1 .. Len(blocks[b]) /\ Len(blocks[b]) \in Nat
  <2>1. blocks[b] \in Seq(StatementSet)
    BY <1>1
  <2>2. b \in Nat \ {0}
    BY <1>2
  <2> QED
    BY <2>1, <2>2
<1> QED
  BY <1>1, <1>2, <1>3, <1>4, <1>5, <1>6

\* No child of the innermost open block is open.
LEMMA TopIsLast ==
  ASSUME PInv, Hung, stack # <<>>
  PROVE  /\ \A k \in 1 .. Len(stack) - 1 : stack[k] # Top /\ stack[k] \in DOMAIN blocks
         /\ \A i \in DOMAIN blocks[Top] : ChildOf(Top, i) \notin OpenBlocks
<1>1. /\ Len(stack) \in Nat /\ DOMAIN stack = 1 .. Len(stack) /\ Len(stack) > 0
      /\ Top = stack[Len(stack)] /\ Top \in DOMAIN blocks
      /\ \A k \in 1 .. Len(stack) : stack[k] \in DOMAIN blocks
      /\ \A b \in DOMAIN blocks : b \in Nat \ {0}
  BY OpenAre
<1>2. ASSUME NEW k \in 1 .. Len(stack) - 1 PROVE stack[k] # Top /\ stack[k] \in DOMAIN blocks
  <2>1. Len(stack) \in DOMAIN stack /\ k \in 1 .. Len(stack)
    BY <1>1
  <2>2. stack[k] < stack[Len(stack)] /\ stack[k] \in DOMAIN blocks
    BY <1>1, <2>1 DEF Hung
  <2>3. stack[k] \in Nat /\ stack[Len(stack)] \in Nat
    BY <1>1, <2>1
  <2> QED
    BY <1>1, <2>2, <2>3
<1>3. \A i \in DOMAIN blocks[Top] : ChildOf(Top, i) \notin OpenBlocks
  BY <1>1, <1>2 DEF Hung
<1> QED
  BY <1>2, <1>3

LEMMA WordHangs == ASSUME PInv, PInv', Word, Hung PROVE Hung'
<1>1. PICK b : b = Top
  OBVIOUS
<1>2. PICK n : n = Len(blocks[b])
  OBVIOUS
<1>3. /\ b \in DOMAIN blocks /\ DOMAIN blocks' = DOMAIN blocks /\ Top' = b /\ n \in Nat
      /\ \A c \in DOMAIN blocks : c # b => blocks'[c] = blocks[c]
      /\ last = "word" =>
           /\ n \in DOMAIN blocks[b] /\ DOMAIN blocks'[b] = DOMAIN blocks[b] /\ Len(blocks'[b]) = n
           /\ \A i \in DOMAIN blocks[b] : i # n => blocks'[b][i] = blocks[b][i]
           /\ ChildOf(b, n)' = ChildOf(b, n)
      /\ last # "word" =>
           /\ DOMAIN blocks'[b] = DOMAIN blocks[b] \cup {n + 1} /\ Len(blocks'[b]) = n + 1
           /\ \A i \in DOMAIN blocks[b] : blocks'[b][i] = blocks[b][i]
           /\ ChildOf(b, n + 1)' = 0
  BY <1>1, <1>2, WordBlocks
<1>4. stack # <<>> /\ stack' = stack /\ last' = "word" /\ OpenBlocks' = OpenBlocks
  BY DEF Word, OpenBlocks
<1>5. /\ \A k \in 1 .. Len(stack) - 1 : stack[k] # b /\ stack[k] \in DOMAIN blocks
      /\ \A i \in DOMAIN blocks[b] : ChildOf(b, i) \notin OpenBlocks
  BY <1>1, <1>4, TopIsLast
<1>6. 0 \notin OpenBlocks
  BY OpenAre
<1>7. \A i \in DOMAIN blocks'[b] : blocks'[b][i].child \notin OpenBlocks
  <2> TAKE i \in DOMAIN blocks'[b]
  <2>1. CASE last = "word" /\ i = n
    BY <1>3, <1>5, <2>1 DEF ChildOf
  <2>2. CASE last # "word" /\ i = n + 1
    BY <1>3, <1>6, <2>2 DEF ChildOf
  <2>3. CASE i \in DOMAIN blocks[b] /\ blocks'[b][i] = blocks[b][i]
    BY <1>5, <2>3 DEF ChildOf
  <2> QED
    BY <1>3, <2>1, <2>2, <2>3
<1>8. ASSUME NEW d \in DOMAIN blocks', NEW i \in DOMAIN blocks'[d], blocks'[d][i].child \in OpenBlocks
      PROVE  /\ i = Len(blocks'[d])
             /\ \E k \in 1 .. Len(stack) - 1 : stack[k] = d /\ stack[k + 1] = blocks'[d][i].child
  <2>1. d \in DOMAIN blocks /\ blocks'[d] = blocks[d]
    BY <1>3, <1>7, <1>8
  <2> QED
    BY <1>8, <2>1 DEF Hung, ChildOf
<1>9. ASSUME NEW k \in 1 .. Len(stack) - 1
      PROVE  blocks'[stack[k]] # <<>> /\ blocks'[stack[k]][Len(blocks'[stack[k]])].child = stack[k + 1]
  <2>1. blocks'[stack[k]] = blocks[stack[k]]
    BY <1>3, <1>5
  <2> QED
    BY <2>1 DEF Hung, ChildOf
<1>10. blocks'[b] # <<>> /\ blocks'[b][Len(blocks'[b])].child = 0
  <2>1. blocks'[b] # <<>>
    BY <1>3
  <2>2. CASE last = "word"
    <3>1. ChildOf(b, n) = 0
      BY <1>1, <1>2, <1>4, <2>2 DEF Hung
    <3> QED
      BY <1>3, <2>1, <2>2, <3>1 DEF ChildOf
  <2>3. CASE last # "word"
    BY <1>3, <2>1, <2>3 DEF ChildOf
  <2> QED
    BY <2>2, <2>3
<1>11. \A k \in DOMAIN stack : \A j \in 1 .. k - 1 : stack[j] < stack[k]
  BY DEF Hung
<1> QED
  BY <1>3, <1>4, <1>8, <1>9, <1>10, <1>11 DEF Hung, ChildOf

\* What was taken, with what taking a token adds to it.
LEMMA TakesSoFar ==
  ASSUME PInv, PInv', NextToken, token \in Marks \cup {"word"}
  PROVE  /\ SoFar(Toks, Done) \in Written
         /\ last = "word" /\ token = Closes =>
              SoFar(Toks, Done)' = SoFar(Toks, Done) \o <<MarkToken(Ends), MarkToken(Closes)>>
         /\ ~(last = "word" /\ token = Closes) =>
              SoFar(Toks, Done)' =
                Append(SoFar(Toks, Done), IF token = "word" THEN WordToken(value) ELSE MarkToken(token))
<1>1. /\ Toks' = Toks /\ Done \in Nat /\ Done' = Done + 1 /\ Kind(Toks, Done + 1) = token
      /\ Toks[Done + 1] = IF token = "word" THEN WordToken(value) ELSE MarkToken(token)
  BY TakesMore
<1>2. /\ Toks \in Seq(Token) /\ last = (IF Done = 0 THEN "start" ELSE Toks[Done].type) /\ Len(Toks) \in Nat
  BY FollowedNow
<1>3. Done' \in 0 .. Len(Toks)
  BY <1>1 DEF PInv, Followed
<1>4. Done + 1 <= Len(Toks)
  BY <1>1, <1>2, <1>3
<1>5. PICK n \in Nat : n = Done
  BY <1>1
<1>6. PICK t \in Seq(Token) : t = Toks
  BY <1>2
<1>7. last = "word" <=> n # 0 /\ Kind(t, n) = "word"
  BY <1>2, <1>5, <1>6 DEF Kind
<1>8. /\ SoFar(t, n) \in Written
      /\ last = "word" /\ token = Closes => SoFar(t, n + 1) = SoFar(t, n) \o <<MarkToken(Ends), t[n + 1]>>
      /\ ~(last = "word" /\ token = Closes) => SoFar(t, n + 1) = Append(SoFar(t, n), t[n + 1])
  <2>1. n + 1 <= Len(t) /\ Kind(t, n + 1) = token
    BY <1>1, <1>4, <1>5, <1>6
  <2> QED
    BY <1>7, <2>1, SoFarMore
<1>9. SoFar(Toks, Done)' = SoFar(t, n + 1)
  BY <1>1, <1>5, <1>6 DEF SoFar, Expected, Emit, Needs, Kind
<1>10. t[n + 1] = IF token = "word" THEN WordToken(value) ELSE MarkToken(token)
  BY <1>1, <1>5, <1>6
<1> QED
  BY <1>5, <1>6, <1>8, <1>9, <1>10, MarksNamed

LEMMA WordTexted ==
  ASSUME PInv, PInv', Word, Hung, NEW W \in Writings, NEW P \in Writings, Texted(W, P)
  PROVE  Texted(W, P)'
<1>1. PICK b : b = Top
  OBVIOUS
<1>2. PICK n : n = Len(blocks[b])
  OBVIOUS
<1>3. /\ b \in DOMAIN blocks /\ DOMAIN blocks' = DOMAIN blocks /\ Top' = b /\ n \in Nat
      /\ \A c \in DOMAIN blocks : c # b => blocks'[c] = blocks[c]
      /\ last = "word" =>
           /\ n \in DOMAIN blocks[b] /\ Len(blocks'[b]) = n
           /\ \A i \in DOMAIN blocks[b] : i # n => blocks'[b][i] = blocks[b][i]
           /\ WordsOf(b, n)' = Append(WordsOf(b, n), value)
      /\ last # "word" =>
           /\ Len(blocks'[b]) = n + 1
           /\ \A i \in DOMAIN blocks[b] : blocks'[b][i] = blocks[b][i]
           /\ WordsOf(b, n + 1)' = <<value>>
  BY <1>1, <1>2, WordBlocks
<1>4. stack # <<>> /\ stack' = stack /\ last' = "word" /\ OpenBlocks' = OpenBlocks
  BY DEF Word, OpenBlocks
<1>5. \A k \in 1 .. Len(stack) - 1 : stack[k] # b /\ stack[k] \in DOMAIN blocks
  BY <1>1, <1>4, TopIsLast
<1>6. /\ value \in WordSet /\ b \in OpenBlocks /\ b \in Nat /\ blocks[b] \in Seq(StatementSet)
      /\ DOMAIN blocks[b] = 1 .. n
  BY <1>1, <1>2, <1>3, <1>4, OpenAre
<1>7. blocks'[b] \in Seq(StatementSet)
  <2>1. blocks' \in Seq(Seq(StatementSet))
    BY DEF PInv, CInv, IInv, Typed
  <2> QED
    BY <1>3, <2>1
<1>8. PICK x \in Written : x = IF last = "word" THEN BegunText(blocks[b], W) ELSE BlockText(blocks[b], W)
  <2>1. last = "word" => blocks[b] # <<>>
    BY <1>1, <1>4 DEF Hung
  <2> QED
    BY <1>6, <2>1, BegunTyped, BlockTyped
<1>9. BegunText(blocks'[b], W) = Append(x, WordToken(value))
  <2>1. CASE last = "word"
    <3>1. blocks[b] # <<>> /\ \A k \in 1 .. n - 1 : blocks'[b][k] = blocks[b][k]
      BY <1>3, <1>6, <2>1
    <3>2. blocks'[b][n].words = Append(blocks[b][n].words, value)
      BY <1>3, <2>1 DEF WordsOf
    <3> QED
      BY <1>2, <1>3, <1>6, <1>7, <1>8, <2>1, <3>1, <3>2, BegunWord
  <2>2. CASE last # "word"
    <3>1. blocks'[b][n + 1].words = <<value>> /\ \A k \in 1 .. n : blocks'[b][k] = blocks[b][k]
      BY <1>3, <1>6, <2>2 DEF WordsOf
    <3> QED
      BY <1>2, <1>3, <1>6, <1>7, <1>8, <2>2, <3>1, BegunNew
  <2> QED
    BY <2>1, <2>2
<1>10. P[b] \o x = SoFar(Toks, Done)
  BY <1>1, <1>4, <1>8 DEF Texted
<1>11. SoFar(Toks, Done)' = Append(SoFar(Toks, Done), WordToken(value))
  <2>1. NextToken /\ token = "word"
    BY DEF Word, Handle
  <2> QED
    BY <2>1, TakesSoFar, MarksNamed
<1>12. P[b] \o BegunText(blocks'[b], W) = SoFar(Toks, Done)'
  <2>1. P[b] \in Written /\ WordToken(value) \in Token
    BY <1>6, TokenIs DEF Writings
  <2>2. P[b] \o Append(x, WordToken(value)) = Append(P[b] \o x, WordToken(value))
    BY <1>8, <2>1, LastText
  <2> QED
    BY <1>9, <1>10, <1>11, <2>2
<1>13. \A d \in DOMAIN blocks' \ OpenBlocks' : W[d] = BlockText(blocks'[d], W)
  BY <1>3, <1>4, <1>6 DEF Texted
<1>14. ASSUME NEW k \in 1 .. Len(stack) - 1
       PROVE  P[stack[k + 1]] = Append(P[stack[k]] \o BegunText(blocks'[stack[k]], W), MarkToken(Opens))
  <2>1. blocks'[stack[k]] = blocks[stack[k]]
    BY <1>3, <1>5
  <2> QED
    BY <2>1 DEF Texted
<1> QED
  BY <1>3, <1>4, <1>12, <1>13, <1>14 DEF Texted

LEMMA EndStatementTexted ==
  ASSUME PInv, PInv', EndStatement, Hung, NEW W \in Writings, NEW P \in Writings, Texted(W, P)
  PROVE  Hung' /\ Texted(W, P)'
<1>1. /\ token = Ends /\ last = "word" /\ last' = Ends /\ NextToken
      /\ stack' = stack /\ blocks' = blocks /\ OpenBlocks' = OpenBlocks /\ Top' = Top
  BY Zenon DEF EndStatement, Handle, Ends, OpenBlocks, Top
<1>2. Ends # "word" /\ Ends # Closes /\ token \in Marks
  BY <1>1, MarksNamed
<1>3. Hung'
  BY <1>1, <1>2 DEF Hung, ChildOf
<1>4. ASSUME stack # <<>> PROVE P[Top] \o BlockText(blocks[Top], W) = SoFar(Toks, Done)'
  <2>1. PICK b : b = Top
    OBVIOUS
  <2>2. /\ b \in DOMAIN blocks /\ blocks[b] \in Seq(StatementSet) /\ b \in Nat
        /\ blocks[b] # <<>> /\ blocks[b][Len(blocks[b])].child = 0
    BY <1>1, <1>4, <2>1, OpenAre DEF Hung, ChildOf
  <2>3. PICK x \in Written : x = BegunText(blocks[b], W)
    BY <2>2, BegunTyped
  <2>4. BlockText(blocks[b], W) = Append(x, MarkToken(Ends))
    <3>1. BlockText(blocks[b], W) = x \o EndText(0, W)
      BY <2>2, <2>3, BegunEnds
    <3>2. EndText(0, W) = <<MarkToken(Ends)>>
      BY DEF EndText
    <3>3. MarkToken(Ends) \in Token
      BY TokenIs
    <3> QED
      BY <2>3, <3>1, <3>2, <3>3, OneText
  <2>5. P[b] \o x = SoFar(Toks, Done)
    BY <1>1, <1>4, <2>1, <2>3 DEF Texted
  <2>6. SoFar(Toks, Done)' = Append(SoFar(Toks, Done), MarkToken(Ends))
    <3>1. token # "word" /\ ~(last = "word" /\ token = Closes)
      BY <1>1, <1>2
    <3> QED
      BY <1>1, <1>2, <3>1, TakesSoFar
  <2>7. P[b] \o Append(x, MarkToken(Ends)) = Append(P[b] \o x, MarkToken(Ends))
    <3>1. P[b] \in Written /\ MarkToken(Ends) \in Token
      BY <2>2, TokenIs DEF Writings
    <3> QED
      BY <2>3, <3>1, LastText
  <2> QED
    BY <2>1, <2>4, <2>5, <2>6, <2>7
<1> QED
  BY <1>1, <1>2, <1>3, <1>4 DEF Texted

LEMMA StartBlockHangs ==
  ASSUME PInv, PInv', StartBlock, Hung
  PROVE  Hung'
<1>1. PICK b : b = Top
  OBVIOUS
<1>2. PICK n : n = Len(blocks[b])
  OBVIOUS
<1>3. PICK c : c = Len(blocks) + 1
  OBVIOUS
<1>4. Started(b, n, c)
  BY <1>1, <1>2, <1>3, StartBlocks
<1>5. /\ last' = Opens /\ stack # <<>> /\ b \in DOMAIN blocks /\ n \in DOMAIN blocks[b] /\ c \in Nat
      /\ c \notin DOMAIN blocks /\ DOMAIN blocks' = DOMAIN blocks \cup {c} /\ blocks'[c] = <<>>
      /\ \A d \in DOMAIN blocks : DOMAIN blocks'[d] = DOMAIN blocks[d]
      /\ \A d \in DOMAIN blocks : \A i \in DOMAIN blocks[d] :
           d # b \/ i # n => blocks'[d][i] = blocks[d][i]
      /\ blocks'[b][n].child = c /\ stack' = Append(stack, c)
  BY <1>4 DEF Started, ChildOf
<1>6. /\ stack \in Seq(Nat) /\ Len(stack) \in Nat /\ Len(stack) > 0 /\ DOMAIN stack = 1 .. Len(stack)
      /\ \A k \in 1 .. Len(stack) : stack[k] \in DOMAIN blocks
      /\ stack[Len(stack)] = b /\ OpenBlocks \subseteq DOMAIN blocks
      /\ DOMAIN blocks = 1 .. Len(blocks) /\ Len(blocks) \in Nat
      /\ \A d \in DOMAIN blocks : d \in Nat \ {0} /\ DOMAIN blocks[d] = 1 .. Len(blocks[d]) /\ Len(blocks[d]) \in Nat
  BY <1>1, <1>5, OpenAre
<1>7. /\ Len(stack') = Len(stack) + 1 /\ DOMAIN stack' = 1 .. Len(stack) + 1
      /\ stack'[Len(stack) + 1] = c /\ \A k \in 1 .. Len(stack) : stack'[k] = stack[k]
  BY <1>5, <1>6, Appended
<1>8. OpenBlocks' = OpenBlocks \cup {c}
  <2>1. OpenBlocks = {stack[k] : k \in 1 .. Len(stack)}
    BY <1>6 DEF OpenBlocks
  <2>2. OpenBlocks' = {stack'[k] : k \in 1 .. Len(stack) + 1}
    BY <1>7 DEF OpenBlocks
  <2>3. \A k \in 1 .. Len(stack) + 1 : k = Len(stack) + 1 \/ k \in 1 .. Len(stack)
    BY <1>6
  <2>4. Len(stack) + 1 \in 1 .. Len(stack) + 1 /\ \A k \in 1 .. Len(stack) : k \in 1 .. Len(stack) + 1
    BY <1>6
  <2> QED
    BY <1>7, <2>1, <2>2, <2>3, <2>4
<1>9. /\ \A k \in 1 .. Len(stack) - 1 : stack[k] # b
      /\ \A i \in DOMAIN blocks[b] : ChildOf(b, i) \notin OpenBlocks
  BY <1>1, <1>5, TopIsLast
<1>10. \A d \in DOMAIN blocks : \A i \in DOMAIN blocks[d] : ChildOf(d, i) = 0 \/ ChildOf(d, i) \in DOMAIN blocks
  <2> TAKE d \in DOMAIN blocks
  <2> TAKE i \in DOMAIN blocks[d]
  <2>1. ChildOf(d, i) # 0 => ChildOf(d, i) \in d + 1 .. Len(blocks)
    BY StatementIs1
  <2> QED
    BY <1>6, <2>1
<1>11. c # 0 /\ c = Len(blocks) + 1
  BY <1>3, <1>6
<1>12. \A d \in DOMAIN blocks : Len(blocks'[d]) = Len(blocks[d])
  <2> TAKE d \in DOMAIN blocks
  <2>1. blocks'[d] \in Seq(StatementSet)
    <3>1. blocks' \in Seq(Seq(StatementSet)) /\ d \in DOMAIN blocks'
      BY <1>5 DEF PInv, CInv, IInv, Typed
    <3> QED
      BY <3>1
  <2>2. DOMAIN blocks'[d] = 1 .. Len(blocks'[d]) /\ Len(blocks'[d]) \in Nat
    BY <2>1
  <2> QED
    BY <1>5, <1>6, <2>2
<1>13. \A k \in DOMAIN stack' : \A j \in 1 .. k - 1 : stack'[j] < stack'[k]
  <2> TAKE k \in DOMAIN stack'
  <2> TAKE j \in 1 .. k - 1
  <2>1. CASE k = Len(stack) + 1
    <3>1. j \in 1 .. Len(stack)
      BY <1>6, <2>1
    <3>2. stack[j] \in 1 .. Len(blocks)
      BY <1>6, <3>1
    <3> QED
      BY <1>6, <1>7, <1>11, <2>1, <3>1, <3>2
  <2>2. CASE k # Len(stack) + 1
    <3>1. k \in DOMAIN stack /\ j \in 1 .. Len(stack) /\ k \in 1 .. Len(stack)
      BY <1>6, <1>7, <2>2
    <3>2. stack[j] < stack[k]
      BY <3>1 DEF Hung
    <3> QED
      BY <1>7, <3>1, <3>2
  <2> QED
    BY <2>1, <2>2
<1>14. ASSUME NEW d \in DOMAIN blocks', NEW i \in DOMAIN blocks'[d], blocks'[d][i].child \in OpenBlocks'
       PROVE  /\ i = Len(blocks'[d])
              /\ \E k \in 1 .. Len(stack') - 1 : stack'[k] = d /\ stack'[k + 1] = blocks'[d][i].child
  <2>1. d \in DOMAIN blocks /\ i \in DOMAIN blocks[d]
    BY <1>5, <1>14
  <2>2. CASE d = b /\ i = n
    <3>1. Len(stack) \in 1 .. Len(stack') - 1 /\ stack'[Len(stack)] = b /\ stack'[Len(stack) + 1] = c
      BY <1>6, <1>7
    <3> QED
      BY <1>2, <1>5, <1>12, <2>1, <2>2, <3>1
  <2>3. CASE d # b \/ i # n
    <3>1. blocks'[d][i] = blocks[d][i]
      BY <1>5, <2>1, <2>3
    <3>2. ChildOf(d, i) \in OpenBlocks
      BY <1>5, <1>8, <1>10, <1>11, <1>14, <2>1, <3>1 DEF ChildOf
    <3>3. i = Len(blocks[d]) /\ \E k \in 1 .. Len(stack) - 1 : stack[k] = d /\ stack[k + 1] = ChildOf(d, i)
      BY <2>1, <3>2 DEF Hung
    <3>4. PICK k \in 1 .. Len(stack) - 1 : stack[k] = d /\ stack[k + 1] = ChildOf(d, i)
      BY <3>3
    <3>5. k \in 1 .. Len(stack) /\ k + 1 \in 1 .. Len(stack) /\ k \in 1 .. Len(stack') - 1
      BY <1>6, <1>7
    <3>6. stack'[k] = d /\ stack'[k + 1] = blocks'[d][i].child
      BY <1>7, <3>1, <3>4, <3>5 DEF ChildOf
    <3> QED
      BY <1>12, <2>1, <3>3, <3>5, <3>6
  <2> QED
    BY <2>2, <2>3
<1>15. ASSUME NEW k \in 1 .. Len(stack') - 1
       PROVE  /\ blocks'[stack'[k]] # <<>>
              /\ blocks'[stack'[k]][Len(blocks'[stack'[k]])].child = stack'[k + 1]
  <2>1. CASE k = Len(stack)
    <3>1. stack'[k] = b /\ stack'[k + 1] = c /\ Len(blocks'[b]) = n
      BY <1>2, <1>5, <1>6, <1>7, <1>12, <2>1
    <3>2. blocks'[b] # <<>>
      BY <1>5
    <3> QED
      BY <1>5, <3>1, <3>2
  <2>2. CASE k # Len(stack)
    <3>0. PICK m \in Nat : m = Len(stack)
      BY <1>6
    <3>0a. k \in 1 .. (m + 1) - 1 /\ k # m
      BY <1>7, <2>2, <3>0
    <3>0b. k \in 1 .. m - 1 /\ k + 1 \in 1 .. m /\ k \in 1 .. m
      BY <3>0a
    <3>1. k \in 1 .. Len(stack) - 1 /\ k + 1 \in 1 .. Len(stack) /\ k \in 1 .. Len(stack)
      BY <3>0, <3>0b
    <3>2. blocks[stack[k]] # <<>> /\ ChildOf(stack[k], Len(blocks[stack[k]])) = stack[k + 1]
      BY <3>1 DEF Hung
    <3>3. PICK d : d = stack[k]
      OBVIOUS
    <3>4. d # b /\ d \in DOMAIN blocks /\ Len(blocks[d]) \in DOMAIN blocks[d] /\ Len(blocks'[d]) = Len(blocks[d])
      <4>1. d # b /\ d \in DOMAIN blocks
        BY <1>6, <1>9, <3>1, <3>3
      <4>2. blocks[d] \in Seq(StatementSet) /\ blocks[d] # <<>>
        BY <3>2, <3>3, <4>1, OpenAre
      <4>3. Len(blocks[d]) \in DOMAIN blocks[d]
        BY <4>2, LastOne
      <4> QED
        BY <1>12, <4>1, <4>3
    <3>5. blocks'[d][Len(blocks[d])] = blocks[d][Len(blocks[d])] /\ DOMAIN blocks'[d] = DOMAIN blocks[d]
      BY <1>5, <3>4
    <3>6. blocks'[d] # <<>>
      BY <3>4, <3>5
    <3>7. stack'[k] = d /\ stack'[k + 1] = stack[k + 1]
      BY <1>7, <3>1, <3>3
    <3> QED
      BY <3>2, <3>3, <3>4, <3>5, <3>6, <3>7 DEF ChildOf
  <2> QED
    BY <2>1, <2>2
<1>16. Opens # "word"
  BY MarksNamed
<1> QED
  BY <1>5, <1>13, <1>14, <1>15, <1>16 DEF Hung, ChildOf

LEMMA StartBlockTexted ==
  ASSUME PInv, PInv', StartBlock, Hung, NEW W \in Writings, NEW P \in Writings, Texted(W, P)
  PROVE  \E Q \in Writings : Texted(W, Q)'
<1>1. PICK b : b = Top
  OBVIOUS
<1>2. PICK n : n = Len(blocks[b])
  OBVIOUS
<1>3. PICK c : c = Len(blocks) + 1
  OBVIOUS
<1>4. Started(b, n, c)
  BY <1>1, <1>2, <1>3, StartBlocks
<1>5. /\ last = "word" /\ token = Opens /\ last' = Opens /\ NextToken /\ stack # <<>>
      /\ b \in DOMAIN blocks /\ n \in DOMAIN blocks[b] /\ c \in Nat /\ c > 1
      /\ c \notin DOMAIN blocks /\ DOMAIN blocks' = DOMAIN blocks \cup {c} /\ blocks'[c] = <<>>
      /\ \A d \in DOMAIN blocks : DOMAIN blocks'[d] = DOMAIN blocks[d]
      /\ \A d \in DOMAIN blocks : \A i \in DOMAIN blocks[d] :
           d # b \/ i # n => blocks'[d][i] = blocks[d][i]
      /\ blocks'[b][n].words = blocks[b][n].words /\ stack' = Append(stack, c)
  BY <1>4 DEF Started, WordsOf
<1>6. /\ stack \in Seq(Nat) /\ Len(stack) \in Nat /\ Len(stack) > 0 /\ DOMAIN stack = 1 .. Len(stack)
      /\ \A k \in 1 .. Len(stack) : stack[k] \in DOMAIN blocks
      /\ stack[Len(stack)] = b /\ OpenBlocks \subseteq DOMAIN blocks
      /\ b \in OpenBlocks /\ b \in Nat /\ blocks[b] \in Seq(StatementSet) /\ DOMAIN blocks[b] = 1 .. n
  BY <1>1, <1>2, <1>5, OpenAre
<1>7. /\ Len(stack') = Len(stack) + 1
      /\ stack'[Len(stack) + 1] = c /\ \A k \in 1 .. Len(stack) : stack'[k] = stack[k]
  BY <1>5, <1>6, Appended
<1>8. OpenBlocks \subseteq OpenBlocks' /\ c \in OpenBlocks'
  <2>1. OpenBlocks = {stack[k] : k \in 1 .. Len(stack)}
    BY <1>6 DEF OpenBlocks
  <2>2. DOMAIN stack' = 1 .. Len(stack) + 1
    BY <1>5, <1>6, Appended
  <2>3. OpenBlocks' = {stack'[k] : k \in 1 .. Len(stack) + 1}
    BY <2>2 DEF OpenBlocks
  <2>4. Len(stack) + 1 \in 1 .. Len(stack) + 1 /\ \A k \in 1 .. Len(stack) : k \in 1 .. Len(stack) + 1
    BY <1>6
  <2> QED
    BY <1>7, <2>1, <2>3, <2>4
<1>9. \A k \in 1 .. Len(stack) - 1 : stack[k] # b
  BY <1>1, <1>5, TopIsLast
<1>10. \A d \in DOMAIN blocks : blocks'[d] \in Seq(StatementSet) /\ blocks[d] \in Seq(StatementSet)
  <2> TAKE d \in DOMAIN blocks
  <2>1. blocks' \in Seq(Seq(StatementSet)) /\ d \in DOMAIN blocks' /\ blocks \in Seq(Seq(StatementSet))
    BY <1>5 DEF PInv, CInv, IInv, Typed
  <2> QED
    BY <2>1
<1>11. ASSUME NEW d \in DOMAIN blocks, d # b PROVE blocks'[d] = blocks[d]
  <2>1. PICK s \in Seq(StatementSet) : s = blocks[d]
    BY <1>10
  <2>2. PICK t \in Seq(StatementSet) : t = blocks'[d]
    BY <1>10
  <2>3. DOMAIN t = DOMAIN s /\ \A i \in DOMAIN s : t[i] = s[i]
    BY <1>5, <1>11, <2>1, <2>2
  <2>4. Len(t) = Len(s) /\ \A i \in 1 .. Len(s) : t[i] = s[i]
    BY <2>3
  <2>5. t = s
    BY <2>4, SeqEqual
  <2> QED
    BY <2>1, <2>2, <2>5
<1>12. PICK x \in Written : x = BegunText(blocks[b], W)
  <2>1. blocks[b] # <<>>
    BY <1>1, <1>5 DEF Hung
  <2> QED
    BY <1>6, <2>1, BegunTyped
<1>13. BegunText(blocks'[b], W) = x
  <2>1. PICK s \in Seq(StatementSet) : s = blocks[b]
    BY <1>6
  <2>2. PICK t \in Seq(StatementSet) : t = blocks'[b]
    BY <1>5, <1>10
  <2>3. DOMAIN t = DOMAIN s /\ \A i \in DOMAIN s : i # n => t[i] = s[i]
    BY <1>5, <2>1, <2>2
  <2>4. /\ Len(t) = Len(s) /\ s # <<>> /\ Len(s) = n /\ t[Len(s)].words = s[Len(s)].words
        /\ \A i \in 1 .. Len(s) - 1 : t[i] = s[i]
    <3>1. Len(t) = Len(s) /\ Len(s) = n /\ n \in Nat \ {0}
      BY <1>2, <1>5, <2>1, <2>3
    <3>2. \A i \in 1 .. n - 1 : i \in DOMAIN s /\ i # n
      BY <3>1
    <3> QED
      BY <1>5, <2>1, <2>2, <2>3, <3>1, <3>2
  <2>5. BegunText(t, W) = BegunText(s, W)
    BY <2>4, BegunSame
  <2> QED
    BY <1>12, <2>1, <2>2, <2>5
<1>14. P[b] \in Written /\ MarkToken(Opens) \in Token
  BY <1>6, TokenIs DEF Writings
<1>15. PICK y \in Written : y = Append(P[b] \o x, MarkToken(Opens))
  <2>1. P[b] \o x \in Written
    BY <1>12, <1>14, JoinedText
  <2> QED
    BY <1>14, <2>1, OneText
<1>16. PICK Q \in Writings : Q[c] = y /\ \A k \in Nat : k # c => Q[k] = P[k]
  <2> DEFINE R == [P EXCEPT ![c] = y]
  <2>1. R \in Writings /\ R[c] = y /\ \A k \in Nat : k # c => R[k] = P[k]
    BY <1>5 DEF Writings
  <2> HIDE DEF R
  <2> QED
    BY <2>1
<1>17. \A d \in DOMAIN blocks : d \in Nat /\ Q[d] = P[d]
  BY <1>5, <1>16, OpenAre
<1>18. Q[1] = P[1]
  BY <1>5, <1>16
<1>19. SoFar(Toks, Done)' = y
  <2>1. token \in Marks \cup {"word"} /\ ~(last = "word" /\ token = Closes) /\ token # "word"
    BY <1>5, MarksNamed
  <2>2. SoFar(Toks, Done)' = Append(SoFar(Toks, Done), MarkToken(Opens))
    BY <1>5, <2>1, TakesSoFar
  <2>3. P[b] \o x = SoFar(Toks, Done)
    BY <1>1, <1>5, <1>12 DEF Texted
  <2> QED
    BY <1>15, <2>2, <2>3
<1>20. y \o BlockText(<<>>, W) = y
  <2>1. y \in Seq(Token)
    BY DEF Written
  <2> QED
    BY <2>1, BlockEmpty, ConcatEmptySeq
<1>21. ASSUME NEW d \in DOMAIN blocks' \ OpenBlocks' PROVE W[d] = BlockText(blocks'[d], W)
  <2>1. d \in DOMAIN blocks \ OpenBlocks /\ d # b
    BY <1>5, <1>6, <1>8
  <2> QED
    BY <1>11, <2>1 DEF Texted
<1>22. ASSUME NEW k \in 1 .. Len(stack') - 1
       PROVE  Q[stack'[k + 1]] = Append(Q[stack'[k]] \o BegunText(blocks'[stack'[k]], W), MarkToken(Opens))
  <2>1. CASE k = Len(stack)
    <3>1. stack'[k] = b /\ stack'[k + 1] = c
      BY <1>6, <1>7, <2>1
    <3> QED
      BY <1>5, <1>13, <1>15, <1>16, <1>17, <3>1
  <2>2. CASE k # Len(stack)
    <3>0. PICK m \in Nat : m = Len(stack)
      BY <1>6
    <3>0a. k \in 1 .. (m + 1) - 1 /\ k # m
      BY <1>7, <2>2, <3>0
    <3>0b. k \in 1 .. m - 1 /\ k + 1 \in 1 .. m /\ k \in 1 .. m
      BY <3>0a
    <3>1. k \in 1 .. Len(stack) - 1 /\ k + 1 \in 1 .. Len(stack) /\ k \in 1 .. Len(stack)
      BY <3>0, <3>0b
    <3>2. P[stack[k + 1]] = Append(P[stack[k]] \o BegunText(blocks[stack[k]], W), MarkToken(Opens))
      BY <3>1 DEF Texted
    <3>3. /\ stack'[k] = stack[k] /\ stack'[k + 1] = stack[k + 1]
          /\ stack[k] \in DOMAIN blocks /\ stack[k + 1] \in DOMAIN blocks /\ stack[k] # b
      BY <1>6, <1>7, <1>9, <3>1
    <3> QED
      BY <1>11, <1>17, <3>2, <3>3
  <2> QED
    BY <2>1, <2>2
<1>23. Top' = c /\ last' # "word"
  <2>1. Len(stack') = Len(stack) + 1
    BY <1>7
  <2> QED
    BY <1>5, <1>7, <2>1, MarksNamed DEF Top
<1>24. Q[1] = <<>>
  BY <1>18 DEF Texted
<1>25. Texted(W, Q)'
  BY <1>5, <1>16, <1>19, <1>20, <1>21, <1>22, <1>23, <1>24 DEF Texted
<1> QED
  BY <1>25

\* The innermost block is closed.
Ended(b) ==
  /\ token = Closes /\ last' = Closes /\ NextToken /\ blocks' = blocks
  /\ b \in DOMAIN blocks /\ b \in Nat /\ b \in OpenBlocks /\ Len(stack) \in Nat /\ Len(stack) > 0
  /\ Len(stack') = Len(stack) - 1 /\ stack[Len(stack)] = b
  /\ \A k \in 1 .. Len(stack) - 1 : stack'[k] = stack[k] /\ stack[k] # b
  /\ OpenBlocks' \subseteq OpenBlocks \ {b} /\ OpenBlocks \subseteq OpenBlocks' \cup {b}

LEMMA EndBlocks == ASSUME PInv, EndBlock, Hung, NEW b, b = Top PROVE Ended(b)
<1>1. /\ token = Closes /\ last' = Closes /\ NextToken /\ blocks' = blocks /\ stack # <<>>
      /\ stack' = Pop(stack)
  BY Zenon DEF EndBlock, Handle, Closes
<1>2. /\ stack \in Seq(Nat) /\ Len(stack) \in Nat /\ Len(stack) > 0 /\ DOMAIN stack = 1 .. Len(stack)
      /\ stack[Len(stack)] = b /\ b \in DOMAIN blocks /\ b \in Nat /\ b \in OpenBlocks
  BY <1>1, OpenAre
<1>3. /\ stack' \in Seq(Nat) /\ Len(stack') = Len(stack) - 1
      /\ \A k \in 1 .. Len(stack) - 1 : stack'[k] = stack[k]
  BY <1>1, <1>2, PopIs
<1>4. \A k \in 1 .. Len(stack) - 1 : stack[k] # b
  BY <1>1, TopIsLast
<1>5. OpenBlocks = {stack[k] : k \in 1 .. Len(stack)}
  BY <1>2 DEF OpenBlocks
<1>6. OpenBlocks' = {stack'[k] : k \in 1 .. Len(stack) - 1}
  <2>1. DOMAIN stack' = 1 .. Len(stack) - 1
    BY <1>3
  <2> QED
    BY <2>1 DEF OpenBlocks
<1>7. /\ \A k \in 1 .. Len(stack) : k = Len(stack) \/ k \in 1 .. Len(stack) - 1
      /\ \A k \in 1 .. Len(stack) - 1 : k \in 1 .. Len(stack)
  <2>1. PICK m \in Nat : m = Len(stack) /\ m > 0
    BY <1>2
  <2>2. /\ \A k \in 1 .. m : k = m \/ k \in 1 .. m - 1
        /\ \A k \in 1 .. m - 1 : k \in 1 .. m
    BY <2>1
  <2> QED
    BY <2>1, <2>2
<1>8. OpenBlocks' \subseteq OpenBlocks \ {b} /\ OpenBlocks \subseteq OpenBlocks' \cup {b}
  BY <1>2, <1>3, <1>4, <1>5, <1>6, <1>7
<1> QED
  BY <1>1, <1>2, <1>3, <1>4, <1>8 DEF Ended

LEMMA EndBlockHangs == ASSUME PInv, EndBlock, Hung PROVE Hung'
<1>1. PICK b : b = Top
  OBVIOUS
<1>2. /\ last' = Closes /\ blocks' = blocks
      /\ Len(stack) \in Nat /\ Len(stack) > 0 /\ Len(stack') = Len(stack) - 1 /\ stack[Len(stack)] = b
      /\ \A k \in 1 .. Len(stack) - 1 : stack'[k] = stack[k] /\ stack[k] # b
      /\ OpenBlocks' \subseteq OpenBlocks \ {b}
  BY <1>1, EndBlocks DEF Ended
<1>3. stack \in Seq(Nat) /\ stack' \in Seq(Nat)
  <2>1. stack \in Seq(Nat) /\ stack # <<>>
    BY OpenAre DEF EndBlock
  <2> QED
    BY <2>1, PopIs DEF EndBlock
<1>4. PICK m \in Nat : m = Len(stack) - 1
  BY <1>2
<1>5. Len(stack) = m + 1 /\ Len(stack') = m /\ DOMAIN stack = 1 .. m + 1 /\ DOMAIN stack' = 1 .. m
  BY <1>2, <1>3, <1>4
<1>6. \A k \in DOMAIN stack' : \A j \in 1 .. k - 1 : stack'[j] < stack'[k]
  <2> TAKE k \in DOMAIN stack'
  <2> TAKE j \in 1 .. k - 1
  <2>1. k \in 1 .. m /\ j \in 1 .. m /\ k \in DOMAIN stack
    BY <1>5
  <2>2. stack[j] < stack[k]
    BY <2>1 DEF Hung
  <2> QED
    BY <1>2, <1>4, <2>1, <2>2
<1>7. ASSUME NEW d \in DOMAIN blocks, NEW i \in DOMAIN blocks[d], ChildOf(d, i) \in OpenBlocks'
      PROVE  /\ i = Len(blocks[d])
             /\ \E k \in 1 .. Len(stack') - 1 : stack'[k] = d /\ stack'[k + 1] = ChildOf(d, i)
  <2>1. ChildOf(d, i) \in OpenBlocks /\ ChildOf(d, i) # b
    BY <1>2, <1>7
  <2>2. i = Len(blocks[d]) /\ \E k \in 1 .. Len(stack) - 1 : stack[k] = d /\ stack[k + 1] = ChildOf(d, i)
    BY <2>1 DEF Hung
  <2>3. PICK k \in 1 .. m : stack[k] = d /\ stack[k + 1] = ChildOf(d, i)
    BY <1>4, <2>2
  <2>4. k + 1 # m + 1
    BY <1>2, <1>5, <2>1, <2>3
  <2>5. k \in 1 .. m - 1 /\ k + 1 \in 1 .. m
    BY <2>4
  <2>6. stack'[k] = d /\ stack'[k + 1] = ChildOf(d, i)
    BY <1>2, <1>4, <2>3, <2>5
  <2> QED
    BY <1>5, <2>2, <2>5, <2>6
<1>8. ASSUME NEW k \in 1 .. Len(stack') - 1
      PROVE  blocks[stack'[k]] # <<>> /\ ChildOf(stack'[k], Len(blocks[stack'[k]])) = stack'[k + 1]
  <2>1. k \in 1 .. m /\ k + 1 \in 1 .. m
    BY <1>5
  <2>2. stack'[k] = stack[k] /\ stack'[k + 1] = stack[k + 1]
    BY <1>2, <1>4, <2>1
  <2>3. blocks[stack[k]] # <<>> /\ ChildOf(stack[k], Len(blocks[stack[k]])) = stack[k + 1]
    BY <1>4, <2>1 DEF Hung
  <2> QED
    BY <2>2, <2>3
<1>9. Closes # "word"
  BY MarksNamed
<1> QED
  BY <1>2, <1>6, <1>7, <1>8, <1>9 DEF Hung, ChildOf

LEMMA OneWritten == \A o \in Token : <<o>> \in Written
BY DEF Written

LastJoined(p, z, y, c) == p \o (z \o Append(y, c)) = Append((p \o z) \o y, c)

LEMMA JoinedBefore == \A p, z, y \in Written : \A c \in Token : LastJoined(p, z, y, c)
<1> SUFFICES ASSUME NEW p \in Written, NEW z \in Written, NEW y \in Written, NEW c \in Token
             PROVE  LastJoined(p, z, y, c)
  OBVIOUS
<1>1. PICK q \in Written : q = z \o y
  BY JoinedText
<1>2. z \o Append(y, c) = Append(q, c)
  BY <1>1, LastText
<1>3. p \o Append(q, c) = Append(p \o q, c)
  BY LastText
<1>4. p \o q = (p \o z) \o y
  <2>1. Associates(p, z, y)
    BY AssocText
  <2> QED
    BY <1>1, <2>1 DEF Associates
<1> QED
  BY <1>2, <1>3, <1>4 DEF LastJoined

LEMMA JoinedBehind ==
  ASSUME NEW w \in Written, NEW x \in Written, NEW o \in Token
  PROVE  w \o (<<o>> \o x) = Append(w, o) \o x
<1>1. PICK t \in Written : t = <<o>>
  BY OneWritten
<1>2. w \o (t \o x) = (w \o t) \o x
  <2>1. Associates(w, t, x)
    BY AssocText
  <2> QED
    BY <2>1 DEF Associates
<1>3. w \o <<o>> = Append(w, o)
  BY OneText
<1> QED
  BY <1>1, <1>2, <1>3

Wrapped(p, z, o, x, c) == p \o (z \o (<<o>> \o x \o <<c>>))
Spelt(p, z, o, x, c) == Append(Append(p \o z, o) \o x, c)

LEMMA BlockJoined ==
  \A x, p, z \in Written : \A o, c \in Token : Wrapped(p, z, o, x, c) = Spelt(p, z, o, x, c)
<1> SUFFICES ASSUME NEW x \in Written, NEW p \in Written, NEW z \in Written, NEW o \in Token, NEW c \in Token
             PROVE  Wrapped(p, z, o, x, c) = Spelt(p, z, o, x, c)
  OBVIOUS
<1>1. <<o>> \in Written
  BY OneWritten
<1>2. PICK y : y \in Written /\ y = <<o>> \o x
  BY <1>1, JoinedText
<1>3. y \o <<c>> = Append(y, c)
  BY <1>2, OneText
<1>4. PICK w : w \in Written /\ w = p \o z
  BY JoinedText
<1>5. p \o (z \o Append(y, c)) = Append(w \o y, c)
  <2>1. LastJoined(p, z, y, c)
    BY <1>2, JoinedBefore
  <2> QED
    BY <1>4, <2>1 DEF LastJoined
<1>6. w \o y = Append(w, o) \o x
  BY <1>2, <1>4, JoinedBehind
<1> QED
  BY <1>2, <1>3, <1>4, <1>5, <1>6 DEF Wrapped, Spelt

LEMMA EndBlockTexted ==
  ASSUME PInv, PInv', EndBlock, Hung, NEW W \in Writings, NEW P \in Writings, Texted(W, P)
  PROVE  \E V \in Writings : Texted(V, P)'
<1>1. PICK b : b = Top
  OBVIOUS
<1>2. /\ token = Closes /\ last' = Closes /\ NextToken /\ blocks' = blocks
      /\ b \in DOMAIN blocks /\ b \in Nat /\ b \in OpenBlocks /\ Len(stack) \in Nat /\ Len(stack) > 0
      /\ Len(stack') = Len(stack) - 1 /\ stack[Len(stack)] = b
      /\ \A k \in 1 .. Len(stack) - 1 : stack'[k] = stack[k] /\ stack[k] # b
      /\ OpenBlocks' \subseteq OpenBlocks \ {b} /\ OpenBlocks \subseteq OpenBlocks' \cup {b}
  BY <1>1, EndBlocks DEF Ended
<1>3. /\ stack # <<>> /\ last \in MayEnd
      /\ \A d \in DOMAIN blocks : blocks[d] \in Seq(StatementSet) /\ d \in Nat
      /\ \A k \in 1 .. Len(stack) : stack[k] \in DOMAIN blocks
  BY OpenAre DEF EndBlock
<1>3a. b # 0
  BY <1>2, OpenAre
<1>4. PICK x \in Written : x = BlockText(blocks[b], W)
  BY <1>2, <1>3, BlockTyped
<1>5. PICK V \in Writings : V[b] = x /\ \A k \in Nat : k # b => V[k] = W[k]
  <2> DEFINE R == [W EXCEPT ![b] = x]
  <2>1. R \in Writings /\ R[b] = x /\ \A k \in Nat : k # b => R[k] = W[k]
    BY <1>2 DEF Writings
  <2> HIDE DEF R
  <2> QED
    BY <2>1
<1>6. \A d \in DOMAIN blocks : \A i \in DOMAIN blocks[d] :
        ChildOf(d, i) \in Nat /\ (ChildOf(d, i) # 0 => ChildOf(d, i) > d)
  <2> TAKE d \in DOMAIN blocks
  <2> TAKE i \in DOMAIN blocks[d]
  <2>1. ChildOf(d, i) \in Nat /\ (ChildOf(d, i) # 0 => ChildOf(d, i) \in d + 1 .. Len(blocks)) /\ d \in Nat
    BY StatementIs1
  <2> QED
    BY <2>1
<1>7. ASSUME NEW d \in DOMAIN blocks, d = b \/ d \notin OpenBlocks
      PROVE  BlockText(blocks[d], V) = BlockText(blocks[d], W)
  <2>1. ASSUME NEW i \in DOMAIN blocks[d] PROVE ChildOf(d, i) # b /\ ChildOf(d, i) \in Nat
    <3>1. CASE d = b
      <4>1. ChildOf(d, i) \in Nat /\ (ChildOf(d, i) # 0 => ChildOf(d, i) > d)
        BY <1>6
      <4> QED
        BY <1>2, <1>3a, <3>1, <4>1
    <3>2. CASE d \notin OpenBlocks
      <4>1. \A k \in 1 .. Len(stack) - 1 : stack[k] \in OpenBlocks
        BY OpenAre
      <4>2. ChildOf(d, i) \notin OpenBlocks
        BY <3>2, <4>1 DEF Hung
      <4> QED
        BY <1>2, <1>6, <4>2
    <3> QED
      BY <1>7, <3>1, <3>2
  <2>2. \A i \in DOMAIN blocks[d] : V[blocks[d][i].child] = W[blocks[d][i].child]
    BY <1>5, <2>1 DEF ChildOf
  <2> QED
    BY <2>2, SameBlockText
<1>8. ASSUME NEW d \in DOMAIN blocks \ OpenBlocks' PROVE V[d] = BlockText(blocks[d], V)
  <2>1. CASE d = b
    BY <1>2, <1>4, <1>5, <1>7, <2>1
  <2>2. CASE d # b
    <3>1. d \notin OpenBlocks /\ d \in Nat
      BY <1>2, <1>3, <1>8, <2>2
    <3> QED
      BY <1>5, <1>7, <2>2, <3>1 DEF Texted
  <2> QED
    BY <2>1, <2>2
<1>9. ASSUME NEW k \in 1 .. Len(stack) - 1 PROVE BegunText(blocks[stack[k]], V) = BegunText(blocks[stack[k]], W)
  <2>1. PICK d \in DOMAIN blocks : d = stack[k]
    BY <1>2, <1>3
  <2>2. blocks[d] \in Seq(StatementSet) /\ blocks[d] # <<>>
    BY <1>3, <2>1 DEF Hung
  <2>3. ASSUME NEW i \in 1 .. Len(blocks[d]) - 1 PROVE V[blocks[d][i].child] = W[blocks[d][i].child]
    <3>1. i \in DOMAIN blocks[d] /\ i # Len(blocks[d])
      BY <2>2
    <3>2. ChildOf(d, i) \notin OpenBlocks
      BY <3>1 DEF Hung
    <3>3. ChildOf(d, i) # b /\ ChildOf(d, i) \in Nat
      BY <1>2, <1>6, <3>1, <3>2
    <3> QED
      BY <1>5, <3>3 DEF ChildOf
  <2> QED
    BY <2>1, <2>2, <2>3, SameBegunText
<1>10. ASSUME NEW k \in 1 .. Len(stack') - 1
       PROVE  P[stack'[k + 1]] = Append(P[stack'[k]] \o BegunText(blocks[stack'[k]], V), MarkToken(Opens))
  <2>1. k \in 1 .. Len(stack) - 1 /\ k + 1 \in 1 .. Len(stack) - 1
    BY <1>2
  <2>2. P[stack[k + 1]] = Append(P[stack[k]] \o BegunText(blocks[stack[k]], W), MarkToken(Opens))
    BY <2>1 DEF Texted
  <2> QED
    BY <1>2, <1>9, <2>1, <2>2
<1>11. P[b] \in Written /\ MarkToken(Closes) \in Token /\ MarkToken(Ends) \in Token /\ MarkToken(Opens) \in Token
  BY <1>2, TokenIs DEF Writings
<1>12. SoFar(Toks, Done)' = Append(P[b] \o x, MarkToken(Closes))
  <2>0. token \in Marks \cup {"word"} /\ token # "word"
    BY <1>2, MarksNamed
  <2>1. CASE last = "word"
    <3>1. blocks[b] # <<>> /\ blocks[b][Len(blocks[b])].child = 0
      BY <1>1, <1>3, <2>1 DEF Hung, ChildOf
    <3>2. PICK y \in Written : y = BegunText(blocks[b], W)
      BY <1>2, <1>3, <3>1, BegunTyped
    <3>3. x = y \o <<MarkToken(Ends)>>
      BY <1>2, <1>3, <1>4, <3>1, <3>2, BegunEnds DEF EndText
    <3>4. x = Append(y, MarkToken(Ends))
      BY <1>11, <3>2, <3>3, OneText
    <3>5. P[b] \o y = SoFar(Toks, Done)
      BY <1>1, <1>3, <2>1, <3>2 DEF Texted
    <3>6. SoFar(Toks, Done)' = SoFar(Toks, Done) \o <<MarkToken(Ends), MarkToken(Closes)>> /\ SoFar(Toks, Done) \in Written
      BY <1>2, <2>0, <2>1, TakesSoFar
    <3>7. SoFar(Toks, Done)' = Append(Append(SoFar(Toks, Done), MarkToken(Ends)), MarkToken(Closes))
      BY <1>11, <3>6, PairMore
    <3>8. P[b] \o Append(y, MarkToken(Ends)) = Append(P[b] \o y, MarkToken(Ends))
      BY <1>11, <3>2, LastText
    <3> QED
      BY <3>4, <3>5, <3>7, <3>8
  <2>2. CASE last # "word"
    <3>1. P[b] \o x = SoFar(Toks, Done)
      BY <1>1, <1>3, <1>4, <2>2 DEF Texted
    <3>2. SoFar(Toks, Done)' = Append(SoFar(Toks, Done), MarkToken(Closes))
      BY <1>2, <2>0, <2>2, TakesSoFar
    <3> QED
      BY <3>1, <3>2
  <2> QED
    BY <2>1, <2>2
<1>13. ASSUME stack' # <<>> PROVE P[Top'] \o BlockText(blocks[Top'], V) = SoFar(Toks, Done)'
  <2>1. stack' \in Seq(Nat)
    BY DEF PInv, CInv, IInv, Typed
  <2>2. PICK m \in Nat : m = Len(stack')
    BY <2>1
  <2>3. m > 0 /\ m = Len(stack) - 1 /\ m \in 1 .. Len(stack) - 1 /\ m \in 1 .. Len(stack) /\ m + 1 = Len(stack)
    BY <1>2, <1>13, <2>1, <2>2
  <2>4. PICK d \in DOMAIN blocks : d = stack[m]
    BY <1>3, <2>3
  <2>5. Top' = d /\ d # b /\ d \in Nat
    BY <1>2, <1>3, <2>2, <2>3, <2>4 DEF Top
  <2>6. blocks[d] # <<>> /\ blocks[d][Len(blocks[d])].child = b
    BY <1>2, <2>3, <2>4 DEF Hung, ChildOf
  <2>7. P[b] = Append(P[d] \o BegunText(blocks[d], W), MarkToken(Opens))
    BY <1>2, <2>3, <2>4 DEF Texted
  <2>8. PICK z \in Written : z = BegunText(blocks[d], W)
    BY <1>3, <2>6, BegunTyped
  <2>9. BegunText(blocks[d], V) = z
    BY <1>9, <2>3, <2>4, <2>8
  <2>10. BlockText(blocks[d], V) = z \o (<<MarkToken(Opens)>> \o x \o <<MarkToken(Closes)>>)
    <3>2. EndText(b, V) = <<MarkToken(Opens)>> \o x \o <<MarkToken(Closes)>>
      BY <1>3a, <1>5 DEF EndText
    <3> QED
      BY <1>3, <2>6, <2>9, <3>2, BegunEnds
  <2>11. P[d] \in Written
    BY <2>5 DEF Writings
  <2>12. P[d] \o (z \o (<<MarkToken(Opens)>> \o x \o <<MarkToken(Closes)>>))
         = Append(Append(P[d] \o z, MarkToken(Opens)) \o x, MarkToken(Closes))
    <3>1. Wrapped(P[d], z, MarkToken(Opens), x, MarkToken(Closes)) = Spelt(P[d], z, MarkToken(Opens), x, MarkToken(Closes))
      BY <1>11, <2>11, BlockJoined
    <3> QED
      BY <3>1 DEF Wrapped, Spelt
  <2> QED
    BY <1>12, <2>5, <2>7, <2>8, <2>10, <2>12
<1>14. Closes # "word"
  BY MarksNamed
<1>15. Texted(V, P)'
  BY <1>2, <1>8, <1>10, <1>13, <1>14 DEF Texted
<1> QED
  BY <1>15

LEMMA InitText == Init => TextInv
<1> SUFFICES ASSUME Init PROVE TextInv
  OBVIOUS
<1>1. PInv /\ last = "start" /\ stack = <<1>> /\ blocks = << <<>> >>
  BY InitPInv DEF Init
<1>2. Done = 0
  BY <1>1, FollowedNow, MarksNamed DEF Fits
<1>3. /\ DOMAIN blocks = {1} /\ DOMAIN blocks[1] = {} /\ DOMAIN stack = {1} /\ 1 .. Len(stack) - 1 = {}
      /\ Top = 1 /\ blocks[1] = <<>> /\ OpenBlocks = {1} /\ 1 .. 1 - 1 = {}
  BY <1>1 DEF Top, OpenBlocks
<1>4. Hung
  BY <1>1, <1>3 DEF Hung
<1> DEFINE W == [b \in Nat |-> <<>>]
<1>5. W \in Writings /\ W[1] = <<>>
  BY DEF Writings, Written
<1> HIDE DEF W
<1>6. BlockText(blocks[1], W) = <<>>
  BY <1>3, BlockEmpty
<1>7. SoFar(Toks, Done) = <<>>
  BY <1>2 DEF SoFar
<1>8. <<>> \o <<>> = <<>>
  OBVIOUS
<1>9. Texted(W, W)
  BY <1>1, <1>3, <1>5, <1>6, <1>7, <1>8 DEF Texted
<1> QED
  BY <1>1, <1>4, <1>5, <1>9 DEF TextInv

LEMMA StaysTexted ==
  ASSUME Toks' = Toks, Done' = Done, UNCHANGED <<last, blocks, stack>>, Hung,
         NEW W \in Writings, NEW P \in Writings, Texted(W, P)
  PROVE  Hung' /\ Texted(W, P)'
<1>1. Top' = Top /\ OpenBlocks' = OpenBlocks
  BY DEF Top, OpenBlocks
<1>2. \A b, i : ChildOf(b, i)' = ChildOf(b, i)
  BY DEF ChildOf
<1>3. ChildOf(Top, Len(blocks[Top]))' = ChildOf(Top, Len(blocks[Top]))
  BY DEF ChildOf, Top
<1>4. Hung'
  BY <1>1, <1>2, <1>3 DEF Hung, ChildOf
<1>5. SoFar(Toks, Done)' = SoFar(Toks, Done)
  BY DEF SoFar
<1>6. Texted(W, P)'
  BY <1>1, <1>5 DEF Texted
<1> QED
  BY <1>4, <1>6

\* Whatever Parse takes, its blocks are the text it took.
LEMMA NextText == TextInv /\ [Next]_vars => TextInv'
<1> SUFFICES ASSUME TextInv, [Next]_vars PROVE TextInv'
  OBVIOUS
<1>1. PInv /\ PInv' /\ Hung
  BY NextFollows DEF TextInv
<1>2. PICK W \in Writings : \E P \in Writings : Texted(W, P)
  BY DEF TextInv
<1>3. PICK P \in Writings : Texted(W, P)
  BY <1>2
<1>4. Hung' /\ \E V \in Writings : \E Q \in Writings : Texted(V, Q)'
  <2>1. CASE Word
    BY <1>1, <1>3, <2>1, WordHangs, WordTexted
  <2>2. CASE EndStatement
    BY <1>1, <1>3, <2>2, EndStatementTexted
  <2>3. CASE StartBlock
    BY <1>1, <1>3, <2>3, StartBlockHangs, StartBlockTexted
  <2>4. CASE EndBlock
    BY <1>1, <1>3, <2>4, EndBlockHangs, EndBlockTexted
  <2>5. CASE ~Word /\ ~EndStatement /\ ~StartBlock /\ ~EndBlock
    BY <1>1, <1>3, <2>5, SameStays, StaysTexted
  <2> QED
    BY <2>1, <2>2, <2>3, <2>4, <2>5
<1>5. (\E V \in Writings : \E Q \in Writings : Texted(V, Q))'
  BY <1>4 DEF Writings, Written
<1> QED
  BY <1>1, <1>4, <1>5 DEF TextInv

----------------------------------------------------------------------------
(* ToString, once Parse has accepted.                                      *)

Spells(g) == g = [b \in 1 .. Len(blocks) |-> BlockText(blocks[b], g)]

LEMMA SpellsSame ==
  ASSUME PInv, NEW f, NEW g, Spells(f), Spells(g)
  PROVE  \A b \in 1 .. Len(blocks) : f[b] = g[b]
<1> DEFINE n == Len(blocks)
           T == {m \in Nat : m < n => f[n - m] = g[n - m]}
<1>0. n \in Nat /\ DOMAIN blocks = 1 .. n
  BY DEF PInv, CInv, IInv, Typed
<1>1. ASSUME NEW m \in Nat, \A l \in 0 .. m - 1 : l \in T PROVE m \in T
  <2> SUFFICES ASSUME m < n PROVE f[n - m] = g[n - m]
    OBVIOUS
  <2>1. n - m \in 1 .. n
    BY <1>0
  <2>2. ASSUME NEW i \in DOMAIN blocks[n - m], blocks[n - m][i].child # 0
        PROVE  f[blocks[n - m][i].child] = g[blocks[n - m][i].child]
    <3>1. PICK c : c = blocks[n - m][i].child
      OBVIOUS
    <3>2. c \in n - m + 1 .. n
      BY <1>0, <2>1, <2>2, <3>1, StatementIs1 DEF ChildOf
    <3>3. n - c \in 0 .. m - 1 /\ n - c < n /\ n - (n - c) = c
      BY <1>0, <3>2
    <3>4. n - c \in T
      BY <1>1, <3>3
    <3> QED
      BY <3>1, <3>3, <3>4
  <2>3. BlockText(blocks[n - m], f) = BlockText(blocks[n - m], g)
    BY <2>2, SameBlockText
  <2>4. f[n - m] = BlockText(blocks[n - m], f) /\ g[n - m] = BlockText(blocks[n - m], g)
    BY <2>1 DEF Spells
  <2> QED
    BY <2>3, <2>4
<1> HIDE DEF T
<1>2. Nat \subseteq T
  BY <1>1, Induction
<1> TAKE b \in 1 .. n
<1>3. n - b \in Nat /\ n - b < n /\ n - (n - b) = b
  BY <1>0
<1>4. n - b \in T
  BY <1>2, <1>3
<1> QED
  BY <1>3, <1>4 DEF T

LEMMA ToTextIs ==
  ASSUME PInv, 1 \in DOMAIN blocks, NEW V, \A b \in DOMAIN blocks : V[b] = BlockText(blocks[b], V)
  PROVE  ToText = V[1]
<1>1. Len(blocks) \in Nat /\ DOMAIN blocks = 1 .. Len(blocks) /\ 1 \in 1 .. Len(blocks)
  BY DEF PInv, CInv, IInv, Typed
<1>2. PICK g : g = [b \in 1 .. Len(blocks) |-> V[b]]
  OBVIOUS
<1>3. ASSUME NEW b \in 1 .. Len(blocks) PROVE g[b] = BlockText(blocks[b], g)
  <2>1. ASSUME NEW i \in DOMAIN blocks[b], blocks[b][i].child # 0
        PROVE  g[blocks[b][i].child] = V[blocks[b][i].child]
    <3>1. blocks[b][i].child \in b + 1 .. Len(blocks)
      BY <1>1, <2>1, StatementIs1 DEF ChildOf
    <3>2. blocks[b][i].child \in 1 .. Len(blocks)
      BY <1>1, <3>1
    <3> QED
      BY <1>2, <3>2
  <2>2. BlockText(blocks[b], g) = BlockText(blocks[b], V)
    BY <2>1, SameBlockText
  <2> QED
    BY <1>1, <1>2, <2>2
<1>4. Spells(g)
  BY <1>2, <1>3 DEF Spells
<1> DEFINE f == CHOOSE h : Spells(h)
<1>5. Spells(f)
  BY <1>4
<1>6. ToText = f[1]
  BY DEF ToText, Spells, BlockText, StatementText, WordsText, EndText, Ends, Opens, Closes
<1> HIDE DEF f
<1>7. f[1] = g[1]
  BY <1>1, <1>4, <1>5, SpellsSame
<1> QED
  BY <1>1, <1>2, <1>6, <1>7

LEMMA AcceptedText ==
  ASSUME TextInv, status = "accepted"
  PROVE  ToText = Expected(Toks, Len(Toks))
<1>1. PInv /\ Hung
  BY DEF TextInv
<1>2. PICK W \in Writings : \E P \in Writings : Texted(W, P)
  BY DEF TextInv
<1>3. PICK P \in Writings : Texted(W, P)
  BY <1>2
<1>4. token = "eof" /\ last \in {Ends, Closes} /\ depth = 0 /\ stack = <<1>>
  BY <1>1, MarksNamed DEF PInv, Outcome, CInv, AllClosed
<1>5. Done = Len(Toks) /\ Done # 0 /\ last = Kind(Toks, Done) /\ last # "word"
  <2>1. Left = <<>>
    BY <1>4, EndLeft
  <2>2. Done = Len(Toks)
    BY <1>1, <2>1, FollowedNow
  <2> QED
    BY <1>1, <1>4, <2>2, FollowedNow, DepthsTaken, MarksNamed
<1>6. /\ Top = 1 /\ OpenBlocks = {1} /\ 1 \in DOMAIN blocks
      /\ \A b \in DOMAIN blocks : b \in Nat \ {0} /\ blocks[b] \in Seq(StatementSet)
  BY <1>1, <1>4, OpenAre DEF Top, OpenBlocks
<1>7. PICK x \in Written : x = BlockText(blocks[1], W)
  BY <1>6, BlockTyped
<1>8. x = Expected(Toks, Len(Toks))
  <2>1. P[1] = <<>> /\ P[1] \o x = SoFar(Toks, Done)
    BY <1>3, <1>4, <1>5, <1>6, <1>7 DEF Texted
  <2>2. <<>> \o x = x
    BY DEF Written
  <2>3. SoFar(Toks, Done) = Expected(Toks, Done)
    BY <1>5 DEF SoFar
  <2> QED
    BY <1>5, <2>1, <2>2, <2>3
<1>9. PICK V \in Writings : V[1] = x /\ \A k \in Nat : k # 1 => V[k] = W[k]
  <2> DEFINE R == [W EXCEPT ![1] = x]
  <2>1. R \in Writings /\ R[1] = x /\ \A k \in Nat : k # 1 => R[k] = W[k]
    BY DEF Writings
  <2> HIDE DEF R
  <2> QED
    BY <2>1
<1>10. ASSUME NEW b \in DOMAIN blocks PROVE V[b] = BlockText(blocks[b], V)
  <2>1. ASSUME NEW i \in DOMAIN blocks[b], blocks[b][i].child # 0
        PROVE  V[blocks[b][i].child] = W[blocks[b][i].child]
    <3>1. blocks[b][i].child \in b + 1 .. Len(blocks) /\ b \in Nat \ {0} /\ Len(blocks) \in Nat
      BY <1>1, <1>6, <2>1, StatementIs1, OpenAre DEF ChildOf
    <3>2. blocks[b][i].child \in Nat /\ blocks[b][i].child # 1
      BY <3>1
    <3> QED
      BY <1>9, <3>2
  <2>2. BlockText(blocks[b], V) = BlockText(blocks[b], W)
    BY <2>1, SameBlockText
  <2>3. CASE b = 1
    BY <1>7, <1>9, <2>2, <2>3
  <2>4. CASE b # 1
    <3>1. W[b] = BlockText(blocks[b], W)
      BY <1>3, <1>6, <2>4 DEF Texted
    <3> QED
      BY <1>6, <1>9, <2>2, <2>4, <3>1
  <2> QED
    BY <2>3, <2>4
<1> QED
  BY <1>1, <1>6, <1>8, <1>9, <1>10, ToTextIs

LEMMA Kept == TextInv => NothingLost
<1> SUFFICES ASSUME TextInv, status = "accepted"
             PROVE  LET t == Tokens(text)
                        needs(i) == t[i].type = "word" /\ i < Len(t) /\ t[i + 1].type = "}"
                    IN ToText = FlattenSeq([i \in DOMAIN t |->
                                              IF needs(i) THEN <<t[i], MarkToken(";")>> ELSE <<t[i]>>])
  BY DEF NothingLost
<1>1. Toks \in Seq(Token)
  BY TokensAre DEF TextInv, PInv, Lexed, Toks, WordSet
<1>2. DOMAIN Toks = 1 .. Len(Toks)
  BY <1>1
<1>3. ToText = FlattenSeq([i \in DOMAIN Toks |-> Emit(Toks, i)])
  BY <1>2, AcceptedText DEF Expected
<1> QED
  BY <1>3, Zenon DEF Toks, Emit, Needs, Ends, Closes

\* What ToString writes of an accepted configuration is its tokens, in their order
\* and nesting, and the ";" that the last statement of a block may do without.
THEOREM TextsAreKept == Spec => []NothingLost
BY InitText, NextText, Kept, PTL DEF Spec
=============================================================================
