--------------------------- MODULE ExchangeProofs ---------------------------
(* Proofs about Exchange, for every text, buffer and number of reads.      *)
EXTENDS Exchange, SequenceLemmas

\* Characters.
Symbols == STRING \cup {Zero, Junk}
Strg == Seq(Symbols)

Typed ==
  /\ deep \in BOOLEAN /\ asked \in Asked /\ keyed \in Keyed(asked)
  /\ text \in Strg /\ reads \in Seq(Nat)
  /\ data_ \in Strg /\ Len(data_) = MaxLength

\* Facts about sequences of characters.
LEMMA Longer == ASSUME NEW S, NEW s \in Seq(S), NEW c \in S PROVE Append(s, c) \in Seq(S)
OBVIOUS

LEMMA Wider == ASSUME NEW S, NEW T, S \subseteq T PROVE Seq(S) \subseteq Seq(T)
<1> SUFFICES ASSUME NEW s \in Seq(S) PROVE s \in Seq(T)
  OBVIOUS
<1>1. PICK n \in Nat : s \in [1 .. n -> S]
  BY SeqDef
<1>2. s \in [1 .. n -> T]
  BY <1>1
<1> QED
  BY <1>2, SeqDef

LEMMA Memory ==
  ASSUME NEW S, NEW T, S \subseteq T, NEW n \in Nat, NEW f \in [1 .. n -> S]
  PROVE  f \in Seq(T) /\ Len(f) = n
<1>1. f \in [1 .. n -> T]
  OBVIOUS
<1>2. f \in Seq(T)
  BY <1>1, SeqDef
<1>3. Len(f) \in Nat /\ DOMAIN f = 1 .. Len(f)
  BY <1>2, LenProperties
<1> QED
  BY <1>1, <1>2, <1>3

LEMMA Overwritten ==
  ASSUME NEW c \in Strg, NEW d \in Strg, Len(c) <= Len(d)
  PROVE  /\ c \o SubSeq(d, Len(c) + 1, Len(d)) \in Strg
         /\ Len(c \o SubSeq(d, Len(c) + 1, Len(d))) = Len(d)
<1> DEFINE e == SubSeq(d, Len(c) + 1, Len(d))
<1>1. e \in Strg /\ Len(e) = Len(d) - Len(c)
  BY DEF Strg
<1> HIDE DEF e
<1>2. c \o e \in Strg /\ Len(c \o e) = Len(c) + Len(e)
  BY <1>1 DEF Strg
<1> QED
  BY <1>1, <1>2 DEF e, Strg

LEMMA StringsAreText == ASSUME NEW d \in Strg, NEW w \in Strings(d) PROVE w \in Strg
<1>0. Junk \in Symbols
  BY DEF Symbols
<1>1. Append(d, Junk) \in Strg
  BY <1>0, Longer DEF Strg
<1>2. \A n \in DOMAIN d : SubSeq(d, 1, n - 1) \in Strg
  BY DEF Strg
<1> QED
  BY <1>1, <1>2 DEF Strings

\* A string holds what the buffer holds up to a zero in it, or all of it and at most
\* one more.
LEMMA StringsHold ==
  ASSUME NEW d \in Strg, Len(d) = MaxLength, NEW z \in Strings(d)
  PROVE  /\ z \in Strg
         /\ \A k \in 1 .. Len(z) : \/ k \in 1 .. MaxLength /\ z[k] = d[k] /\ d[k] # Zero
                                   \/ k > MaxLength /\ z[k] = Junk
         /\ \A n \in 0 .. MaxLength : (\A k \in 1 .. n : d[k] # Zero) => Len(z) >= n
<1>0. MaxLength \in Nat
  BY ExchangeAssumption
<1>1. z \in Strg
  BY StringsAreText
<1>2. CASE \E n \in DOMAIN d : /\ z = SubSeq(d, 1, n - 1) /\ d[n] = Zero
                             /\ \A i \in 1 .. n - 1 : d[i] # Zero
  <2>1. PICK n \in DOMAIN d : /\ z = SubSeq(d, 1, n - 1) /\ d[n] = Zero
                              /\ \A i \in 1 .. n - 1 : d[i] # Zero
    BY <1>2
  <2>2. n \in 1 .. MaxLength
    BY DEF Strg
  <2>3. Len(z) = n - 1 /\ \A i \in 1 .. n - 1 : z[i] = d[i]
    BY <1>0, <2>1, <2>2 DEF Strg
  <2> QED
    BY <1>0, <1>1, <2>1, <2>2, <2>3
<1>3. CASE z \in {d, Append(d, Junk)} /\ \A i \in 1 .. MaxLength : d[i] # Zero
  <2>1. /\ Len(z) >= MaxLength /\ \A i \in 1 .. MaxLength : z[i] = d[i]
        /\ \A i \in MaxLength + 1 .. Len(z) : z[i] = Junk
    <3>1. CASE z = d
      BY <1>0, <3>1
    <3>2. CASE z = Append(d, Junk)
      BY <1>0, <3>2 DEF Strg
    <3> QED
      BY <1>3, <3>1, <3>2
  <2>2. Len(z) \in Nat
    BY <1>1 DEF Strg
  <2> QED
    BY <1>0, <1>1, <1>3, <2>1, <2>2
<1> QED
  BY <1>2, <1>3 DEF Strings

LEMMA InitTyped == Init => Typed
<1> SUFFICES ASSUME Init PROVE Typed
  OBVIOUS
<1>1. deep \in BOOLEAN /\ asked \in Asked /\ keyed \in Keyed(asked) /\ reads \in Seq(Nat)
  BY ExchangeAssumption DEF Init
<1>2. text \in Strg
  <2>1. STRING \ {Zero} \subseteq Symbols
    BY DEF Symbols
  <2>2. text \in Seq(STRING \ {Zero})
    BY ExchangeAssumption DEF Init
  <2> QED
    BY <2>1, <2>2, Wider DEF Strg
<1>3. data_ \in Strg /\ Len(data_) = MaxLength
  <2>1. data_ \in [1 .. MaxLength -> {Zero, Junk}] /\ MaxLength \in Nat
    BY ExchangeAssumption DEF Init
  <2>2. {Zero, Junk} \subseteq Symbols
    BY DEF Symbols
  <2> QED
    BY <2>1, <2>2, Memory DEF Strg
<1> QED
  BY <1>1, <1>2, <1>3 DEF Typed

LEMMA GotIsNat == ASSUME reads \in Seq(Nat) PROVE Got \in Nat
BY DEF Got, UpTo

LEMMA HandleReadTyped == ASSUME Typed, HandleRead PROVE Typed'
<1>1. PICK n \in 1 .. MaxLength :
        /\ Got + n <= Len(text)
        /\ reads' = Append(reads, Got + n)
        /\ data_' = ReadInto(SubSeq(text, Got + 1, Got + n))
  BY DEF HandleRead
<1> DEFINE chunk == SubSeq(text, Got + 1, Got + n)
<1>2. text \in Strg /\ data_ \in Strg /\ Len(data_) = MaxLength /\ MaxLength \in Nat
  BY ExchangeAssumption DEF Typed
<1>3. reads' \in Seq(Nat) /\ chunk \in Strg /\ Len(chunk) = n /\ n \in Nat
  <2>1. reads \in Seq(Nat) /\ Got \in Nat
    BY GotIsNat DEF Typed
  <2> QED
    BY <1>1, <1>2, <2>1 DEF Strg
<1> HIDE DEF chunk
<1>4. data_' \in Strg /\ Len(data_') = MaxLength
  <2>1. data_' = chunk \o SubSeq(data_, Len(chunk) + 1, Len(data_))
    BY <1>1, <1>2 DEF chunk, ReadInto
  <2>2. Len(chunk) <= Len(data_)
    BY <1>2, <1>3
  <2> QED
    BY <1>2, <1>3, <2>1, <2>2, Overwritten
<1>5. UNCHANGED <<deep, asked, keyed, text>>
  BY DEF HandleRead, given
<1> QED
  BY <1>3, <1>4, <1>5 DEF Typed, Keyed

LEMMA OthersTyped ==
  ASSUME Typed, HandleWrite \/ Error \/ UNCHANGED vars
  PROVE  /\ UNCHANGED <<deep, asked, keyed, text, data_, state, reads, runs, response_, stored>>
         /\ Typed'
<1>1. UNCHANGED <<deep, asked, keyed, text, data_, state, reads, runs, response_, stored>>
  BY DEF HandleWrite, Error, vars, given
<1> QED
  BY <1>1 DEF Typed, Keyed

----------------------------------------------------------------------------
(* A run of the parser over a chunk: where it is after each character.     *)

IsRun(s, w, f) ==
  f = [i \in 0 .. Len(w) |-> IF i = 0 THEN Start(s) ELSE Feed(f[i - 1], w[i])]

LEMMA RunExists == ASSUME NEW s, NEW w \in Strg PROVE \E f : IsRun(s, w, f)
<1> DEFINE Run(n, f) == f = [i \in 0 .. n |-> IF i = 0 THEN Start(s) ELSE Feed(f[i - 1], w[i])]
           T == {n \in Nat : \E f : Run(n, f)}
<1>1. 0 \in T
  <2>1. Run(0, [i \in 0 .. 0 |-> Start(s)])
    OBVIOUS
  <2> QED
    BY <2>1
<1>2. ASSUME NEW n \in Nat, n \in T PROVE n + 1 \in T
  <2>1. PICK f : Run(n, f)
    BY <1>2
  <2> DEFINE g == [i \in 0 .. n + 1 |-> IF i = n + 1 THEN Feed(f[n], w[n + 1]) ELSE f[i]]
  <2>2. \A i \in 0 .. n : g[i] = f[i]
    OBVIOUS
  <2>3. \A i \in 0 .. n + 1 : g[i] = IF i = 0 THEN Start(s) ELSE Feed(g[i - 1], w[i])
    <3> TAKE i \in 0 .. n + 1
    <3>1. CASE i = n + 1
      BY <2>2, <3>1
    <3>2. CASE i \in 1 .. n
      <4>1. f[i] = Feed(f[i - 1], w[i]) /\ i - 1 \in 0 .. n
        BY <2>1, <3>2
      <4> HIDE DEF g
      <4> QED
        BY <2>2, <3>2, <4>1
    <3>3. CASE i = 0
      BY <2>1, <3>3
    <3> QED
      BY <3>1, <3>2, <3>3
  <2>4. g = [i \in 0 .. n + 1 |-> g[i]]
    OBVIOUS
  <2> HIDE DEF g
  <2>5. Run(n + 1, g)
    BY <2>3, <2>4
  <2> QED
    BY <2>5
<1> HIDE DEF T
<1>3. Nat \subseteq T
  BY <1>1, <1>2, StepInduction
<1>4. Len(w) \in T
  BY <1>3 DEF Strg
<1> QED
  BY <1>4 DEF T, IsRun

Along(f, n, w) == \A i \in 1 .. n : f[i] = Feed(f[i - 1], w[i])
Same(n, v, w) == \A i \in 1 .. n : v[i] = w[i]

LEMMA ParseRuns ==
  ASSUME NEW s, NEW w \in Strg
  PROVE  \E f : Parse(s, w) = f[Len(w)] /\ f[0] = Start(s) /\ Along(f, Len(w), w)
<1> DEFINE f[i \in 0 .. Len(w)] == IF i = 0 THEN Start(s) ELSE Feed(f[i - 1], w[i])
<1>1. Parse(s, w) = f[Len(w)]
  BY DEF Parse
<1>2. f = CHOOSE g : IsRun(s, w, g)
  BY DEF IsRun
<1> HIDE DEF f
<1>3. IsRun(s, w, f)
  BY <1>2, RunExists
<1>4. f[0] = Start(s) /\ Along(f, Len(w), w)
  <2>1. Len(w) \in Nat
    BY DEF Strg
  <2> QED
    BY <1>3, <2>1 DEF IsRun, Along
<1> QED
  BY <1>1, <1>3, <1>4

\* Two runs over the same characters, from the same place, agree.
LEMMA RunsAgree ==
  ASSUME NEW n \in Nat, NEW f, NEW g, NEW a, NEW b,
         f[0] = g[0], Same(n, a, b), Along(f, n, a), Along(g, n, b)
  PROVE  \A i \in 0 .. n : f[i] = g[i]
<1> DEFINE T == {i \in Nat : i <= n => f[i] = g[i]}
<1>1. 0 \in T
  OBVIOUS
<1>2. ASSUME NEW i \in Nat, i \in T PROVE i + 1 \in T
  <2> SUFFICES ASSUME i + 1 <= n PROVE f[i + 1] = g[i + 1]
    OBVIOUS
  <2>1. f[i] = g[i] /\ i + 1 \in 1 .. n /\ (i + 1) - 1 = i
    BY <1>2
  <2> QED
    BY <2>1 DEF Same, Along
<1> HIDE DEF T
<1>3. Nat \subseteq T
  BY <1>1, <1>2, StepInduction
<1> QED
  BY <1>3 DEF T

\* Where the parser is after k characters of w, had they come in one read.
At(w, k) == Parse("header_value", SubSeq(w, 1, k))

LEMMA AtSteps ==
  ASSUME NEW w \in Strg
  PROVE  /\ At(w, 0) = Start("header_value")
         /\ At(w, Len(w)) = Parse("header_value", w)
         /\ \A k \in 0 .. Len(w) - 1 : At(w, k + 1) = Feed(At(w, k), w[k + 1])
<1>0. Len(w) \in Nat
  BY DEF Strg
<1>1. At(w, 0) = Start("header_value")
  <2>1. SubSeq(w, 1, 0) \in Strg /\ Len(SubSeq(w, 1, 0)) = 0
    BY DEF Strg
  <2> QED
    BY <2>1, ParseRuns DEF At
<1>2. SubSeq(w, 1, Len(w)) = w
  BY DEF Strg
<1>3. ASSUME NEW k \in 0 .. Len(w) - 1
      PROVE  At(w, k + 1) = Feed(At(w, k), w[k + 1])
  <2> DEFINE u == SubSeq(w, 1, k)
             v == SubSeq(w, 1, k + 1)
  <2>1. u \in Strg /\ Len(u) = k /\ \A i \in 1 .. k : u[i] = w[i]
    BY <1>0, <1>3 DEF Strg
  <2>2. v \in Strg /\ Len(v) = k + 1 /\ \A i \in 1 .. k + 1 : v[i] = w[i]
    BY <1>0, <1>3 DEF Strg
  <2> HIDE DEF u, v
  <2>3. PICK f : /\ Parse("header_value", u) = f[Len(u)]
                 /\ f[0] = Start("header_value") /\ Along(f, Len(u), u)
    BY <2>1, ParseRuns
  <2>4. PICK g : /\ Parse("header_value", v) = g[Len(v)]
                 /\ g[0] = Start("header_value") /\ Along(g, Len(v), v)
    BY <2>2, ParseRuns
  <2>5. k \in Nat /\ f[0] = g[0] /\ Same(k, u, v)
    BY <1>0, <1>3, <2>1, <2>2, <2>3, <2>4 DEF Same
  <2>6. Along(f, k, u) /\ Along(g, k, v)
    BY <2>1, <2>2, <2>3, <2>4, <2>5 DEF Along
  <2>7. \A i \in 0 .. k : f[i] = g[i]
    BY <2>5, <2>6, RunsAgree
  <2>8. f[k] = g[k] /\ g[k + 1] = Feed(g[k], v[k + 1]) /\ v[k + 1] = w[k + 1]
    <3>1. k \in 0 .. k /\ k + 1 \in 1 .. k + 1 /\ (k + 1) - 1 = k
      BY <2>5
    <3> QED
      BY <2>2, <2>4, <2>7, <3>1 DEF Along
  <2>9. f[Len(u)] = f[k] /\ g[Len(v)] = g[k + 1]
    BY <2>1, <2>2
  <2> QED
    BY <2>3, <2>4, <2>8, <2>9 DEF At, u, v
<1> QED
  BY <1>1, <1>2, <1>3 DEF At

ParserStates == {"header_value", "expecting_newline_2", "header_line_start",
                 "expecting_newline_3"}
Results == {"indeterminate", "good", "bad"}

\* It is where it was when it read the last character of the headers.
Places == [state : ParserStates, result : Results]
Placed(p) == p \in Places /\ (p.result = "good" => p.state = "expecting_newline_3")

LEMMA FeedPlaces == ASSUME NEW p, NEW c, Placed(p) PROVE Placed(Feed(p, c))
<1>1. Consume(p.state, c) \in ParserStates \cup {"good", "bad"}
  BY DEF Consume, Plain, ParserStates
<1>2. Consume(p.state, c) = "good" => p.state = "expecting_newline_3"
  BY DEF Consume, Plain
<1> QED
  BY <1>1, <1>2 DEF Feed, After, Placed, Places, ParserStates, Results

LEMMA AtPlaces == ASSUME NEW w \in Strg, NEW k \in 0 .. Len(w) PROVE Placed(At(w, k))
<1> DEFINE T == {i \in Nat : i <= Len(w) => Placed(At(w, i))}
<1>0. Len(w) \in Nat
  BY DEF Strg
<1>1. 0 \in T
  BY AtSteps DEF Start, Placed, Places, ParserStates, Results
<1>2. ASSUME NEW i \in Nat, i \in T PROVE i + 1 \in T
  <2> SUFFICES ASSUME i + 1 <= Len(w) PROVE Placed(At(w, i + 1))
    OBVIOUS
  <2>1. At(w, i + 1) = Feed(At(w, i), w[i + 1])
    BY <1>0, AtSteps
  <2>2. Placed(At(w, i))
    BY <1>0, <1>2
  <2> QED
    BY <2>1, <2>2, FeedPlaces
<1> HIDE DEF T
<1>3. Nat \subseteq T
  BY <1>1, <1>2, StepInduction
<1> QED
  BY <1>0, <1>3 DEF T

\* Once the result is settled, the rest of a read changes nothing.
LEMMA AtSettled ==
  ASSUME NEW w \in Strg, NEW j \in 0 .. Len(w), NEW k \in j .. Len(w),
         At(w, j).result # "indeterminate"
  PROVE  At(w, k) = At(w, j)
<1> DEFINE T == {i \in Nat : j + i <= Len(w) => At(w, j + i) = At(w, j)}
<1>0. Len(w) \in Nat
  BY DEF Strg
<1>1. 0 \in T
  BY <1>0
<1>2. ASSUME NEW i \in Nat, i \in T PROVE i + 1 \in T
  <2> SUFFICES ASSUME j + (i + 1) <= Len(w) PROVE At(w, j + (i + 1)) = At(w, j)
    OBVIOUS
  <2>1. At(w, j + i) = At(w, j)
    BY <1>0, <1>2
  <2>2. At(w, j + (i + 1)) = Feed(At(w, j + i), w[j + (i + 1)])
    <3>1. j + i \in 0 .. Len(w) - 1 /\ (j + i) + 1 = j + (i + 1)
      BY <1>0
    <3> QED
      BY <3>1, AtSteps
  <2> QED
    BY <2>1, <2>2 DEF Feed
<1> HIDE DEF T
<1>3. Nat \subseteq T
  BY <1>1, <1>2, StepInduction
<1>4. k - j \in T /\ j + (k - j) = k
  BY <1>0, <1>3
<1> QED
  BY <1>0, <1>4 DEF T

\* A part of w, read from where the parser is, leads to where all of w does.
LEMMA Piece ==
  ASSUME NEW w \in Strg, NEW k \in 0 .. Len(w), NEW n \in Nat, k + n <= Len(w),
         At(w, k).result = "indeterminate"
  PROVE  Parse(At(w, k).state, SubSeq(w, k + 1, k + n)) = At(w, k + n)
<1> DEFINE u == SubSeq(w, k + 1, k + n)
           g == [i \in 0 .. n |-> At(w, k + i)]
<1>0. Len(w) \in Nat
  BY DEF Strg
<1>1. u \in Strg /\ Len(u) = n /\ \A i \in 1 .. n : u[i] = w[k + i]
  BY <1>0 DEF Strg
<1>2. g[0] = At(w, k) /\ g[n] = At(w, k + n)
  BY <1>0
<1>3. At(w, k) = Start(At(w, k).state)
  BY AtPlaces DEF Start, Placed, Places
<1>4. Along(g, n, u)
  <2> SUFFICES ASSUME NEW i \in 1 .. n PROVE g[i] = Feed(g[i - 1], u[i])
    BY DEF Along
  <2>1. k + i - 1 \in 0 .. Len(w) - 1 /\ (k + i - 1) + 1 = k + i /\ k + (i - 1) = k + i - 1
    BY <1>0
  <2>2. At(w, k + i) = Feed(At(w, k + i - 1), w[k + i])
    BY <2>1, AtSteps
  <2>3. g[i] = At(w, k + i) /\ g[i - 1] = At(w, k + i - 1)
    BY <2>1
  <2> QED
    BY <1>1, <2>2, <2>3
<1> HIDE DEF g, u
<1>5. PICK f : Parse(At(w, k).state, u) = f[Len(u)] /\ f[0] = Start(At(w, k).state)
               /\ Along(f, Len(u), u)
  BY <1>1, ParseRuns
<1>6. f[0] = g[0] /\ Along(f, n, u) /\ Same(n, u, u)
  BY <1>1, <1>2, <1>3, <1>5 DEF Along, Same
<1>7. \A i \in 0 .. n : f[i] = g[i]
  BY <1>4, <1>6, RunsAgree
<1>8. f[Len(u)] = g[n]
  BY <1>1, <1>7
<1> QED
  BY <1>2, <1>5, <1>8 DEF u

\* The character that was read before a state.
LEMMA Back ==
  ASSUME NEW p, NEW c, Placed(p), Feed(p, c).result # "bad", p.result = "indeterminate"
  PROVE  /\ Feed(p, c).result = "good" => p.state = "expecting_newline_3" /\ c = "LF"
         /\ Feed(p, c).result # "good" =>
              /\ Feed(p, c).state = "expecting_newline_3" =>
                   p.state = "header_line_start" /\ c = "CR"
              /\ Feed(p, c).state = "header_line_start" =>
                   p.state = "expecting_newline_2" /\ c = "LF"
              /\ Feed(p, c).state = "expecting_newline_2" =>
                   p.state = "header_value" /\ c = "CR"
BY DEF Placed, Places, ParserStates, Results, Feed, After, Consume, Plain

\* An empty line settles the result.
LEMMA BlankSettles ==
  ASSUME NEW p, Placed(p), p.result = "indeterminate"
  PROVE  Feed(Feed(Feed(Feed(p, "CR"), "LF"), "CR"), "LF").result # "indeterminate"
<1> DEFINE q == Feed(p, "CR")
           r == Feed(q, "LF")
<1>1. \/ q.result # "indeterminate"
      \/ q.state \in {"expecting_newline_2", "expecting_newline_3"}
  BY DEF Placed, Places, ParserStates, Results, Feed, After, Consume, Plain
<1>2. Placed(q)
  BY FeedPlaces
<1> HIDE DEF q
<1>3. r.result # "indeterminate" \/ r.state = "header_line_start"
  BY <1>1, <1>2 DEF Placed, Places, ParserStates, Results, Feed, After, Consume, Plain
<1>4. Placed(r)
  BY <1>2, FeedPlaces
<1> HIDE DEF r
<1> DEFINE t == Feed(r, "CR")
<1>5. t.result # "indeterminate" \/ t.state = "expecting_newline_3"
  BY <1>3, <1>4 DEF Placed, Places, ParserStates, Results, Feed, After, Consume, Plain
<1>6. Placed(t)
  BY <1>4, FeedPlaces
<1> HIDE DEF t
<1>7. Feed(t, "LF").result # "indeterminate"
  BY <1>5, <1>6 DEF Placed, Places, ParserStates, Results, Feed, After, Consume, Plain
<1> QED
  BY <1>7 DEF t, r, q

LEMMA MinIs ==
  ASSUME NEW S, S \subseteq Nat, NEW m \in S, \A x \in S : m <= x
  PROVE  Min(S) = m
<1>1. Min(S) \in S /\ \A x \in S : Min(S) <= x
  BY DEF Min
<1>2. Min(S) \in Nat /\ m \in Nat /\ m <= Min(S) /\ Min(S) <= m
  BY <1>1
<1> QED
  BY <1>2

LEMMA BlankChars ==
  ASSUME NEW w \in Strg, NEW b \in 1 .. Len(w) - 3
  PROVE  b \in BlankAt(w) <=> w[b] = "CR" /\ w[b + 1] = "LF" /\ w[b + 2] = "CR" /\ w[b + 3] = "LF"
<1> DEFINE e == SubSeq(w, b, b + 3)
<1>0. Len(w) \in Nat
  BY DEF Strg
<1>1. e \in Strg /\ Len(e) = 4 /\ \A i \in 1 .. 4 : e[i] = w[b + i - 1]
  BY <1>0 DEF Strg
<1> HIDE DEF e
<1>2. b + 1 - 1 = b /\ b + 2 - 1 = b + 1 /\ b + 3 - 1 = b + 2 /\ b + 4 - 1 = b + 3
  BY <1>0
<1>3. e[1] = w[b] /\ e[2] = w[b + 1] /\ e[3] = w[b + 2] /\ e[4] = w[b + 3]
  BY <1>1, <1>2
<1>4. e = Blank <=> e[1] = "CR" /\ e[2] = "LF" /\ e[3] = "CR" /\ e[4] = "LF"
  BY <1>1 DEF Strg, Blank
<1> QED
  BY <1>0, <1>3, <1>4 DEF BlankAt, e

\* The result is settled by the last character of the headers, and is good.
LEMMA HeadEnds ==
  ASSUME NEW w \in Strg, HasHead(w)
  PROVE  /\ BlankAt(w) # {}
         /\ HeadLength(w) \in 4 .. Len(w)
         /\ \A k \in 0 .. HeadLength(w) - 1 : At(w, k).result = "indeterminate"
         /\ \A k \in HeadLength(w) .. Len(w) :
              At(w, k).result = "good" /\ At(w, k).state = "expecting_newline_3"
<1>0. Len(w) \in Nat
  BY DEF Strg
<1> DEFINE T == {k \in 0 .. Len(w) : At(w, k).result # "indeterminate"}
<1>1. Len(w) \in T /\ At(w, Len(w)).result = "good"
  BY <1>0, AtSteps DEF HasHead
<1>2. PICK m \in T : \A k \in T : m <= k
  <2>1. T \subseteq Nat /\ T # {}
    BY <1>0, <1>1
  <2> HIDE DEF T
  <2> QED
    BY <2>1, LeastNumber
<1>3. \A k \in 0 .. m - 1 : At(w, k).result = "indeterminate"
  BY <1>0, <1>2
<1>4. \A k \in m .. Len(w) : At(w, k) = At(w, m)
  BY <1>2, AtSettled
<1>5. m \in 1 .. Len(w) /\ At(w, m).result = "good" /\ At(w, m).state = "expecting_newline_3"
  <2>1. At(w, 0).result = "indeterminate"
    BY AtSteps DEF Start
  <2>2. At(w, m) = At(w, Len(w))
    BY <1>0, <1>2, <1>4
  <2>3. Placed(At(w, Len(w)))
    BY <1>0, AtPlaces
  <2> QED
    BY <1>0, <1>1, <1>2, <2>1, <2>2, <2>3 DEF Placed
<1>6. \A k \in 1 .. m : /\ At(w, k) = Feed(At(w, k - 1), w[k])
                       /\ Placed(At(w, k - 1)) /\ At(w, k - 1).result = "indeterminate"
  <2> TAKE k \in 1 .. m
  <2>1. k - 1 \in 0 .. Len(w) - 1 /\ k - 1 \in 0 .. Len(w) /\ k - 1 \in 0 .. m - 1
        /\ (k - 1) + 1 = k
    BY <1>0, <1>5
  <2> QED
    BY <1>3, <2>1, AtSteps, AtPlaces
<1> HIDE DEF T
<1>7. At(w, m - 1).state = "expecting_newline_3" /\ w[m] = "LF"
  BY <1>5, <1>6, Back
<1>8. m - 1 \in 1 .. m /\ At(w, m - 2).state = "header_line_start" /\ w[m - 1] = "CR"
  <2>1. m - 1 # 0
    BY <1>7, AtSteps DEF Start
  <2>2. m - 1 \in 1 .. m /\ (m - 1) - 1 = m - 2 /\ At(w, m - 1).result = "indeterminate"
    BY <1>3, <1>5, <2>1
  <2> QED
    BY <1>6, <1>7, <2>2, Back
<1>9. m - 2 \in 1 .. m /\ At(w, m - 3).state = "expecting_newline_2" /\ w[m - 2] = "LF"
  <2>1. m - 2 # 0
    BY <1>8, AtSteps DEF Start
  <2>2. m - 2 \in 1 .. m /\ (m - 2) - 1 = m - 3 /\ At(w, m - 2).result = "indeterminate"
    BY <1>3, <1>5, <1>8, <2>1
  <2> QED
    BY <1>6, <1>8, <2>2, Back
<1>10. m - 3 \in 1 .. m /\ w[m - 3] = "CR"
  <2>1. m - 3 # 0
    BY <1>9, AtSteps DEF Start
  <2>2. m - 3 \in 1 .. m /\ (m - 3) - 1 = m - 4 /\ At(w, m - 3).result = "indeterminate"
    BY <1>3, <1>5, <1>9, <2>1
  <2> QED
    BY <1>6, <1>9, <2>2, Back
<1>11. \A b \in 1 .. Len(w) - 3 :
         b \in BlankAt(w) <=> w[b] = "CR" /\ w[b + 1] = "LF" /\ w[b + 2] = "CR" /\ w[b + 3] = "LF"
  BY BlankChars
<1>12. m - 3 \in BlankAt(w)
  <2>1. m - 3 \in 1 .. Len(w) - 3 /\ (m - 3) + 1 = m - 2 /\ (m - 3) + 2 = m - 1 /\ (m - 3) + 3 = m
    BY <1>0, <1>5, <1>10
  <2> QED
    BY <1>7, <1>8, <1>9, <1>10, <1>11, <2>1
<1>13. ASSUME NEW b \in BlankAt(w) PROVE m - 3 <= b
  <2> SUFFICES ASSUME b + 3 < m PROVE FALSE
    BY <1>0, <1>5 DEF BlankAt
  <2>1. b \in 1 .. Len(w) - 3
    BY DEF BlankAt
  <2>2. w[b] = "CR" /\ w[b + 1] = "LF" /\ w[b + 2] = "CR" /\ w[b + 3] = "LF"
    BY <1>11, <2>1
  <2>3. /\ b \in 1 .. m /\ b + 1 \in 1 .. m /\ b + 2 \in 1 .. m /\ b + 3 \in 1 .. m
        /\ (b + 1) - 1 = b /\ (b + 2) - 1 = b + 1 /\ (b + 3) - 1 = b + 2 /\ b + 3 \in 0 .. m - 1
    BY <1>0, <1>5, <2>1
  <2>4. /\ At(w, b) = Feed(At(w, b - 1), "CR")
        /\ At(w, b + 1) = Feed(At(w, b), "LF")
        /\ At(w, b + 2) = Feed(At(w, b + 1), "CR")
        /\ At(w, b + 3) = Feed(At(w, b + 2), "LF")
    BY <1>6, <2>2, <2>3
  <2>5. Placed(At(w, b - 1)) /\ At(w, b - 1).result = "indeterminate"
    BY <1>6, <2>3
  <2>6. At(w, b + 3).result # "indeterminate"
    BY <2>4, <2>5, BlankSettles
  <2> QED
    BY <1>3, <2>3, <2>6
<1>14. HeadLength(w) = m
  <2>1. BlankAt(w) \subseteq Nat
    BY DEF BlankAt
  <2>2. Min(BlankAt(w)) = m - 3
    BY <1>12, <1>13, <2>1, MinIs
  <2> QED
    BY <1>5, <2>2 DEF HeadLength
<1>15. m \in 4 .. Len(w)
  BY <1>0, <1>5, <1>10
<1> QED
  BY <1>3, <1>4, <1>5, <1>12, <1>14, <1>15

\* A part that comes after the headers is good if it begins with a newline.
LEMMA AfterHead ==
  ASSUME NEW u \in Strg, Len(u) >= 1
  PROVE  /\ Parse("expecting_newline_3", u).state = "expecting_newline_3"
         /\ Parse("expecting_newline_3", u).result = IF u[1] = "LF" THEN "good" ELSE "bad"
<1>0. Len(u) \in Nat
  BY DEF Strg
<1>1. PICK f : Parse("expecting_newline_3", u) = f[Len(u)]
               /\ f[0] = Start("expecting_newline_3") /\ Along(f, Len(u), u)
  BY ParseRuns
<1>2. /\ f[1].state = "expecting_newline_3"
      /\ f[1].result = IF u[1] = "LF" THEN "good" ELSE "bad"
  <2>1. f[1] = Feed(f[0], u[1])
    BY <1>0, <1>1 DEF Along
  <2>2. f[0].result = "indeterminate" /\ f[0].state = "expecting_newline_3"
        /\ f[0] = [state |-> "expecting_newline_3", result |-> "indeterminate"]
    BY <1>1 DEF Start
  <2>3. Consume(f[0].state, u[1]) = IF u[1] = "LF" THEN "good" ELSE "bad"
    BY <2>2 DEF Consume, Plain
  <2>4. f[1] = [f[0] EXCEPT !.result = IF u[1] = "LF" THEN "good" ELSE "bad"]
    BY <2>1, <2>2, <2>3 DEF Feed, After
  <2> QED
    BY <2>2, <2>4
<1> DEFINE T == {i \in Nat : i + 1 <= Len(u) => f[i + 1] = f[1]}
<1>3. 0 \in T
  OBVIOUS
<1>4. ASSUME NEW i \in Nat, i \in T PROVE i + 1 \in T
  <2> SUFFICES ASSUME (i + 1) + 1 <= Len(u) PROVE f[(i + 1) + 1] = f[1]
    OBVIOUS
  <2>1. f[i + 1] = f[1]
    BY <1>0, <1>4
  <2>2. (i + 1) + 1 \in 1 .. Len(u) /\ ((i + 1) + 1) - 1 = i + 1
    BY <1>0
  <2>3. f[(i + 1) + 1] = Feed(f[i + 1], u[(i + 1) + 1])
    BY <1>1, <2>2 DEF Along
  <2> QED
    BY <1>2, <2>1, <2>3 DEF Feed
<1> HIDE DEF T
<1>5. Nat \subseteq T
  BY <1>3, <1>4, StepInduction
<1>6. Len(u) - 1 \in T /\ (Len(u) - 1) + 1 = Len(u)
  BY <1>0, <1>5
<1>7. f[Len(u)] = f[1]
  BY <1>6 DEF T
<1> QED
  BY <1>1, <1>2, <1>7

----------------------------------------------------------------------------
(* Which reads the handler runs for.                                       *)

\* UpTo, of any reads.
To(r, i) == IF i = 0 THEN 0 ELSE r[i]

\* Every read brings something, and no more than there is.
Rising == \A i \in 1 .. Len(reads) : To(reads, i - 1) < To(reads, i) /\ To(reads, i) <= Len(text)

\* The parts of a text the handler runs for, by where they begin and how far they
\* bring it.
Runs(from, to) ==
  IF HeadLength(text) <= from THEN text[from + 1] = "LF"
  ELSE HeadLength(text) <= to \/ (keyed /\ TargetRead(to))

\* The parser is where all that came would have left it, had it come in one read.
HInv ==
  /\ Typed /\ Rising
  /\ runs \subseteq 1 .. Len(reads)
  /\ HasHead(text) =>
       /\ state = At(text, Got).state
       /\ \A i \in 1 .. Len(reads) : i \in runs <=> Runs(To(reads, i - 1), To(reads, i))

LEMMA ToAppend ==
  ASSUME reads \in Seq(Nat), NEW m \in Nat, reads' = Append(reads, m)
  PROVE  /\ Len(reads') = Len(reads) + 1 /\ Got' = m
         /\ \A i \in 0 .. Len(reads) : To(reads', i) = To(reads, i)
         /\ To(reads', Len(reads)) = Got
         /\ To(reads', Len(reads')) = m
<1>1. /\ Len(reads) \in Nat /\ Len(reads') = Len(reads) + 1
      /\ \A i \in 1 .. Len(reads) : reads'[i] = reads[i]
      /\ reads'[Len(reads) + 1] = m
  OBVIOUS
<1>2. \A i \in 0 .. Len(reads) : To(reads', i) = To(reads, i)
  BY <1>1 DEF To
<1>3. To(reads', Len(reads')) = m
  BY <1>1 DEF To
<1>4. Got = To(reads, Len(reads)) /\ Got' = To(reads', Len(reads'))
  BY DEF Got, UpTo, To
<1> QED
  BY <1>1, <1>2, <1>3, <1>4

LEMMA GotInText == ASSUME Typed, Rising PROVE Got \in 0 .. Len(text)
<1>1. Len(reads) \in Nat /\ Len(text) \in Nat /\ Got \in Nat /\ Got = To(reads, Len(reads))
  BY GotIsNat DEF Typed, Strg, Got, UpTo, To
<1>2. CASE Len(reads) = 0
  BY <1>1, <1>2 DEF To
<1>3. CASE Len(reads) # 0
  BY <1>1, <1>3 DEF Rising
<1> QED
  BY <1>1, <1>2, <1>3

LEMMA HandleReadHInv == ASSUME HInv, HandleRead PROVE HInv'
<1>0. /\ Typed' /\ reads \in Seq(Nat) /\ Len(reads) \in Nat /\ text \in Strg
      /\ Len(text) \in Nat /\ Got \in 0 .. Len(text)
  BY HandleReadTyped, GotInText DEF HInv, Typed, Strg
<1>1. PICK n \in 1 .. MaxLength :
        /\ Got + n <= Len(text)
        /\ reads' = Append(reads, Got + n)
        /\ state' = Parse(state, SubSeq(text, Got + 1, Got + n)).state
        /\ runs' = IF RunsFor(Parse(state, SubSeq(text, Got + 1, Got + n)).result, Got + n)
                   THEN runs \cup {Len(reads')} ELSE runs
  BY DEF HandleRead
<1>2. text' = text /\ keyed' = keyed /\ n \in Nat /\ n >= 1 /\ Got + n \in 0 .. Len(text)
  BY <1>0, <1>1, ExchangeAssumption DEF HandleRead, given
<1>3. /\ Len(reads') = Len(reads) + 1 /\ Got' = Got + n
      /\ \A i \in 0 .. Len(reads) : To(reads', i) = To(reads, i)
      /\ To(reads', Len(reads)) = Got
      /\ To(reads', Len(reads')) = Got + n
  BY <1>0, <1>1, <1>2, ToAppend
<1>4. \A i \in 1 .. Len(reads') : \/ i \in 1 .. Len(reads) /\ i - 1 \in 0 .. Len(reads) /\ i \in 0 .. Len(reads)
                                  \/ i = Len(reads') /\ i - 1 = Len(reads)
  BY <1>0, <1>3
<1>5. Rising'
  <2> SUFFICES ASSUME NEW i \in 1 .. Len(reads')
               PROVE  To(reads', i - 1) < To(reads', i) /\ To(reads', i) <= Len(text)
    BY <1>2 DEF Rising
  <2>1. CASE i \in 1 .. Len(reads) /\ i - 1 \in 0 .. Len(reads) /\ i \in 0 .. Len(reads)
    <3>1. To(reads', i - 1) = To(reads, i - 1) /\ To(reads', i) = To(reads, i)
      BY <1>3, <2>1
    <3> QED
      BY <2>1, <3>1 DEF HInv, Rising
  <2>2. CASE i = Len(reads') /\ i - 1 = Len(reads)
    <3>1. To(reads', i - 1) = Got /\ To(reads', i) = Got + n
      BY <1>3, <2>2
    <3> QED
      BY <1>0, <1>2, <3>1
  <2> QED
    BY <1>4, <2>1, <2>2
<1>6. ASSUME HasHead(text)
      PROVE  /\ state' = At(text, Got + n).state
             /\ RunsFor(Parse(state, SubSeq(text, Got + 1, Got + n)).result, Got + n)
                  <=> Runs(Got, Got + n)
  <2> DEFINE u == SubSeq(text, Got + 1, Got + n)
             h == HeadLength(text)
  <2>0. /\ h \in 4 .. Len(text) /\ \A k \in 0 .. h - 1 : At(text, k).result = "indeterminate"
        /\ \A k \in h .. Len(text) :
             At(text, k).result = "good" /\ At(text, k).state = "expecting_newline_3"
    BY <1>0, <1>6, HeadEnds
  <2>1. state = At(text, Got).state
    BY <1>6 DEF HInv
  <2> HIDE DEF h
  <2>2. CASE Got < h
    <3>1. At(text, Got).result = "indeterminate"
      BY <1>0, <2>0, <2>2
    <3>2. Parse(state, u) = At(text, Got + n)
      <4>1. Got + n <= Len(text)
        BY <1>1
      <4>2. Parse(At(text, Got).state, u) = At(text, Got + n)
        BY <1>0, <1>2, <3>1, <4>1, Piece
      <4> QED
        BY <2>1, <4>2
    <3>3. At(text, Got + n).result = IF h <= Got + n THEN "good" ELSE "indeterminate"
      BY <1>0, <1>2, <2>0
    <3>4. Runs(Got, Got + n) <=> h <= Got + n \/ (keyed /\ TargetRead(Got + n))
      BY <1>0, <2>0, <2>2 DEF Runs, h
    <3>5. RunsFor(Parse(state, u).result, Got + n) <=> Runs(Got, Got + n)
      BY <3>2, <3>3, <3>4 DEF RunsFor
    <3> QED
      BY <1>1, <3>2, <3>5
  <2>3. CASE h <= Got
    <3>1. state = "expecting_newline_3" /\ At(text, Got + n).state = "expecting_newline_3"
      BY <1>0, <1>2, <2>0, <2>1, <2>3
    <3>2. u \in Strg /\ Len(u) >= 1 /\ u[1] = text[Got + 1]
      <4>1. Got + 1 \in 1 .. Len(text) + 1 /\ Got + n \in 0 .. Len(text) /\ Got \in Nat
        BY <1>0, <1>2
      <4>2. u \in Strg /\ Len(u) = n /\ u[1] = text[Got + 1]
        BY <1>0, <1>2, <4>1 DEF Strg
      <4> QED
        BY <1>2, <4>2
    <3> HIDE DEF u
    <3>3. /\ Parse(state, u).state = "expecting_newline_3"
          /\ Parse(state, u).result = IF text[Got + 1] = "LF" THEN "good" ELSE "bad"
      BY <3>1, <3>2, AfterHead
    <3>4. Runs(Got, Got + n) <=> text[Got + 1] = "LF"
      BY <1>0, <2>0, <2>3 DEF Runs, h
    <3>5. RunsFor(Parse(state, u).result, Got + n) <=> Runs(Got, Got + n)
      BY <3>3, <3>4 DEF RunsFor
    <3> QED
      BY <1>1, <3>1, <3>3, <3>5 DEF u
  <2> QED
    BY <1>0, <2>0, <2>2, <2>3
<1>7. /\ runs' \subseteq 1 .. Len(reads') /\ Len(reads') \notin runs
      /\ \A i \in 1 .. Len(reads) : i \in runs' <=> i \in runs
  <2>1. runs \subseteq 1 .. Len(reads)
    BY DEF HInv
  <2>2. runs' = runs \cup {Len(reads')} \/ runs' = runs
    BY <1>1
  <2>3. /\ Len(reads') \in 1 .. Len(reads') /\ Len(reads') \notin 1 .. Len(reads)
        /\ \A i \in 1 .. Len(reads) : i \in 1 .. Len(reads') /\ i # Len(reads')
    BY <1>0, <1>3
  <2> QED
    BY <2>1, <2>2, <2>3
<1>8. ASSUME HasHead(text), NEW i \in 1 .. Len(reads')
      PROVE  i \in runs' <=> Runs(To(reads', i - 1), To(reads', i))
  <2>1. CASE i \in 1 .. Len(reads) /\ i - 1 \in 0 .. Len(reads) /\ i \in 0 .. Len(reads)
    <3>1. To(reads', i - 1) = To(reads, i - 1) /\ To(reads', i) = To(reads, i)
      BY <1>3, <2>1
    <3> QED
      BY <1>7, <1>8, <2>1, <3>1 DEF HInv
  <2>2. CASE i = Len(reads') /\ i - 1 = Len(reads)
    <3>1. To(reads', i - 1) = Got /\ To(reads', i) = Got + n
      BY <1>3, <2>2
    <3>2. i \in runs' <=> Runs(Got, Got + n)
      BY <1>1, <1>6, <1>7, <1>8, <2>2
    <3> QED
      BY <3>1, <3>2
  <2> QED
    BY <1>4, <2>1, <2>2
<1>9. \A i, j : Runs(i, j)' <=> Runs(i, j)
  BY <1>2 DEF Runs, TargetRead
<1> QED
  BY <1>0, <1>2, <1>3, <1>5, <1>6, <1>7, <1>8, <1>9 DEF HInv

LEMMA HInvHolds == Spec => []HInv
<1>1. Init => HInv
  <2> SUFFICES ASSUME Init PROVE HInv
    OBVIOUS
  <2>1. Typed /\ reads = <<>> /\ runs = {} /\ state = "header_value" /\ text \in Strg
    BY InitTyped DEF Init, Typed
  <2>2. Len(reads) = 0 /\ Got = 0 /\ 1 .. Len(reads) = {}
    BY <2>1 DEF Got, UpTo
  <2>3. At(text, 0).state = "header_value"
    BY <2>1, AtSteps DEF Start
  <2> QED
    BY <2>1, <2>2, <2>3 DEF HInv, Rising
<1>2. HInv /\ [Next]_vars => HInv'
  <2> SUFFICES ASSUME HInv, [Next]_vars PROVE HInv'
    OBVIOUS
  <2>1. CASE HandleRead
    BY <2>1, HandleReadHInv
  <2>2. CASE HandleWrite \/ Error \/ UNCHANGED vars
    <3>1. UNCHANGED <<keyed, text, state, reads, runs>> /\ Typed'
      BY <2>2, OthersTyped DEF HInv
    <3> QED
      BY <3>1 DEF HInv, Rising, UpTo, To, Got, Runs, TargetRead
  <2> QED
    BY <2>1, <2>2 DEF Next
<1> QED
  BY <1>1, <1>2, PTL DEF Spec

\* However a request is cut up, its handler runs in the read that brings the end of
\* its headers, for the parts after it that begin with a newline and, if the table
\* has its target, for those before it in which the target is complete.
THEOREM HandlersRunAsKnown == Spec => []HandlerRuns
<1>1. HInv => HandlerRuns
  <2> SUFFICES ASSUME HInv, HasHead(text)
               PROVE  runs = {i \in DOMAIN reads : Runs(To(reads, i - 1), To(reads, i))}
    BY DEF HandlerRuns, Runs, UpTo, To
  <2>1. DOMAIN reads = 1 .. Len(reads)
    BY DEF HInv, Typed
  <2> QED
    BY <2>1 DEF HInv
<1> QED
  BY <1>1, HInvHolds, PTL

----------------------------------------------------------------------------
(* What the handler gets of a read.                                        *)

\* What a read does, and with which answer to which string.
LEMMA ReadDoes ==
  ASSUME HInv, HandleRead
  PROVE  \E n \in 1 .. MaxLength : \E answer, string :
           /\ Got + n <= Len(text) /\ reads' = Append(reads, Got + n) /\ Got' = Got + n
           /\ state' = Parse(state, SubSeq(text, Got + 1, Got + n)).state
           /\ runs' = IF RunsFor(Parse(state, SubSeq(text, Got + 1, Got + n)).result, Got + n)
                      THEN runs \cup {Len(reads')} ELSE runs
           /\ answer \in MayAnswer(Parse(state, SubSeq(text, Got + 1, Got + n)).result, Got + n)
           /\ string \in Strings(data_') /\ Handle(answer, string)
           /\ data_' \in Strg /\ Len(data_') = MaxLength
           /\ \A i \in 1 .. MaxLength : data_'[i] = IF i <= n THEN text[Got + i] ELSE data_[i]
<1>0. /\ Typed' /\ reads \in Seq(Nat) /\ text \in Strg /\ Len(text) \in Nat /\ Got \in Nat
      /\ data_ \in Strg /\ Len(data_) = MaxLength /\ MaxLength \in Nat
  BY HandleReadTyped, GotIsNat, ExchangeAssumption DEF HInv, Typed, Strg
<1>1. PICK n \in 1 .. MaxLength : \E answer, string :
        /\ Got + n <= Len(text) /\ reads' = Append(reads, Got + n)
        /\ state' = Parse(state, SubSeq(text, Got + 1, Got + n)).state
        /\ runs' = IF RunsFor(Parse(state, SubSeq(text, Got + 1, Got + n)).result, Got + n)
                   THEN runs \cup {Len(reads')} ELSE runs
        /\ answer \in MayAnswer(Parse(state, SubSeq(text, Got + 1, Got + n)).result, Got + n)
        /\ string \in Strings(data_') /\ Handle(answer, string)
        /\ data_' = ReadInto(SubSeq(text, Got + 1, Got + n))
  BY DEF HandleRead
<1>2. Got' = Got + n
  BY <1>0, <1>1, ToAppend
<1>3. \A i \in 1 .. MaxLength : data_'[i] = IF i <= n THEN text[Got + i] ELSE data_[i]
  <2> DEFINE u == SubSeq(text, Got + 1, Got + n)
             e == SubSeq(data_, n + 1, MaxLength)
  <2>1. u \in Strg /\ Len(u) = n /\ \A i \in 1 .. n : u[i] = text[Got + i]
    BY <1>0, <1>1 DEF Strg
  <2>2. e \in Strg /\ Len(e) = MaxLength - n /\ \A i \in 1 .. MaxLength - n : e[i] = data_[n + i]
    BY <1>0 DEF Strg
  <2>3. data_' = u \o e
    BY <1>1, <2>1 DEF ReadInto
  <2> HIDE DEF u, e
  <2>4. \A i \in 1 .. MaxLength : data_'[i] = IF i <= n THEN u[i] ELSE e[i - n]
    BY <1>0, <2>1, <2>2, <2>3 DEF Strg
  <2> TAKE i \in 1 .. MaxLength
  <2>5. CASE i <= n
    BY <1>0, <2>1, <2>4, <2>5
  <2>6. CASE i > n
    <3>1. i - n \in 1 .. MaxLength - n /\ n + (i - n) = i
      BY <1>0, <2>6
    <3> QED
      BY <1>0, <2>2, <2>4, <2>6, <3>1
  <2> QED
    BY <1>0, <2>5, <2>6
<1>4. data_' \in Strg /\ Len(data_') = MaxLength
  BY <1>0 DEF Typed
<1> QED
  BY <1>1, <1>2, <1>3, <1>4

----------------------------------------------------------------------------
(* What the echo handler answers.                                          *)

\* Reached, by any reads.
ReachedBy(r, k) == {j \in 1 .. Len(r) : To(r, j - 1) + k <= To(r, j)}

\* The buffer holds in each place what the last read that reached it brought, or
\* what was in memory.
Holds(d, r, k) ==
  \/ ReachedBy(r, k) = {} /\ d[k] \in {Zero, Junk}
  \/ \E j \in ReachedBy(r, k) : /\ \A i \in ReachedBy(r, k) : i <= j
                               /\ d[k] = text[To(r, j - 1) + k]

EInv ==
  /\ text \in Texts
  /\ \A i \in 1 .. Len(reads) : To(reads, i) <= To(reads, i - 1) + MaxLength
  /\ \A k \in 1 .. MaxLength : Holds(data_, reads, k)
  /\ EchoIsReceived

LEMMA HandleReadEInv == ASSUME HInv, EInv, HandleRead PROVE EInv'
<1>0. /\ reads \in Seq(Nat) /\ Len(reads) \in Nat /\ text \in Strg /\ Len(text) \in Nat
      /\ Got \in 0 .. Len(text) /\ MaxLength \in Nat /\ text' = text /\ asked' = asked
      /\ text \in Seq(STRING \ {Zero})
  BY GotInText, ExchangeAssumption DEF HInv, Typed, Strg, EInv, HandleRead, given
<1>1. PICK n \in 1 .. MaxLength : \E answer, string :
        /\ Got + n <= Len(text) /\ reads' = Append(reads, Got + n)
        /\ runs' = IF RunsFor(Parse(state, SubSeq(text, Got + 1, Got + n)).result, Got + n)
                   THEN runs \cup {Len(reads')} ELSE runs
        /\ answer \in MayAnswer(Parse(state, SubSeq(text, Got + 1, Got + n)).result, Got + n)
        /\ string \in Strings(data_') /\ Handle(answer, string)
        /\ data_' \in Strg /\ Len(data_') = MaxLength
        /\ \A i \in 1 .. MaxLength : data_'[i] = IF i <= n THEN text[Got + i] ELSE data_[i]
  BY ReadDoes
<1>2. PICK answer, string :
        /\ answer \in MayAnswer(Parse(state, SubSeq(text, Got + 1, Got + n)).result, Got + n)
        /\ string \in Strings(data_') /\ Handle(answer, string)
  BY <1>1
<1>3. /\ Len(reads') = Len(reads) + 1 /\ Got' = Got + n
      /\ \A i \in 0 .. Len(reads) : To(reads', i) = To(reads, i)
      /\ To(reads', Len(reads)) = Got
      /\ To(reads', Len(reads')) = Got + n
  BY <1>0, <1>1, ToAppend
<1>4. \A i \in 1 .. Len(reads') : \/ i \in 1 .. Len(reads) /\ i - 1 \in 0 .. Len(reads) /\ i \in 0 .. Len(reads)
                                  \/ i = Len(reads') /\ i - 1 = Len(reads)
  BY <1>0, <1>3
<1>5. \A i \in 1 .. Len(reads') : To(reads', i) <= To(reads', i - 1) + MaxLength
  <2> TAKE i \in 1 .. Len(reads')
  <2>1. CASE i \in 1 .. Len(reads) /\ i - 1 \in 0 .. Len(reads) /\ i \in 0 .. Len(reads)
    <3>1. To(reads', i - 1) = To(reads, i - 1) /\ To(reads', i) = To(reads, i)
      BY <1>3, <2>1
    <3> QED
      BY <2>1, <3>1 DEF EInv
  <2>2. CASE i = Len(reads') /\ i - 1 = Len(reads)
    <3>1. To(reads', i - 1) = Got /\ To(reads', i) = Got + n
      BY <1>3, <2>2
    <3> QED
      BY <1>0, <1>1, <3>1
  <2> QED
    BY <1>4, <2>1, <2>2
<1>6. ASSUME NEW k \in Nat
      PROVE  ReachedBy(reads', k) =
               IF k <= n THEN ReachedBy(reads, k) \cup {Len(reads')} ELSE ReachedBy(reads, k)
  <2>1. ASSUME NEW j \in 1 .. Len(reads)
        PROVE  j \in ReachedBy(reads', k) <=> j \in ReachedBy(reads, k)
    <3>1. To(reads', j - 1) = To(reads, j - 1) /\ To(reads', j) = To(reads, j)
      BY <1>0, <1>3
    <3> QED
      BY <1>0, <1>3, <3>1 DEF ReachedBy
  <2>2. Len(reads') \in ReachedBy(reads', k) <=> k <= n
    <3>1. To(reads', Len(reads') - 1) = Got /\ To(reads', Len(reads')) = Got + n
      BY <1>0, <1>3
    <3> QED
      BY <1>0, <1>1, <1>3, <3>1 DEF ReachedBy
  <2>3. /\ ReachedBy(reads', k) \subseteq 1 .. Len(reads')
        /\ ReachedBy(reads, k) \subseteq 1 .. Len(reads)
        /\ Len(reads') \notin 1 .. Len(reads)
        /\ \A j \in 1 .. Len(reads') : j \in 1 .. Len(reads) \/ j = Len(reads')
    BY <1>0, <1>3, <1>4 DEF ReachedBy
  <2> QED
    BY <2>1, <2>2, <2>3
<1>7. ASSUME NEW k \in 1 .. MaxLength
      PROVE  Holds(data_', reads', k)
  <2>0. k \in Nat /\ n \in Nat
    BY <1>0, <1>1
  <2>1. CASE k <= n
    <3>1. Len(reads') \in ReachedBy(reads', k)
      BY <1>6, <2>0, <2>1
    <3>2. \A i \in ReachedBy(reads', k) : i <= Len(reads')
      BY <1>0, <1>3 DEF ReachedBy
    <3>3. data_'[k] = text[To(reads', Len(reads') - 1) + k]
      <4>1. To(reads', Len(reads') - 1) = Got
        BY <1>0, <1>3
      <4> QED
        BY <1>1, <2>1, <4>1
    <3> QED
      BY <3>1, <3>2, <3>3 DEF Holds
  <2>2. CASE ~(k <= n)
    <3>1. ReachedBy(reads', k) = ReachedBy(reads, k) /\ data_'[k] = data_[k]
      BY <1>1, <1>6, <2>0, <2>2
    <3>2. \A j \in ReachedBy(reads, k) : To(reads', j - 1) = To(reads, j - 1)
      BY <1>0, <1>3 DEF ReachedBy
    <3>3. Holds(data_, reads, k)
      BY DEF EInv
    <3> QED
      BY <3>1, <3>2, <3>3 DEF Holds
  <2> QED
    BY <2>1, <2>2
<1>8. \A k \in 1 .. MaxLength : Holds(data_, reads, k)'
  <2>1. \A k \in 1 .. MaxLength : Holds(data_, reads, k)' <=> Holds(data_', reads', k)
    BY <1>0 DEF Holds, ReachedBy, To
  <2> QED
    BY <1>7, <2>1
<1>9. ASSUME asked = "echo", Len(reads') \in runs'
      PROVE  /\ response_' = string /\ Len(string) >= n
             /\ \A k \in 1 .. Len(string) :
                  \/ ReachedBy(reads', k) = {} /\ string[k] = Junk
                  \/ \E j \in ReachedBy(reads', k) :
                       /\ \A i \in ReachedBy(reads', k) : i <= j
                       /\ string[k] = text[To(reads', j - 1) + k]
  <2>1. Len(reads') \notin runs
    BY <1>0, <1>3 DEF HInv
  <2>2. answer \in Answers("echo")
    <3>1. RunsFor(Parse(state, SubSeq(text, Got + 1, Got + n)).result, Got + n)
      BY <1>1, <1>9, <2>1
    <3>2. \A r, m : RunsFor(r, m) => MayAnswer(r, m) = Answers(asked)
      BY DEF MayAnswer, RunsFor
    <3> QED
      BY <1>2, <1>9, <3>1, <3>2
  <2>3. answer = "echoed"
    BY <2>2 DEF Answers
  <2>4. response_' = string
    BY <1>2, <2>3 DEF Handle
  <2>5. /\ string \in Strg
        /\ \A k \in 1 .. Len(string) :
             \/ k \in 1 .. MaxLength /\ string[k] = data_'[k] /\ data_'[k] # Zero
             \/ k > MaxLength /\ string[k] = Junk
        /\ \A m \in 0 .. MaxLength : (\A k \in 1 .. m : data_'[k] # Zero) => Len(string) >= m
    BY <1>1, <1>2, StringsHold
  <2>6. \A k \in 1 .. n : data_'[k] # Zero
    <3> TAKE k \in 1 .. n
    <3>1. Got + k \in 1 .. Len(text) /\ data_'[k] = text[Got + k]
      BY <1>0, <1>1
    <3>2. \A i \in 1 .. Len(text) : text[i] # Zero
      BY <1>0
    <3> QED
      BY <3>1, <3>2
  <2>7. Len(string) >= n /\ Len(string) \in Nat
    <3>1. n \in 0 .. MaxLength
      BY <1>0, <1>1
    <3> QED
      BY <2>5, <2>6, <3>1 DEF Strg
  <2>8. ASSUME NEW k \in 1 .. Len(string)
        PROVE  \/ ReachedBy(reads', k) = {} /\ string[k] = Junk
               \/ \E j \in ReachedBy(reads', k) :
                    /\ \A i \in ReachedBy(reads', k) : i <= j
                    /\ string[k] = text[To(reads', j - 1) + k]
    <3>1. CASE k \in 1 .. MaxLength /\ string[k] = data_'[k] /\ data_'[k] # Zero
      BY <1>7, <3>1 DEF Holds
    <3>2. CASE k > MaxLength /\ string[k] = Junk
      <4>1. ASSUME NEW j \in ReachedBy(reads', k) PROVE FALSE
        <5>1. j \in 1 .. Len(reads') /\ To(reads', j - 1) + k <= To(reads', j)
          BY DEF ReachedBy
        <5>2. To(reads', j) <= To(reads', j - 1) + MaxLength
          BY <1>5, <5>1
        <5>3. To(reads', j - 1) \in Nat /\ To(reads', j) \in Nat
          <6>1. reads' \in Seq(Nat)
            BY HandleReadTyped DEF HInv, Typed
          <6> QED
            BY <5>1, <6>1 DEF To
        <5> QED
          BY <1>0, <2>7, <3>2, <5>1, <5>2, <5>3
      <4> QED
        BY <3>2, <4>1
    <3> QED
      BY <2>5, <3>1, <3>2
  <2> QED
    BY <2>4, <2>7, <2>8
<1>10. EchoIsReceived'
  <2>1. response_' = string => DOMAIN response_' = 1 .. Len(string)
    <3>1. string \in Strg
      BY <1>1, <1>2, StringsHold
    <3> QED
      BY <3>1 DEF Strg
  <2>2. /\ DOMAIN reads' = 1 .. Len(reads')
        /\ \A i : (UpTo(i))' = To(reads', i)
        /\ \A k : Reached(k)' = ReachedBy(reads', k)
    <3>1. reads' \in Seq(Nat)
      BY HandleReadTyped DEF HInv, Typed
    <3> QED
      BY <3>1 DEF UpTo, To, Reached, ReachedBy
  <2>3. Got' - To(reads', Len(reads') - 1) = n
    BY <1>0, <1>1, <1>3
  <2> QED
    BY <1>0, <1>9, <2>1, <2>2, <2>3 DEF EchoIsReceived
<1> QED
  BY <1>0, <1>5, <1>8, <1>10 DEF EInv, To

\* The echo handler answers the last part whole; what follows it is what earlier
\* parts left there, or memory.
THEOREM EchoesWhatCame == Spec => []EchoIsReceived
<1>1. Init => EInv
  <2> SUFFICES ASSUME Init PROVE EInv
    OBVIOUS
  <2>1. reads = <<>> /\ Len(reads) = 0 /\ \A k : ReachedBy(reads, k) = {}
    BY DEF Init, ReachedBy
  <2>2. \A k \in 1 .. MaxLength : data_[k] \in {Zero, Junk}
    BY ExchangeAssumption DEF Init
  <2> QED
    BY <2>1, <2>2 DEF Init, EInv, Holds, EchoIsReceived
<1>2. HInv /\ EInv /\ [Next]_vars => EInv'
  <2> SUFFICES ASSUME HInv, EInv, [Next]_vars PROVE EInv'
    OBVIOUS
  <2>1. CASE HandleRead
    BY <2>1, HandleReadEInv
  <2>2. CASE HandleWrite \/ Error \/ UNCHANGED vars
    <3>1. UNCHANGED <<asked, text, data_, reads, runs, response_>>
      BY <2>2, OthersTyped DEF HInv
    <3>2. phase' = "write" => phase = "write"
      BY <2>2 DEF HandleWrite, Error, vars
    <3>3. EchoIsReceived'
      BY <3>1, <3>2 DEF EInv, EchoIsReceived, Reached, Got, UpTo
    <3> QED
      BY <3>1, <3>3 DEF EInv, Holds, ReachedBy, To
  <2> QED
    BY <2>1, <2>2 DEF Next
<1>3. EInv => EchoIsReceived
  BY DEF EInv
<1> QED
  BY <1>1, <1>2, <1>3, HInvHolds, PTL DEF Spec

----------------------------------------------------------------------------
(* What the API handler stores.                                            *)

\* Only a complete request is stored, and one whose target is long enough to be, or
\* to hold, a path of the API in the table.
LEMMA StoredIsKnown ==
  ASSUME Typed, NEW r, NEW n, NEW answer \in MayAnswer(r, n), answer \in {"created", "edited"}
  PROVE  r = "good" \/ (deep /\ text[n] # "M")
<1>1. ASSUME NEW q \in Asked, answer \in Answers(q), TRUE \in Keyed(q)
      PROVE  deep
  <2>1. q \in {"post", "put"}
    BY <1>1, ZenonT(60) DEF Asked, Answers, StaticAnswers, MarkdownAnswers
  <2>2. Keyed(q) = {FALSE, deep}
    BY <2>1 DEF Keyed, Api
  <2> QED
    BY <1>1, <2>2
<1>2. CASE RunsFor(r, n)
  <2>1. answer \in Answers(asked)
    BY <1>2 DEF MayAnswer
  <2>2. asked \in Asked /\ keyed \in Keyed(asked) /\ deep \in BOOLEAN
    BY DEF Typed
  <2>3. keyed => TRUE \in Keyed(asked)
    <3> SUFFICES ASSUME keyed PROVE TRUE \in Keyed(asked)
      OBVIOUS
    <3>1. Keyed(asked) \subseteq BOOLEAN
      BY <2>2 DEF Keyed
    <3>2. keyed \in BOOLEAN
      BY <2>2, <3>1
    <3>3. keyed = TRUE
      BY <3>2
    <3> QED
      BY <2>2, <3>3
  <2> QED
    BY <1>1, <1>2, <2>1, <2>2, <2>3 DEF RunsFor, TargetRead
<1>3. CASE ~RunsFor(r, n)
  <2>1. answer \in OtherAnswers /\ PartRead(n)
    BY <1>3 DEF MayAnswer
  <2>2. PICK q \in Asked : TRUE \in Keyed(q) /\ answer \in Answers(q)
    BY <2>1 DEF OtherAnswers
  <2>3. deep
    BY <1>1, <2>2
  <2> QED
    BY <2>1, <2>3 DEF PartRead
<1> QED
  BY <1>2, <1>3

\* What is in data_ after a text of one read, as a string: the text, and junk.
LEMMA TextThenJunk ==
  ASSUME NEW w \in Seq(STRING \ {Zero}), w \in Strg, NEW m \in Memories, Len(w) <= MaxLength,
         NEW d \in Strg, Len(d) = MaxLength,
         \A i \in 1 .. MaxLength : d[i] = IF i <= Len(w) THEN w[i] ELSE m[i],
         NEW z \in Strings(d)
  PROVE  /\ z \in Strg /\ Len(z) >= Len(w)
         /\ \A i \in 1 .. Len(w) : z[i] = w[i]
         /\ \A i \in Len(w) + 1 .. Len(z) : z[i] = Junk
<1>0. Len(w) \in Nat /\ MaxLength \in Nat
  BY ExchangeAssumption
<1>1. \A i \in 1 .. Len(w) : d[i] = w[i] /\ d[i] # Zero
  BY <1>0
<1>2. \A i \in Len(w) + 1 .. MaxLength : d[i] \in {Zero, Junk}
  BY <1>0, ExchangeAssumption
<1>3. /\ z \in Strg
      /\ \A k \in 1 .. Len(z) : \/ k \in 1 .. MaxLength /\ z[k] = d[k] /\ d[k] # Zero
                                \/ k > MaxLength /\ z[k] = Junk
      /\ (\A k \in 1 .. Len(w) : d[k] # Zero) => Len(z) >= Len(w)
  BY <1>0, StringsHold
<1>4. Len(z) \in Nat
  BY <1>3 DEF Strg
<1> QED
  BY <1>0, <1>1, <1>2, <1>3, <1>4

\* So its headers end where those of the text do.
LEMMA SameBlank ==
  ASSUME NEW w \in Strg, NEW z \in Strg, Len(z) >= Len(w),
         \A i \in 1 .. Len(w) : z[i] = w[i],
         \A i \in Len(w) + 1 .. Len(z) : z[i] = Junk
  PROVE  BlankAt(z) = BlankAt(w)
<1>0. Len(w) \in Nat /\ Len(z) \in Nat
  BY DEF Strg
<1>1. \A b \in 1 .. Len(w) - 3 : b \in BlankAt(z) <=> b \in BlankAt(w)
  <2> TAKE b \in 1 .. Len(w) - 3
  <2>1. b \in 1 .. Len(z) - 3 /\ z[b] = w[b] /\ z[b + 1] = w[b + 1]
        /\ z[b + 2] = w[b + 2] /\ z[b + 3] = w[b + 3]
    BY <1>0
  <2> QED
    BY <2>1, BlankChars
<1>2. ASSUME NEW b \in BlankAt(z) PROVE b \in 1 .. Len(w) - 3
  <2>1. b \in 1 .. Len(z) - 3
    BY DEF BlankAt
  <2>2. z[b + 3] = "LF"
    BY <2>1, BlankChars
  <2>3. z[b + 3] # Junk
    BY <2>2 DEF Junk
  <2>4. ~(b + 3 \in Len(w) + 1 .. Len(z))
    BY <2>3
  <2> QED
    BY <1>0, <2>1, <2>4
<1>3. BlankAt(w) \subseteq 1 .. Len(w) - 3
  BY DEF BlankAt
<1> QED
  BY <1>1, <1>2, <1>3

\* What is stored of a string that is the text and junk.
LEMMA StoredHasBody ==
  ASSUME NEW w \in Strg, HasHead(w), NEW z \in Strg, Len(z) >= Len(w),
         \A i \in 1 .. Len(w) : z[i] = w[i],
         \A i \in Len(w) + 1 .. Len(z) : z[i] = Junk
  PROVE  /\ IsPrefix(Body(w), Stored(z))
         /\ \A i \in DOMAIN Stored(z) : i > Len(Body(w)) => Stored(z)[i] = Junk
<1> DEFINE h == HeadLength(w)
<1>0. Len(w) \in Nat /\ Len(z) \in Nat /\ h \in 4 .. Len(w) /\ BlankAt(w) # {}
  BY HeadEnds DEF Strg
<1>1. Skipped(z) = h
  BY <1>0, SameBlank DEF Skipped, HeadLength
<1>2. Stored(z) = SubSeq(z, h + 1, Len(z)) /\ Body(w) = SubSeq(w, h + 1, Len(w))
  BY <1>1 DEF Stored, Body
<1> HIDE DEF h
<1>3. /\ Body(w) \in Strg /\ Len(Body(w)) = Len(w) - h
      /\ \A i \in 1 .. Len(w) - h : Body(w)[i] = w[h + i]
  BY <1>0, <1>2 DEF Strg
<1>4. /\ Stored(z) \in Strg /\ Len(Stored(z)) = Len(z) - h
      /\ \A i \in 1 .. Len(z) - h : Stored(z)[i] = z[h + i]
  BY <1>0, <1>2 DEF Strg
<1> DEFINE b == Body(w)
           t == Stored(z)
<1> HIDE DEF b, t
<1>5. \A i \in 1 .. Len(b) : b[i] = t[i]
  BY <1>0, <1>3, <1>4 DEF b, t
<1>6. b \in Strg /\ t \in Strg /\ Len(b) <= Len(t) /\ Len(b) \in Nat /\ Len(t) \in Nat
  BY <1>0, <1>3, <1>4 DEF b, t
<1>7. SubSeq(b, 1, Len(b)) = SubSeq(t, 1, Len(b))
  <2>1. /\ SubSeq(b, 1, Len(b)) \in Strg /\ Len(SubSeq(b, 1, Len(b))) = Len(b)
        /\ \A i \in 1 .. Len(b) : SubSeq(b, 1, Len(b))[i] = b[i]
    BY <1>6 DEF Strg
  <2>2. /\ SubSeq(t, 1, Len(b)) \in Strg /\ Len(SubSeq(t, 1, Len(b))) = Len(b)
        /\ \A i \in 1 .. Len(b) : SubSeq(t, 1, Len(b))[i] = t[i]
    BY <1>6 DEF Strg
  <2> QED
    BY <1>5, <1>6, <2>1, <2>2, SeqEqual DEF Strg
<1>8. IsPrefix(Body(w), Stored(z))
  BY <1>6, <1>7 DEF IsPrefix, b, t
<1>9. ASSUME NEW i \in DOMAIN Stored(z), i > Len(Body(w)) PROVE Stored(z)[i] = Junk
  <2>1. i \in 1 .. Len(z) - h
    BY <1>4 DEF Strg
  <2>2. h + i \in Len(w) + 1 .. Len(z)
    BY <1>0, <1>3, <1>9, <2>1
  <2> QED
    BY <1>4, <2>1, <2>2
<1> QED
  BY <1>8, <1>9

\* Before the first read nothing happened; after it, what it brought is not exceeded
\* by less.
BInv ==
  /\ text \in Texts
  /\ reads = <<>> => state = "header_value" /\ data_ \in Memories /\ stored = <<>>
  /\ reads # <<>> => reads[1] <= Got
  /\ BodyKept

LEMMA HandleReadBInv == ASSUME HInv, BInv, HandleRead PROVE BInv'
<1>0. /\ reads \in Seq(Nat) /\ text \in Strg /\ Len(text) \in Nat /\ Got \in Nat
      /\ MaxLength \in Nat /\ text' = text /\ text \in Seq(STRING \ {Zero})
  BY GotIsNat, ExchangeAssumption DEF HInv, Typed, Strg, BInv, HandleRead, given
<1>1. PICK n \in 1 .. MaxLength : \E answer, string :
           /\ Got + n <= Len(text) /\ reads' = Append(reads, Got + n) /\ Got' = Got + n
           /\ answer \in MayAnswer(Parse(state, SubSeq(text, Got + 1, Got + n)).result, Got + n)
           /\ string \in Strings(data_') /\ Handle(answer, string)
           /\ data_' \in Strg /\ Len(data_') = MaxLength
           /\ \A i \in 1 .. MaxLength : data_'[i] = IF i <= n THEN text[Got + i] ELSE data_[i]
  BY ReadDoes
<1>2. PICK answer, string :
           /\ answer \in MayAnswer(Parse(state, SubSeq(text, Got + 1, Got + n)).result, Got + n)
           /\ string \in Strings(data_') /\ Handle(answer, string)
  BY <1>1
<1>3. reads' # <<>> /\ reads'[1] <= Got'
  <2>1. CASE reads = <<>>
    <3>1. reads'[1] = Got + n
      BY <1>1, <2>1
    <3> QED
      BY <1>0, <1>1, <3>1
  <2>2. CASE reads # <<>>
    <3>1. reads'[1] = reads[1] /\ reads[1] \in Nat
      BY <1>0, <1>1, <2>2
    <3> QED
      BY <1>0, <1>1, <2>2, <3>1 DEF BInv
  <2> QED
    BY <1>0, <1>1, <2>1, <2>2
<1>4. BodyKept'
  <2> SUFFICES ASSUME stored' # <<>>, HasHead(text), reads'[1] = Len(text)
               PROVE  /\ IsPrefix(Body(text), stored'[1])
                      /\ \A i \in DOMAIN stored'[1] : i > Len(Body(text)) => stored'[1][i] = Junk
    BY <1>0 DEF BodyKept, HasHead, Body, HeadLength
  <2>1. reads = <<>>
    <3> SUFFICES ASSUME reads # <<>> PROVE FALSE
      OBVIOUS
    <3>1. reads'[1] = reads[1] /\ reads[1] \in Nat
      BY <1>0, <1>1
    <3> QED
      BY <1>0, <1>1, <3>1 DEF BInv
  <2>2. Got = 0 /\ n = Len(text)
    <3>1. Got = 0
      BY <2>1 DEF Got, UpTo
    <3>2. reads'[1] = Got + n
      BY <1>1, <2>1
    <3> QED
      BY <1>0, <3>1, <3>2
  <2>3. state = "header_value" /\ data_ \in Memories /\ stored = <<>>
    BY <2>1 DEF BInv
  <2>4. SubSeq(text, Got + 1, Got + n) = text
    BY <1>0, <2>2 DEF Strg
  <2>5. stored' = Append(stored, Stored(string))
    BY <1>2, <2>3 DEF Handle
  <2>6. HasHead(text)
    OBVIOUS
  <2>7. \A i \in 1 .. MaxLength : data_'[i] = IF i <= Len(text) THEN text[i] ELSE data_[i]
    BY <1>0, <1>1, <2>2
  <2>8. /\ string \in Strg /\ Len(string) >= Len(text)
        /\ \A i \in 1 .. Len(text) : string[i] = text[i]
        /\ \A i \in Len(text) + 1 .. Len(string) : string[i] = Junk
    <3>1. Len(text) <= MaxLength
      BY <1>0, <1>1, <2>2
    <3>2. text \in Seq(STRING \ {Zero}) /\ text \in Strg /\ data_ \in Memories
      BY <1>0, <2>3
    <3>3. data_' \in Strg /\ Len(data_') = MaxLength /\ string \in Strings(data_')
      BY <1>1, <1>2
    <3> QED
      BY <2>7, <3>1, <3>2, <3>3, TextThenJunk
  <2>9. stored'[1] = Stored(string)
    BY <2>3, <2>5
  <2> QED
    BY <1>0, <2>6, <2>8, <2>9, StoredHasBody
<1> QED
  BY <1>0, <1>3, <1>4 DEF BInv

\* A body that came in one read with its headers is stored whole, from its beginning.
THEOREM BodiesAreKept == Spec => []BodyKept
<1>1. Init => BInv
  BY DEF Init, BInv, BodyKept
<1>2. HInv /\ BInv /\ [Next]_vars => BInv'
  <2> SUFFICES ASSUME HInv, BInv, [Next]_vars PROVE BInv'
    OBVIOUS
  <2>1. CASE HandleRead
    BY <2>1, HandleReadBInv
  <2>2. CASE HandleWrite \/ Error \/ UNCHANGED vars
    <3>1. UNCHANGED <<text, data_, state, reads, stored>>
      BY <2>2, OthersTyped DEF HInv
    <3> QED
      BY <3>1 DEF BInv, BodyKept, HasHead, Body, HeadLength, Got, UpTo
  <2> QED
    BY <2>1, <2>2 DEF Next
<1>3. BInv => BodyKept
  BY DEF BInv
<1> QED
  BY <1>1, <1>2, <1>3, HInvHolds, PTL DEF Spec

----------------------------------------------------------------------------
(* substr.                                                                 *)

\* The states that follow the end of a line.
LineEnded == {"header_line_start", "expecting_newline_3"}

LEMMA LinesRead ==
  ASSUME NEW s \in ParserStates, NEW u \in Strg
  PROVE  /\ Parse(s, u).state \in ParserStates
         /\ Parse(s, u).state \in LineEnded =>
              s \in LineEnded \/ \E j \in 1 .. Len(u) : u[j] = "LF"
         /\ Parse(s, u).result = "good" =>
              \E j \in 1 .. Len(u) :
                u[j] = "LF" /\ (s \in LineEnded \/ \E k \in 1 .. j - 1 : u[k] = "LF")
<1>0. Len(u) \in Nat
  BY DEF Strg
<1>1. PICK f : Parse(s, u) = f[Len(u)] /\ f[0] = Start(s) /\ Along(f, Len(u), u)
  BY ParseRuns
<1> DEFINE L(n) == s \in LineEnded \/ \E j \in 1 .. n : u[j] = "LF"
           P(n) == /\ Placed(f[n])
                   /\ f[n].state \in LineEnded => L(n)
                   /\ f[n].result = "good" => \E j \in 1 .. n : u[j] = "LF" /\ L(j - 1)
           T == {n \in Nat : n <= Len(u) => P(n)}
<1>2. 0 \in T
  BY <1>1 DEF Start, Placed, Places, Results
<1>3. ASSUME NEW n \in Nat, n \in T PROVE n + 1 \in T
  <2> SUFFICES ASSUME n + 1 <= Len(u) PROVE P(n + 1)
    OBVIOUS
  <2>1. n + 1 \in 1 .. Len(u) /\ (n + 1) - 1 = n /\ n <= Len(u)
    BY <1>0
  <2>2. f[n + 1] = Feed(f[n], u[n + 1])
    BY <1>1, <2>1 DEF Along
  <2>3. P(n)
    BY <1>3, <2>1
  <2>4. Placed(f[n + 1])
    BY <2>2, <2>3, FeedPlaces
  <2>5. L(n) => L(n + 1)
    OBVIOUS
  <2>6. CASE f[n].result # "indeterminate"
    <3>1. f[n + 1] = f[n]
      BY <2>2, <2>6 DEF Feed
    <3>2. f[n].result = "good" => \E j \in 1 .. n + 1 : u[j] = "LF" /\ L(j - 1)
      <4> HIDE DEF L
      <4> QED
        BY <2>3
    <3> HIDE DEF L
    <3> QED
      BY <2>3, <2>4, <2>5, <3>1, <3>2
  <2>7. CASE f[n].result = "indeterminate"
    <3> DEFINE p == f[n]
               q == f[n + 1]
               c == u[n + 1]
    <3>1. q = Feed(p, c) /\ p.result = "indeterminate" /\ Placed(p)
      BY <2>2, <2>3, <2>7
    <3> HIDE DEF p, q, c
    <3>2. /\ q.state \in LineEnded => p.state \in LineEnded \/ c = "LF"
          /\ q.result = "good" => p.state \in LineEnded /\ c = "LF"
      <4>1. PICK m : m = Consume(p.state, c)
        OBVIOUS
      <4>2. /\ m \in LineEnded => p.state \in LineEnded \/ c = "LF"
            /\ m = "good" => p.state \in LineEnded /\ c = "LF"
        BY <4>1 DEF Consume, LineEnded
      <4>3. q = After(p, m) /\ p \in Places
        BY <3>1, <4>1 DEF Placed, Feed
      <4>4. /\ m \in {"good", "bad"} => q.state = p.state /\ q.result = m
            /\ m \notin {"good", "bad"} => q.state = m /\ q.result = p.result
        BY <4>3 DEF After, Places
      <4> QED
        BY <3>1, <4>2, <4>4
    <3>3. p.state \in LineEnded => L(n)
      BY <2>3 DEF p
    <3>4. c = "LF" => L(n + 1)
      BY DEF c
    <3>5. q.state \in LineEnded => L(n + 1)
      BY <2>5, <3>2, <3>3, <3>4
    <3>6. q.result = "good" => \E j \in 1 .. n + 1 : u[j] = "LF" /\ L(j - 1)
      <4>1. q.result = "good" => u[n + 1] = "LF" /\ L((n + 1) - 1)
        BY <2>1, <3>2, <3>3 DEF c
      <4>2. n + 1 \in 1 .. n + 1
        OBVIOUS
      <4> HIDE DEF L
      <4> QED
        BY <4>1, <4>2
    <3> QED
      BY <2>4, <3>5, <3>6 DEF q
  <2> QED
    BY <2>6, <2>7
<1> HIDE DEF T
<1>4. Nat \subseteq T
  BY <1>2, <1>3, StepInduction
<1>5. P(Len(u))
  BY <1>0, <1>4 DEF T
<1> QED
  BY <1>1, <1>5 DEF Placed, Places

\* A string that is too short has a zero among its first characters.
LEMMA ShortString ==
  ASSUME NEW d \in Strg, Len(d) = MaxLength, MaxLength >= 3, NEW z \in Strings(d), TooShort(z)
  PROVE  \E i \in 1 .. 3 : d[i] = Zero
<1>0. z \in Strg /\ Len(z) \in Nat /\ MaxLength \in Nat
  BY StringsAreText, ExchangeAssumption DEF Strg
<1>1. Len(z) < 3
  <2>1. CASE BlankAt(z) = {}
    BY <2>1 DEF TooShort, Skipped
  <2>2. CASE BlankAt(z) # {}
    <3>1. BlankAt(z) \subseteq Nat
      BY DEF BlankAt
    <3>3. PICK m \in BlankAt(z) : \A x \in BlankAt(z) : m <= x
      BY <2>2, <3>1, LeastNumber
    <3>4. Min(BlankAt(z)) = m
      BY <3>1, <3>3, MinIs
    <3>5. m \in 1 .. Len(z) - 3
      BY DEF BlankAt
    <3> QED
      BY <1>0, <2>2, <3>4, <3>5 DEF TooShort, Skipped
  <2> QED
    BY <2>1, <2>2
<1>2. CASE \E n \in DOMAIN d : z = SubSeq(d, 1, n - 1) /\ d[n] = Zero
  <2>1. PICK n \in DOMAIN d : z = SubSeq(d, 1, n - 1) /\ d[n] = Zero
    BY <1>2
  <2>2. n \in 1 .. MaxLength
    BY DEF Strg
  <2>3. Len(z) = n - 1
    BY <1>0, <2>1, <2>2 DEF Strg
  <2> QED
    BY <1>0, <1>1, <2>1, <2>2, <2>3
<1>3. CASE z \in {d, Append(d, Junk)}
  <2>1. Len(z) >= MaxLength
    BY <1>0, <1>3 DEF Strg
  <2> QED
    BY <1>0, <1>1, <2>1
<1> QED
  BY <1>2, <1>3 DEF Strings

\* Until three characters came in one read there were at most two for each, so the
\* headers have not ended.
SInv ==
  /\ text \in Texts /\ state \in ParserStates /\ Len(reads) <= MaxReads /\ phase # "dead"
  /\ state \in LineEnded => \E i \in 1 .. Got : text[i] = "LF"
  /\ (\A i \in 1 .. 3 : data_[i] # Zero) \/ Got <= 2 * Len(reads)

LEMMA HandleReadSInv == ASSUME LongHeads, HInv, SInv, HandleRead PROVE SInv'
<1>0. /\ reads \in Seq(Nat) /\ text \in Strg /\ Len(text) \in Nat /\ Got \in Nat
      /\ MaxLength \in Nat /\ MaxReads \in Nat /\ Len(reads) \in Nat
      /\ text' = text /\ text \in Seq(STRING \ {Zero}) /\ MaxLength >= 3
      /\ Len(reads) < MaxReads
  BY GotIsNat, ExchangeAssumption DEF HInv, Typed, Strg, SInv, HandleRead, given, LongHeads
<1>1. PICK n \in 1 .. MaxLength : \E answer, string :
           /\ Got + n <= Len(text) /\ reads' = Append(reads, Got + n) /\ Got' = Got + n
           /\ state' = Parse(state, SubSeq(text, Got + 1, Got + n)).state
           /\ answer \in MayAnswer(Parse(state, SubSeq(text, Got + 1, Got + n)).result, Got + n)
           /\ string \in Strings(data_') /\ Handle(answer, string)
           /\ data_' \in Strg /\ Len(data_') = MaxLength
           /\ \A i \in 1 .. MaxLength : data_'[i] = IF i <= n THEN text[Got + i] ELSE data_[i]
  BY ReadDoes
<1>2. Len(reads') = Len(reads) + 1 /\ n \in Nat
  BY <1>0, <1>1
<1> DEFINE u == SubSeq(text, Got + 1, Got + n)
<1>3. u \in Strg /\ Len(u) = n /\ \A i \in 1 .. n : u[i] = text[Got + i]
  BY <1>0, <1>1 DEF Strg
<1>4. /\ state' = Parse(state, u).state
      /\ \E answer, string : /\ answer \in MayAnswer(Parse(state, u).result, Got + n)
                             /\ string \in Strings(data_') /\ Handle(answer, string)
  BY <1>1
<1> HIDE DEF u
<1>5. /\ state' \in ParserStates
      /\ state' \in LineEnded => state \in LineEnded \/ \E j \in 1 .. n : u[j] = "LF"
      /\ Parse(state, u).result = "good" =>
           \E j \in 1 .. n : u[j] = "LF" /\ (state \in LineEnded \/ \E k \in 1 .. j - 1 : u[k] = "LF")
  BY <1>3, <1>4, LinesRead DEF SInv
<1>6. state' \in LineEnded => \E i \in 1 .. Got + n : text[i] = "LF"
  <2>1. \A j \in 1 .. n : u[j] = text[Got + j] /\ Got + j \in 1 .. Got + n
    BY <1>0, <1>3
  <2>2. \A i \in 1 .. Got : i \in 1 .. Got + n
    BY <1>0, <1>2
  <2> QED
    BY <1>5, <2>1, <2>2 DEF SInv
<1>7. (\A i \in 1 .. 3 : data_'[i] # Zero) \/ Got + n <= 2 * (Len(reads) + 1)
  <2>0. \A i \in 1 .. n : text[Got + i] # Zero
    <3>1. \A i \in 1 .. n : Got + i \in 1 .. Len(text)
      BY <1>0, <1>1
    <3>2. \A i \in 1 .. Len(text) : text[i] # Zero
      BY <1>0
    <3> QED
      BY <3>1, <3>2
  <2>1. CASE n >= 3 \/ \A i \in 1 .. 3 : data_[i] # Zero
    <3> SUFFICES ASSUME NEW i \in 1 .. 3 PROVE data_'[i] # Zero
      OBVIOUS
    <3>1. i \in 1 .. MaxLength
      BY <1>0
    <3>2. CASE i <= n
      BY <1>1, <1>2, <2>0, <3>1, <3>2
    <3>3. CASE ~(i <= n)
      BY <1>1, <1>2, <2>1, <3>1, <3>3
    <3> QED
      BY <3>2, <3>3
  <2>2. CASE n <= 2 /\ Got <= 2 * Len(reads)
    BY <1>0, <1>2, <2>2
  <2> QED
    BY <1>0, <1>2, <2>1, <2>2 DEF SInv
<1>8. phase' # "dead"
  <2> SUFFICES ASSUME phase' = "dead" PROVE FALSE
    OBVIOUS
  <2>1. PICK answer, string : /\ answer \in MayAnswer(Parse(state, u).result, Got + n)
                              /\ string \in Strings(data_') /\ Handle(answer, string)
    BY <1>4
  <2>2. answer \in {"created", "edited"} /\ TooShort(string)
    BY <2>1 DEF Handle
  <2>3. Parse(state, u).result = "good" \/ (deep /\ text[Got + n] # "M")
    BY <2>1, <2>2, StoredIsKnown DEF HInv
  <2>4. \E i \in 1 .. 3 : data_'[i] = Zero
    BY <1>0, <1>1, <2>1, <2>2, ShortString
  <2>5. Got + n <= 2 * MaxReads
    BY <1>0, <1>2, <1>7, <2>4
  <2> SUFFICES ASSUME Parse(state, u).result = "good" PROVE FALSE
    <3>1. ASSUME deep, text[Got + n] # "M" PROVE FALSE
      <4>1. Got + n \in DOMAIN text /\ text \in Texts
        BY <1>0, <1>1, <1>2 DEF SInv
      <4>2. Got + n > 2 * MaxReads
        BY <3>1, <4>1 DEF LongHeads
      <4> QED
        BY <1>0, <1>2, <2>5, <4>2
    <3> QED
      BY <2>3, <3>1
  <2>6. PICK j \in 1 .. n : u[j] = "LF" /\ (state \in LineEnded \/ \E k \in 1 .. j - 1 : u[k] = "LF")
    BY <1>5
  <2>7. Got + j \in 1 .. Len(text) /\ Got + j <= 2 * MaxReads /\ text[Got + j] = "LF"
    BY <1>0, <1>1, <1>3, <2>5, <2>6
  <2>8. \E i \in 1 .. Len(text) : i < Got + j /\ text[i] = "LF"
    <3>1. CASE state \in LineEnded
      <4>1. PICK i \in 1 .. Got : text[i] = "LF"
        BY <3>1 DEF SInv
      <4>2. i \in 1 .. Len(text) /\ i < Got + j
        BY <1>0, <2>7
      <4> QED
        BY <4>1, <4>2
    <3>2. CASE \E k \in 1 .. j - 1 : u[k] = "LF"
      <4>1. PICK k \in 1 .. j - 1 : u[k] = "LF"
        BY <3>2
      <4>2. text[Got + k] = "LF" /\ Got + k \in 1 .. Len(text) /\ Got + k < Got + j
        BY <1>0, <1>3, <2>7, <4>1
      <4> QED
        BY <4>2
    <3> QED
      BY <2>6, <3>1, <3>2
  <2>9. PICK i \in 1 .. Len(text) : i < Got + j /\ text[i] = "LF"
    BY <2>8
  <2>10. Got + j > 2 * MaxReads
    BY <2>7, <2>9 DEF LongHeads, SInv
  <2> QED
    BY <1>0, <2>7, <2>10
<1>9. text' \in Texts /\ Len(reads') <= MaxReads /\ Got' = Got + n
  BY <1>0, <1>1, <1>2 DEF SInv
<1> QED
  BY <1>0, <1>2, <1>5, <1>6, <1>7, <1>8, <1>9 DEF SInv

\* substr(npos + 4) does not throw when headers are longer than two characters a read.
THEOREM SubstrStaysInRange == Spec => []SubstrInRange
<1>1. Init => SInv
  <2> SUFFICES ASSUME Init PROVE SInv
    OBVIOUS
  <2>1. reads = <<>> /\ Len(reads) = 0 /\ Got = 0 /\ state = "header_value"
    BY DEF Init, Got, UpTo
  <2>2. state \in ParserStates /\ state \notin LineEnded
    BY <2>1 DEF ParserStates, LineEnded
  <2>3. MaxReads \in Nat
    BY ExchangeAssumption
  <2> QED
    BY <2>1, <2>2, <2>3 DEF Init, SInv
<1>2. HInv /\ (LongHeads => SInv) /\ [Next]_vars => (LongHeads => SInv)'
  <2> SUFFICES ASSUME LongHeads', HInv, LongHeads => SInv, [Next]_vars PROVE SInv'
    OBVIOUS
  <2>0. LongHeads /\ SInv
    <3>1. deep' = deep
      BY DEF Next, HandleRead, HandleWrite, Error, given, vars
    <3> QED
      BY <3>1 DEF LongHeads
  <2>1. CASE HandleRead
    BY <2>0, <2>1, HandleReadSInv
  <2>2. CASE HandleWrite \/ Error \/ UNCHANGED vars
    <3>1. UNCHANGED <<text, data_, state, reads>> /\ phase' # "dead"
      BY <2>0, <2>2, OthersTyped DEF HInv, HandleWrite, Error, vars, SInv
    <3> QED
      BY <2>0, <3>1 DEF SInv, Got, UpTo
  <2> QED
    BY <2>1, <2>2 DEF Next
<1>3. (LongHeads => SInv) => SubstrInRange
  BY DEF SInv, SubstrInRange
<1> QED
  BY <1>1, <1>2, <1>3, HInvHolds, PTL DEF Spec
=============================================================================
