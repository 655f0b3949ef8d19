--------------------------- MODULE SequenceLemmas ---------------------------
(* Induction over numbers, stated for sets, and facts about FlattenSeq, for *)
(* the proofs of the other modules.                                         *)
EXTENDS Integers, SequencesExt, SequenceTheorems, WellFoundedInduction, TLAPS

LEMMA LeastNumber ==
  ASSUME NEW T, T \subseteq Nat, T # {}
  PROVE  \E x \in T : \A y \in T : x <= y
<1> DEFINE R == {p \in Nat \X Nat : p[1] < p[2]}
<1>1. IsWellFoundedOn(R, Nat)
  BY NatLessThanWellFounded DEF OpToRel
<1> HIDE DEF R
<1>2. PICK x \in T : \A y \in T : ~(<<y, x>> \in R)
  BY <1>1, WFMin
<1>3. \A y \in T : ~(y < x)
  BY <1>2 DEF R
<1> QED
  BY <1>2, <1>3

LEMMA Induction ==
  ASSUME NEW T, \A n \in Nat : (\A m \in 0 .. n - 1 : m \in T) => n \in T
  PROVE  Nat \subseteq T
<1> SUFFICES ASSUME Nat \ T # {} PROVE FALSE
  OBVIOUS
<1>1. PICK x \in Nat \ T : \A y \in Nat \ T : x <= y
  BY LeastNumber
<1>2. \A m \in 0 .. x - 1 : m \in T
  BY <1>1
<1> QED
  BY <1>1, <1>2

LEMMA StepInduction ==
  ASSUME NEW T, 0 \in T, \A n \in Nat : n \in T => n + 1 \in T
  PROVE  Nat \subseteq T
<1> SUFFICES ASSUME Nat \ T # {} PROVE FALSE
  OBVIOUS
<1>1. PICK x \in Nat \ T : \A y \in Nat \ T : x <= y
  BY LeastNumber
<1>2. x - 1 \in Nat /\ ~(x <= x - 1) /\ (x - 1) + 1 = x
  BY <1>1
<1> QED
  BY <1>1, <1>2

----------------------------------------------------------------------------
(* FlattenSeq, one part at a time.                                         *)

Joins(f, s, n) == f = [i \in 1 .. n |-> IF i = 1 THEN s[i] ELSE f[i - 1] \o s[i]]

LEMMA JoinsTo ==
  ASSUME NEW f, NEW s, NEW n \in Nat, Joins(f, s, n), NEW i \in 1 .. n
  PROVE  f[i] = IF i = 1 THEN s[i] ELSE f[i - 1] \o s[i]
BY DEF Joins

LEMMA JoinsMade ==
  ASSUME NEW f, NEW s, NEW n \in Nat, f = [i \in 1 .. n |-> f[i]],
         \A i \in 1 .. n : f[i] = IF i = 1 THEN s[i] ELSE f[i - 1] \o s[i]
  PROVE  Joins(f, s, n)
BY Zenon DEF Joins

LEMMA JoinsOne ==
  ASSUME NEW f, NEW g, NEW s, NEW n \in Nat, NEW m \in n .. n + 1, Joins(f, s, n), Joins(g, s, m)
  PROVE  \A i \in 1 .. n : f[i] = g[i]
<1> DEFINE T == {i \in 1 .. n : f[i] # g[i]}
<1> SUFFICES ASSUME T # {} PROVE FALSE
  OBVIOUS
<1>1. PICK x \in T : \A y \in T : x <= y
  <2>1. T \subseteq Nat
    OBVIOUS
  <2> HIDE DEF T
  <2> QED
    BY <2>1, LeastNumber
<1>2. x \in 1 .. n /\ x \in 1 .. m /\ f[x] # g[x]
  OBVIOUS
<1>3. /\ f[x] = IF x = 1 THEN s[x] ELSE f[x - 1] \o s[x]
      /\ g[x] = IF x = 1 THEN s[x] ELSE g[x - 1] \o s[x]
  BY <1>2, JoinsTo
<1>4. x # 1 /\ f[x - 1] # g[x - 1]
  BY <1>2, <1>3
<1>5. x - 1 \in T
  BY <1>2, <1>4
<1> QED
  BY <1>1, <1>2, <1>5

LEMMA JoinsExist ==
  ASSUME NEW s, NEW N \in Nat
  PROVE  \E f : Joins(f, s, N)
<1> DEFINE T == {n \in Nat : ~\E f : Joins(f, s, n)}
<1> SUFFICES ASSUME T # {} PROVE FALSE
  OBVIOUS
<1>1. PICK x \in T : \A y \in T : x <= y
  <2>1. T \subseteq Nat
    OBVIOUS
  <2> HIDE DEF T
  <2> QED
    BY <2>1, LeastNumber
<1>2. x \in Nat /\ ~\E f : Joins(f, s, x)
  OBVIOUS
<1>3. x # 0
  <2>1. ASSUME x = 0 PROVE Joins([i \in 1 .. 0 |-> s], s, x)
    BY <2>1 DEF Joins
  <2> QED
    BY <1>2, <2>1
<1>4. x - 1 \in Nat /\ x - 1 \notin T
  BY <1>1, <1>2, <1>3
<1>5. PICK f : Joins(f, s, x - 1)
  BY <1>4
<1> DEFINE g == [i \in 1 .. x |-> IF i = 1 THEN s[i] ELSE f[i - 1] \o s[i]]
<1>6. \A i \in 1 .. x - 1 : g[i] = f[i]
  <2> TAKE i \in 1 .. x - 1
  <2>1. i \in 1 .. x /\ f[i] = IF i = 1 THEN s[i] ELSE f[i - 1] \o s[i]
    BY <1>2, <1>4, <1>5, JoinsTo
  <2> QED
    BY <2>1
<1>7. \A i \in 1 .. x : g[i] = IF i = 1 THEN s[i] ELSE g[i - 1] \o s[i]
  <2> TAKE i \in 1 .. x
  <2>1. i # 1 => i - 1 \in 1 .. x - 1
    BY <1>2
  <2>2. i # 1 => g[i - 1] = f[i - 1]
    BY <1>6, <2>1
  <2>3. g[i] = IF i = 1 THEN s[i] ELSE f[i - 1] \o s[i]
    OBVIOUS
  <2> HIDE DEF g
  <2> QED
    BY <2>2, <2>3
<1>8. g = [i \in 1 .. x |-> g[i]]
  OBVIOUS
<1> HIDE DEF g
<1>9. Joins(g, s, x)
  BY <1>2, <1>7, <1>8, JoinsMade
<1> QED
  BY <1>2, <1>9

LEMMA FlatIs ==
  ASSUME NEW S, NEW s \in Seq(Seq(S)), s # <<>>, NEW f, Joins(f, s, Len(s))
  PROVE  FlattenSeq(s) = f[Len(s)]
<1> DEFINE g == CHOOSE g : g = [i \in 1 .. Len(s) |-> IF i = 1 THEN s[i] ELSE g[i - 1] \o s[i]]
<1>1. Joins(g, s, Len(s))
  BY DEF Joins
<1>2. Len(s) \in Nat /\ Len(s) # 0 /\ Len(s) \in 1 .. Len(s) /\ Len(s) \in Len(s) .. Len(s) + 1
  OBVIOUS
<1>3. FlattenSeq(s) = g[Len(s)]
  BY <1>2, Zenon DEF FlattenSeq
<1> HIDE DEF g
<1>4. g[Len(s)] = f[Len(s)]
  BY <1>1, <1>2, JoinsOne
<1> QED
  BY <1>3, <1>4

LEMMA OneAppended ==
  ASSUME NEW Q, NEW s \in Seq(Q), NEW x \in Q
  PROVE  /\ Append(s, x) \in Seq(Q) /\ Append(s, x) # <<>> /\ Len(Append(s, x)) = Len(s) + 1
         /\ Append(s, x)[Len(s) + 1] = x /\ \A i \in 1 .. Len(s) : Append(s, x)[i] = s[i]
OBVIOUS

LEMMA FlatEmpty == FlattenSeq(<<>>) = <<>>
BY DEF FlattenSeq

LEMMA FlatAppend ==
  ASSUME NEW S, NEW s \in Seq(Seq(S)), NEW x \in Seq(S)
  PROVE  FlattenSeq(Append(s, x)) = FlattenSeq(s) \o x
<1> DEFINE t == Append(s, x)
           n == Len(s)
<1>1. /\ t \in Seq(Seq(S)) /\ t # <<>> /\ Len(t) = n + 1 /\ n \in Nat /\ t[n + 1] = x
      /\ \A i \in 1 .. n : t[i] = s[i]
  <2>1. n \in Nat
    OBVIOUS
  <2>2. /\ t \in Seq(Seq(S)) /\ t # <<>> /\ Len(t) = n + 1 /\ t[n + 1] = x
        /\ \A i \in 1 .. n : t[i] = s[i]
    <3>1. PICK Q : Q = Seq(S)
      OBVIOUS
    <3>2. s \in Seq(Q) /\ x \in Q
      BY <3>1
    <3>3. /\ Append(s, x) \in Seq(Q) /\ Append(s, x) # <<>> /\ Len(Append(s, x)) = Len(s) + 1
          /\ Append(s, x)[Len(s) + 1] = x /\ \A i \in 1 .. Len(s) : Append(s, x)[i] = s[i]
      BY <3>2, OneAppended
    <3> QED
      BY <3>1, <3>3
  <2> QED
    BY <2>1, <2>2
<1> HIDE DEF t
<1>2. PICK f : Joins(f, t, n + 1)
  <2>1. n + 1 \in Nat
    BY <1>1
  <2> QED
    BY <2>1, JoinsExist, Zenon
<1>3. FlattenSeq(t) = f[n + 1]
  BY <1>1, <1>2, FlatIs
<1>4. n + 1 \in 1 .. n + 1 /\ f[n + 1] = IF n + 1 = 1 THEN t[n + 1] ELSE f[(n + 1) - 1] \o t[n + 1]
  BY <1>1, <1>2, JoinsTo
<1>5. CASE n = 0
  <2>1. s = <<>> /\ FlattenSeq(s) = <<>>
    BY <1>5, FlatEmpty
  <2>2. FlattenSeq(t) = x
    BY <1>1, <1>3, <1>4, <1>5
  <2> QED
    BY <2>1, <2>2, ConcatEmptySeq DEF t
<1>6. CASE n # 0
  <2>1. PICK g : Joins(g, s, n)
    BY <1>1, JoinsExist
  <2>2. Joins(g, t, n)
    <3>1. g = [i \in 1 .. n |-> g[i]]
      BY <2>1 DEF Joins
    <3>2. \A i \in 1 .. n : g[i] = IF i = 1 THEN t[i] ELSE g[i - 1] \o t[i]
      BY <1>1, <2>1, JoinsTo
    <3> QED
      BY <1>1, <3>1, <3>2, JoinsMade
  <2>3. s # <<>> /\ FlattenSeq(s) = g[n]
    <3>1. s # <<>>
      BY <1>6
    <3> QED
      BY <2>1, <3>1, FlatIs
  <2>4. n \in 1 .. n /\ n + 1 \in n .. n + 1
    BY <1>1, <1>6
  <2>5. g[n] = f[n]
    BY <1>1, <1>2, <2>2, <2>4, JoinsOne
  <2>6. f[n + 1] = f[n] \o x
    <3>1. n + 1 # 1 /\ (n + 1) - 1 = n
      BY <1>1, <1>6
    <3> QED
      BY <1>1, <1>4, <3>1
  <2> QED
    BY <1>3, <2>3, <2>5, <2>6 DEF t
<1> QED
  BY <1>5, <1>6

LEMMA FlatType ==
  ASSUME NEW S, NEW s \in Seq(Seq(S))
  PROVE  FlattenSeq(s) \in Seq(S)
<1>1. CASE s = <<>>
  <2>1. <<>> \in Seq(S)
    OBVIOUS
  <2> QED
    BY <1>1, <2>1, FlatEmpty
<1>2. CASE s # <<>>
  <2> DEFINE n == Len(s)
  <2>0. n \in Nat
    OBVIOUS
  <2>1. PICK f : Joins(f, s, n)
    BY <2>0, JoinsExist, Zenon
  <2> DEFINE T == {i \in 1 .. n : f[i] \notin Seq(S)}
  <2>2. T = {}
    <3> SUFFICES ASSUME T # {} PROVE FALSE
      OBVIOUS
    <3>1. PICK x \in T : \A y \in T : x <= y
      <4>1. T \subseteq Nat
        OBVIOUS
      <4> HIDE DEF T
      <4> QED
        BY <4>1, LeastNumber
    <3>2. x \in 1 .. n /\ f[x] \notin Seq(S) /\ s[x] \in Seq(S)
      OBVIOUS
    <3>3. f[x] = IF x = 1 THEN s[x] ELSE f[x - 1] \o s[x]
      BY <2>1, JoinsTo
    <3>4. x # 1 /\ f[x - 1] \notin Seq(S)
      BY <3>2, <3>3, ConcatProperties
    <3>5. x - 1 \in T
      BY <3>2, <3>4
    <3> QED
      BY <3>1, <3>2, <3>5
  <2>3. FlattenSeq(s) = f[n] /\ n \in 1 .. n
    BY <1>2, <2>1, FlatIs
  <2> QED
    BY <2>2, <2>3
<1> QED
  BY <1>1, <1>2
=============================================================================
