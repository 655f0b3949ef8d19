--------------------------- MODULE MarkdownProofs ---------------------------
(***************************************************************************)
(* Proofs about Markdown, for every number of threads, documents, lines    *)
(* and files.                                                              *)
(***************************************************************************)
EXTENDS Markdown, SequenceTheorems, TLAPS

\* A thread that passed the checks works on a document that can be read, and
\* gets to read a render only of one whose directory can be written.
Roles ==
  \A t \in Threads :
    /\ pc[t] \notin {"idle", "start"} => doc[t] \in Readable
    /\ pc[t] \in {"read", "drop"} => doc[t] \in Writable
    /\ pc[t] \in {"open", "write"} /\ doc[t] \notin Writable => link[doc[t]] = None
    /\ pc[t] \notin {"write", "read"} => n[t] = 0

\* Files of different documents are different files, for their names and for
\* the threads that hold them.
Apart ==
  /\ \A d, e \in Targets : link[d] = link[e] /\ link[d] # None => d = e
  /\ \A d \in Targets, t \in Threads : fd[t] = link[d] /\ fd[t] # None => doc[t] = d
  /\ \A t, u \in Threads : fd[t] = fd[u] /\ fd[t] # None => doc[t] = doc[u]

Left == \A d \in left : link[d] # None

\* What a thread that met no other finds on its way.
AloneAt(t) ==
  t \notin overlapped =>
    /\ pc[t] # "idle" => \A u \in Threads : doc[u] = doc[t] => u = t
    /\ pc[t] = "remove" => link[doc[t]] # None
    /\ pc[t] = "open" => link[doc[t]] = None
    /\ pc[t] = "write" /\ doc[t] \in Writable =>
         /\ fd[t] # None /\ fd[t] = link[doc[t]]
         /\ n[t] \in 0 .. Lines /\ data[fd[t]] = [k \in 1 .. n[t] |-> k]
    /\ pc[t] = "read" => fd[t] # None /\ data[fd[t]] = Render

Alone == \A t \in Threads : AloneAt(t)

IInv ==
  /\ TypeOK /\ Roles /\ Apart /\ Left
  /\ NoLeftovers /\ LeftoversNotServed
  /\ Alone /\ WholeWhenAlone

----------------------------------------------------------------------------
\* The responses are of their type.
LEMMA ResponseTypes ==
  /\ Status(None, 0) \in Responses
  /\ \A d \in Targets, c \in {400, 404, 500} : Status(d, c) \in Responses
  /\ \A d \in Targets, b \in Seq(0 .. Lines) : Rendered(d, b) \in Responses
BY DEF Status, Rendered, Responses

\* The next line of a render.
LEMMA NextLine ==
  ASSUME NEW m \in Nat
  PROVE  Append([k \in 1 .. m |-> k], m + 1) = [k \in 1 .. m + 1 |-> k]
<1> DEFINE s == [k \in 1 .. m |-> k]
           a == Append(s, m + 1)
<1>1. s \in Seq(Nat) /\ Len(s) = m /\ \A k \in 1 .. m : s[k] = k
  OBVIOUS
<1> HIDE DEF s
<1>2. /\ a \in Seq(Nat) /\ Len(a) = m + 1
      /\ \A k \in 1 .. m : a[k] = k
      /\ a[m + 1] = m + 1
  BY <1>1, AppendProperties, m + 1 \in Nat
<1> HIDE DEF a
<1>3. a = [k \in 1 .. Len(a) |-> a[k]]
  BY <1>2
<1>4. \A k \in 1 .. m + 1 : a[k] = k
  BY <1>2
<1> QED
  BY <1>2, <1>3, <1>4 DEF a, s

\* Types are preserved.
LEMMA TypeStep ==
  ASSUME TypeOK, Roles, [Next]_vars
  PROVE  TypeOK'
<1> USE DEF TypeOK, Labels, Goto, Answer, CloseFd
<1>1. CASE UNCHANGED vars
  BY <1>1 DEF vars
<1>2. CASE Signal \/ Restart
  <2>1. CASE Signal
    <3>1. up' \in BOOLEAN /\ left' \subseteq Targets /\ overlapped' \subseteq Threads
      BY <2>1 DEF Signal
    <3>2. /\ pc' \in [Threads -> Labels] /\ doc' \in [Threads -> Targets \cup {None}]
          /\ fd' \in [Threads -> Inodes \cup {None}] /\ n' \in [Threads -> Nat]
          /\ \A t \in Threads : pc'[t] = "idle" /\ doc'[t] = None /\ fd'[t] = None
      BY <2>1 DEF Signal
    <3>3. ans' \in [Threads -> Responses]
      BY <2>1, ResponseTypes DEF Signal
    <3> QED
      BY <2>1, <3>1, <3>2, <3>3 DEF Signal
  <2>2. CASE Restart
    BY <2>2 DEF Restart
  <2> QED
    BY <1>2, <2>1, <2>2
<1>3. ASSUME NEW t \in Threads, NEW d \in Targets, Receive(t, d)
      PROVE  TypeOK'
  <2>1. overlapped' \subseteq Threads
    BY <1>3 DEF Receive, Busy
  <2> QED
    BY <1>3, <2>1, ResponseTypes, ConstantsAssumption DEF Receive
<1>4. ASSUME NEW t \in Threads, Step(t)
      PROVE  TypeOK'
  <2>1. CASE Refuse(t)
    <3>1. ASSUME NEW c \in {400, 404, 500}, Answer(t, c)
          PROVE  TypeOK'
      BY <2>1, <3>1, ResponseTypes, ConstantsAssumption DEF Refuse
    <3> QED
      BY <2>1, <3>1 DEF Refuse
  <2>2. CASE Lookup(t)
    BY <2>2, ResponseTypes, ConstantsAssumption DEF Lookup
  <2>3. CASE RemoveOld(t)
    BY <2>3, ResponseTypes, ConstantsAssumption DEF RemoveOld
  <2>4. CASE RemoveFails(t)
    BY <2>4, ResponseTypes, ConstantsAssumption DEF RemoveFails
  <2>5. CASE OpenCreates(t)
    BY <2>5, ResponseTypes, ConstantsAssumption DEF OpenCreates
  <2>6. CASE OpenExisting(t)
    BY <2>6, ResponseTypes, ConstantsAssumption DEF OpenExisting
  <2>7. CASE OpenFails(t)
    BY <2>7, ResponseTypes, ConstantsAssumption DEF OpenFails
  <2>8. CASE WriteLine(t)
    BY <2>8, ResponseTypes, ConstantsAssumption DEF WriteLine
  <2>9. CASE Reopen(t)
    BY <2>9, ResponseTypes, ConstantsAssumption DEF Reopen
  <2>10. CASE ReopenFails(t)
    BY <2>10, ResponseTypes, ConstantsAssumption DEF ReopenFails
  <2>11. CASE ReadMore(t)
    BY <2>11, ResponseTypes, ConstantsAssumption DEF ReadMore, AtEnd
  <2>12. CASE ReadEnd(t)
    BY <2>12, ResponseTypes, ConstantsAssumption DEF ReadEnd
  <2>13. CASE Drop(t)
    BY <2>13, ResponseTypes, ConstantsAssumption DEF Drop, Removed
  <2> QED
    BY <1>4, <2>1, <2>2, <2>3, <2>4, <2>5, <2>6, <2>7, <2>8, <2>9, <2>10, <2>11, <2>12, <2>13 DEF Step
<1> QED
  BY <1>1, <1>2, <1>3, <1>4 DEF Next

\* What each step relies on is preserved.
LEMMA RolesStep ==
  ASSUME TypeOK, Roles, NoLeftovers, [Next]_vars
  PROVE  Roles'
<1> USE DEF TypeOK, Roles, Labels, Goto, Answer, HtmlExists, Removed
<1>1. CASE UNCHANGED vars
  BY <1>1 DEF vars
<1>2. CASE Signal \/ Restart
  BY <1>2, ConstantsAssumption DEF Signal, Restart
<1>3. ASSUME NEW t \in Threads, NEW d \in Targets, Receive(t, d)
      PROVE  Roles'
  BY <1>3, ConstantsAssumption DEF Receive
<1>4. ASSUME NEW t \in Threads, Step(t)
      PROVE  Roles'
  <2>1. CASE Refuse(t)
    BY <2>1, ConstantsAssumption DEF Refuse
  <2>2. CASE Lookup(t)
    BY <2>2, ConstantsAssumption DEF Lookup
  <2>3. CASE RemoveOld(t)
    BY <2>3, ConstantsAssumption DEF RemoveOld
  <2>4. CASE RemoveFails(t)
    BY <2>4, ConstantsAssumption DEF RemoveFails
  <2>5. CASE OpenCreates(t)
    BY <2>5, ConstantsAssumption DEF OpenCreates
  <2>6. CASE OpenExisting(t)
    BY <2>6, ConstantsAssumption DEF OpenExisting
  <2>7. CASE OpenFails(t)
    BY <2>7, ConstantsAssumption DEF OpenFails
  <2>8. CASE WriteLine(t)
    BY <2>8, ConstantsAssumption DEF WriteLine
  <2>9. CASE Reopen(t)
    BY <2>9, ConstantsAssumption DEF Reopen
  <2>10. CASE ReopenFails(t)
    BY <2>10, ConstantsAssumption DEF ReopenFails
  <2>11. CASE ReadMore(t)
    BY <2>11, ConstantsAssumption DEF ReadMore
  <2>12. CASE ReadEnd(t)
    BY <2>12, ConstantsAssumption DEF ReadEnd
  <2>13. CASE Drop(t)
    BY <2>13, ConstantsAssumption DEF Drop
  <2> QED
    BY <1>4, <2>1, <2>2, <2>3, <2>4, <2>5, <2>6, <2>7, <2>8, <2>9, <2>10, <2>11, <2>12, <2>13 DEF Step
<1> QED
  BY <1>1, <1>2, <1>3, <1>4 DEF Next

\* A new file is nobody else's.
LEMMA ApartStep ==
  ASSUME TypeOK, Roles, Apart, [Next]_vars
  PROVE  Apart'
<1> USE DEF TypeOK, Apart, Labels, Goto, Answer, CloseFd, Removed, Free
<1>1. CASE UNCHANGED vars
  BY <1>1 DEF vars
<1>2. CASE Signal \/ Restart
  BY <1>2, ConstantsAssumption DEF Signal, Restart
<1>3. ASSUME NEW t \in Threads, NEW d \in Targets, Receive(t, d)
      PROVE  Apart'
  BY <1>3, ConstantsAssumption DEF Receive
<1>4. ASSUME NEW t \in Threads, Step(t)
      PROVE  Apart'
  <2>1. CASE Refuse(t)
    <3>1. ASSUME NEW c \in {400, 404, 500}, Answer(t, c)
          PROVE  Apart'
      BY <2>1, <3>1, ConstantsAssumption DEF Refuse
    <3> QED
      BY <2>1, <3>1 DEF Refuse
  <2>2. CASE Lookup(t)
    BY <2>2, ConstantsAssumption DEF Lookup
  <2>3. CASE RemoveOld(t)
    BY <2>3, ConstantsAssumption DEF RemoveOld
  <2>4. CASE RemoveFails(t)
    BY <2>4, ConstantsAssumption DEF RemoveFails
  <2>5. CASE OpenCreates(t)
    BY <2>5, ConstantsAssumption DEF OpenCreates
  <2>6. CASE OpenExisting(t)
    BY <2>6, ConstantsAssumption DEF OpenExisting
  <2>7. CASE OpenFails(t)
    BY <2>7, ConstantsAssumption DEF OpenFails
  <2>8. CASE WriteLine(t)
    BY <2>8, ConstantsAssumption DEF WriteLine
  <2>9. CASE Reopen(t)
    BY <2>9, ConstantsAssumption DEF Reopen
  <2>10. CASE ReopenFails(t)
    BY <2>10, ConstantsAssumption DEF ReopenFails
  <2>11. CASE ReadMore(t)
    BY <2>11, ConstantsAssumption DEF ReadMore
  <2>12. CASE ReadEnd(t)
    BY <2>12, ConstantsAssumption DEF ReadEnd
  <2>13. CASE Drop(t)
    BY <2>13, ConstantsAssumption, ZenonT(60) DEF Drop
  <2> QED
    BY <1>4, <2>1, <2>2, <2>3, <2>4, <2>5, <2>6, <2>7, <2>8, <2>9, <2>10, <2>11, <2>12, <2>13 DEF Step
<1> QED
  BY <1>1, <1>2, <1>3, <1>4 DEF Next

\* A render begins empty.
LEMMA NoLines == [k \in 1 .. 0 |-> k] = <<>>
OBVIOUS

\* A file is left only where there is one, and only until its document is
\* rendered.
LEMMA LeftStep ==
  ASSUME TypeOK, Roles, Left, LeftoversNotServed, [Next]_vars
  PROVE  (Left /\ LeftoversNotServed)'
<1> USE DEF TypeOK, Roles, Left, LeftoversNotServed, Labels, Goto, Answer, HtmlExists, Removed
<1>1. CASE UNCHANGED vars
  BY <1>1 DEF vars
<1>2. CASE Signal \/ Restart
  BY <1>2, ConstantsAssumption DEF Signal, Restart
<1>3. ASSUME NEW t \in Threads, NEW d \in Targets, Receive(t, d)
      PROVE  (Left /\ LeftoversNotServed)'
  BY <1>3, ConstantsAssumption DEF Receive
<1>4. ASSUME NEW t \in Threads, Step(t)
      PROVE  (Left /\ LeftoversNotServed)'
  <2>1. CASE Refuse(t)
    <3>1. ASSUME NEW c \in {400, 404, 500}, Answer(t, c)
          PROVE  (Left /\ LeftoversNotServed)'
      BY <2>1, <3>1, ConstantsAssumption DEF Refuse
    <3> QED
      BY <2>1, <3>1 DEF Refuse
  <2>2. CASE Lookup(t)
    BY <2>2, ConstantsAssumption DEF Lookup
  <2>3. CASE RemoveOld(t)
    BY <2>3, ConstantsAssumption DEF RemoveOld
  <2>4. CASE RemoveFails(t)
    BY <2>4, ConstantsAssumption DEF RemoveFails
  <2>5. CASE OpenCreates(t)
    BY <2>5, ConstantsAssumption DEF OpenCreates
  <2>6. CASE OpenExisting(t)
    BY <2>6, ConstantsAssumption DEF OpenExisting
  <2>7. CASE OpenFails(t)
    BY <2>7, ConstantsAssumption DEF OpenFails
  <2>8. CASE WriteLine(t)
    BY <2>8, ConstantsAssumption DEF WriteLine
  <2>9. CASE Reopen(t)
    BY <2>9, ConstantsAssumption DEF Reopen
  <2>10. CASE ReopenFails(t)
    BY <2>10, ConstantsAssumption DEF ReopenFails
  <2>11. CASE ReadMore(t)
    BY <2>11, ConstantsAssumption DEF ReadMore
  <2>12. CASE ReadEnd(t)
    BY <2>12, ConstantsAssumption DEF ReadEnd
  <2>13. CASE Drop(t)
    <3>1. doc[t] \in Targets \ left
      BY <2>13, ConstantsAssumption DEF Drop
    <3>2. \A d \in left : link'[d] = link[d] /\ left' = left
      BY <2>13, <3>1 DEF Drop
    <3>3. Left'
      BY <3>2, <2>13 DEF Drop
    <3>4. LeftoversNotServed'
      BY <2>13, ConstantsAssumption DEF Drop
    <3> QED
      BY <3>3, <3>4
  <2> QED
    BY <1>4, <2>1, <2>2, <2>3, <2>4, <2>5, <2>6, <2>7, <2>8, <2>9, <2>10, <2>11, <2>12, <2>13 DEF Step
<1> QED
  BY <1>1, <1>2, <1>3, <1>4 DEF Next

\* Whoever works on a file last removes it.
LEMMA NoLeftoversStep ==
  ASSUME TypeOK, Roles, Left, LeftoversNotServed, NoLeftovers, [Next]_vars
  PROVE  NoLeftovers'
<1> USE DEF TypeOK, Roles, Left, NoLeftovers, LeftoversNotServed, Labels, Goto, Answer, HtmlExists, Removed
<1>1. CASE UNCHANGED vars
  BY <1>1 DEF vars
<1>2. CASE Signal \/ Restart
  BY <1>2, ConstantsAssumption DEF Signal, Restart
<1>3. ASSUME NEW t \in Threads, NEW d \in Targets, Receive(t, d)
      PROVE  NoLeftovers'
  BY <1>3, ConstantsAssumption DEF Receive
<1>4. ASSUME NEW t \in Threads, Step(t)
      PROVE  NoLeftovers'
  <2>1. CASE Refuse(t)
    <3>1. ASSUME NEW c \in {400, 404, 500}, Answer(t, c)
          PROVE  NoLeftovers'
      BY <2>1, <3>1, ConstantsAssumption DEF Refuse
    <3> QED
      BY <2>1, <3>1 DEF Refuse
  <2>2. CASE Lookup(t)
    BY <2>2, ConstantsAssumption DEF Lookup
  <2>3. CASE RemoveOld(t)
    BY <2>3, ConstantsAssumption DEF RemoveOld
  <2>4. CASE RemoveFails(t)
    BY <2>4, ConstantsAssumption DEF RemoveFails
  <2>5. CASE OpenCreates(t)
    BY <2>5, ConstantsAssumption DEF OpenCreates
  <2>6. CASE OpenExisting(t)
    BY <2>6, ConstantsAssumption DEF OpenExisting
  <2>7. CASE OpenFails(t)
    BY <2>7, ConstantsAssumption DEF OpenFails
  <2>8. CASE WriteLine(t)
    BY <2>8, ConstantsAssumption DEF WriteLine
  <2>9. CASE Reopen(t)
    BY <2>9, ConstantsAssumption DEF Reopen
  <2>10. CASE ReopenFails(t)
    BY <2>10, ConstantsAssumption DEF ReopenFails
  <2>11. CASE ReadMore(t)
    BY <2>11, ConstantsAssumption DEF ReadMore
  <2>12. CASE ReadEnd(t)
    BY <2>12, ConstantsAssumption DEF ReadEnd
  <2>13. CASE Drop(t)
    BY <2>13, ConstantsAssumption DEF Drop
  <2> QED
    BY <1>4, <2>1, <2>2, <2>3, <2>4, <2>5, <2>6, <2>7, <2>8, <2>9, <2>10, <2>11, <2>12, <2>13 DEF Step
<1> QED
  BY <1>1, <1>2, <1>3, <1>4 DEF Next

\* A thread that meets no other works on its own file.
LEMMA AloneStep ==
  ASSUME TypeOK, Roles, Apart, Alone, [Next]_vars
  PROVE  Alone'
<1> USE DEF TypeOK, Roles, Apart, Alone, AloneAt, Labels, Goto, Answer, CloseFd, HtmlExists, Removed
<1>1. CASE UNCHANGED vars
  BY <1>1 DEF vars
<1>2. CASE Signal \/ Restart
  <2> SUFFICES ASSUME NEW u \in Threads
               PROVE  AloneAt(u)'
    OBVIOUS
  <2>1. CASE Signal
    BY <2>1 DEF Signal
  <2>2. CASE Restart
    BY <2>2 DEF Restart
  <2> QED
    BY <1>2, <2>1, <2>2
<1>3. ASSUME NEW t \in Threads, NEW d \in Targets, Receive(t, d)
      PROVE  Alone'
  BY <1>3, ConstantsAssumption DEF Receive, Busy
<1>4. ASSUME NEW t \in Threads, Step(t)
      PROVE  Alone'
  <2>1. CASE Refuse(t)
    <3>1. ASSUME NEW c \in {400, 404, 500}, Answer(t, c)
          PROVE  Alone'
      BY <2>1, <3>1, ConstantsAssumption DEF Refuse
    <3> QED
      BY <2>1, <3>1 DEF Refuse
  <2>2. CASE Lookup(t)
    BY <2>2, ConstantsAssumption DEF Lookup
  <2>3. CASE RemoveOld(t)
    BY <2>3, ConstantsAssumption DEF RemoveOld
  <2>4. CASE RemoveFails(t)
    BY <2>4, ConstantsAssumption DEF RemoveFails
  <2>5. CASE OpenCreates(t)
    <3> SUFFICES ASSUME NEW u \in Threads
                 PROVE  AloneAt(u)'
      OBVIOUS
    <3>1. CASE u = t
      <4>1. PICK i \in Inodes : /\ link' = [link EXCEPT ![doc[t]] = i]
                                /\ data' = [data EXCEPT ![i] = <<>>]
                                /\ fd' = [fd EXCEPT ![t] = i]
        BY <2>5 DEF OpenCreates
      <4>2. /\ pc'[t] = "write" /\ doc'[t] = doc[t] /\ doc[t] \in Targets
            /\ fd'[t] = i /\ link'[doc[t]] = i /\ data'[i] = <<>> /\ n'[t] = 0
        <5>1. pc'[t] = "write" /\ doc'[t] = doc[t] /\ n'[t] = 0
          BY <2>5 DEF OpenCreates
        <5>2. doc[t] \in Targets
          BY <2>5, ConstantsAssumption DEF OpenCreates
        <5> QED
          BY <4>1, <5>1, <5>2
      <4>3. i # None /\ 0 \in 0 .. Lines
        BY ConstantsAssumption
      <4>4. t \notin overlapped => \A v \in Threads : doc'[v] = doc'[t] => v = t
        BY <2>5 DEF OpenCreates
      <4> QED
        BY <2>5, <3>1, <4>2, <4>3, <4>4, NoLines DEF OpenCreates
    <3>2. CASE u # t
      BY <2>5, <3>2, ConstantsAssumption DEF OpenCreates, Free
    <3> QED
      BY <3>1, <3>2
  <2>6. CASE OpenExisting(t)
    BY <2>6, ConstantsAssumption DEF OpenExisting
  <2>7. CASE OpenFails(t)
    <3> SUFFICES ASSUME NEW u \in Threads
                 PROVE  AloneAt(u)'
      OBVIOUS
    <3>1. CASE u = t
      BY <2>7, <3>1, ConstantsAssumption, ZenonT(60) DEF OpenFails
    <3>2. CASE u # t
      BY <2>7, <3>2, ConstantsAssumption DEF OpenFails
    <3> QED
      BY <3>1, <3>2
  <2>8. CASE WriteLine(t)
    <3> SUFFICES ASSUME NEW u \in Threads
                 PROVE  AloneAt(u)'
      OBVIOUS
    <3>1. CASE u = t
      <4>1. /\ n[t] \in Nat /\ n'[t] = n[t] + 1 /\ pc'[t] = "write" /\ doc'[t] = doc[t]
            /\ fd'[t] = fd[t] /\ link' = link /\ fd[t] \in Inodes
            /\ data'[fd[t]] = Append(data[fd[t]], n[t] + 1)
        BY <2>8 DEF WriteLine
      <4>2. n[t] + 1 \in 0 .. Lines
        BY <2>8, <4>1, ConstantsAssumption DEF WriteLine
      <4>3. data[fd[t]] = [k \in 1 .. n[t] |-> k] =>
              data'[fd[t]] = [k \in 1 .. n'[t] |-> k]
        BY <4>1, NextLine
      <4>4. t \notin overlapped => \A v \in Threads : doc'[v] = doc'[t] => v = t
        BY <2>8 DEF WriteLine
      <4> QED
        BY <2>8, <3>1, <4>1, <4>2, <4>3, <4>4, ZenonT(60) DEF WriteLine
    <3>2. CASE u # t
      BY <2>8, <3>2, ConstantsAssumption DEF WriteLine
    <3> QED
      BY <3>1, <3>2
  <2>9. CASE Reopen(t)
    <3> SUFFICES ASSUME NEW u \in Threads
                 PROVE  AloneAt(u)'
      OBVIOUS
    <3>1. CASE u = t
      BY <2>9, <3>1, ConstantsAssumption, ZenonT(60) DEF Reopen, Render
    <3>2. CASE u # t
      BY <2>9, <3>2, ConstantsAssumption DEF Reopen
    <3> QED
      BY <3>1, <3>2
  <2>10. CASE ReopenFails(t)
    BY <2>10, ConstantsAssumption DEF ReopenFails
  <2>11. CASE ReadMore(t)
    <3> SUFFICES ASSUME NEW u \in Threads
                 PROVE  AloneAt(u)'
      OBVIOUS
    <3>1. CASE u = t
      BY <2>11, <3>1, ConstantsAssumption DEF ReadMore
    <3>2. CASE u # t
      BY <2>11, <3>2, ConstantsAssumption DEF ReadMore
    <3> QED
      BY <3>1, <3>2
  <2>12. CASE ReadEnd(t)
    <3> SUFFICES ASSUME NEW u \in Threads
                 PROVE  AloneAt(u)'
      OBVIOUS
    <3>1. CASE u = t
      BY <2>12, <3>1, ConstantsAssumption, ZenonT(60) DEF ReadEnd
    <3>2. CASE u # t
      BY <2>12, <3>2, ConstantsAssumption DEF ReadEnd
    <3> QED
      BY <3>1, <3>2
  <2>13. CASE Drop(t)
    BY <2>13, ConstantsAssumption DEF Drop
  <2> QED
    BY <1>4, <2>1, <2>2, <2>3, <2>4, <2>5, <2>6, <2>7, <2>8, <2>9, <2>10, <2>11, <2>12, <2>13 DEF Step
<1> QED
  BY <1>1, <1>2, <1>3, <1>4 DEF Next

\* So it answers what its document determines.
LEMMA WholeStep ==
  ASSUME TypeOK, Roles, Alone, WholeWhenAlone, [Next]_vars
  PROVE  WholeWhenAlone'
<1> USE DEF TypeOK, WholeWhenAlone, Labels, Goto, Answer
<1>1. CASE UNCHANGED vars
  BY <1>1 DEF vars
<1>2. CASE Signal \/ Restart
  BY <1>2, ConstantsAssumption DEF Signal, Restart, Status
<1>3. ASSUME NEW t \in Threads, NEW d \in Targets, Receive(t, d)
      PROVE  WholeWhenAlone'
  BY <1>3, ConstantsAssumption DEF Receive, Busy, Status
<1>4. ASSUME NEW t \in Threads, Step(t)
      PROVE  WholeWhenAlone'
  <2>1. CASE Refuse(t)
    <3> SUFFICES ASSUME NEW u \in Threads, u \notin overlapped', ans'[u].code # 0
                 PROVE  ans'[u] = Expected(ans'[u].target)
      OBVIOUS
    <3>1. CASE u = t
      <4>1. CASE doc[t] \notin Documents
        BY <2>1, <3>1, <4>1, ConstantsAssumption DEF Refuse, Expected, Status
      <4>2. CASE doc[t] \in Documents \ Existing
        BY <2>1, <3>1, <4>2, ConstantsAssumption DEF Refuse, Expected, Status
      <4>3. CASE doc[t] \in Existing \ Readable
        BY <2>1, <3>1, <4>3, ConstantsAssumption DEF Refuse, Expected, Status
      <4> QED
        BY <2>1, <4>1, <4>2, <4>3 DEF Refuse
    <3>2. CASE u # t
      BY <2>1, <3>2 DEF Refuse
    <3> QED
      BY <3>1, <3>2
  <2>2. CASE Lookup(t)
    BY <2>2, ConstantsAssumption DEF Lookup
  <2>3. CASE RemoveOld(t)
    BY <2>3, ConstantsAssumption DEF RemoveOld
  <2>4. CASE RemoveFails(t)
    <3> SUFFICES ASSUME NEW u \in Threads, u \notin overlapped', ans'[u].code # 0
                 PROVE  ans'[u] = Expected(ans'[u].target)
      OBVIOUS
    <3>1. CASE u = t
      <4>1. ans'[t] = Status(doc[t], 500)
        BY <2>4 DEF RemoveFails
      <4>2. doc[t] \in Existing \ Writable
        BY <2>4, <3>1, ConstantsAssumption DEF RemoveFails, Roles, Alone, AloneAt
      <4> QED
        BY <3>1, <4>1, <4>2, ConstantsAssumption DEF Expected, Status
    <3>2. CASE u # t
      BY <2>4, <3>2 DEF RemoveFails
    <3> QED
      BY <3>1, <3>2
  <2>5. CASE OpenCreates(t)
    BY <2>5, ConstantsAssumption DEF OpenCreates
  <2>6. CASE OpenExisting(t)
    BY <2>6, ConstantsAssumption DEF OpenExisting
  <2>7. CASE OpenFails(t)
    BY <2>7, ConstantsAssumption DEF OpenFails
  <2>8. CASE WriteLine(t)
    BY <2>8, ConstantsAssumption DEF WriteLine
  <2>9. CASE Reopen(t)
    BY <2>9, ConstantsAssumption DEF Reopen
  <2>10. CASE ReopenFails(t)
    <3> SUFFICES ASSUME NEW u \in Threads, u \notin overlapped', ans'[u].code # 0
                 PROVE  ans'[u] = Expected(ans'[u].target)
      OBVIOUS
    <3>1. CASE u = t
      <4>1. ans'[t] = Status(doc[t], 500)
        BY <2>10 DEF ReopenFails
      <4>2. doc[t] \in Existing \ Writable
        BY <2>10, <3>1, ConstantsAssumption DEF ReopenFails, Roles, Alone, AloneAt
      <4> QED
        BY <3>1, <4>1, <4>2, ConstantsAssumption DEF Expected, Status
    <3>2. CASE u # t
      BY <2>10, <3>2 DEF ReopenFails
    <3> QED
      BY <3>1, <3>2
  <2>11. CASE ReadMore(t)
    BY <2>11, ConstantsAssumption DEF ReadMore
  <2>12. CASE ReadEnd(t)
    <3> SUFFICES ASSUME NEW u \in Threads, u \notin overlapped', ans'[u].code # 0
                 PROVE  ans'[u] = Expected(ans'[u].target)
      OBVIOUS
    <3>1. CASE u = t
      <4>1. ans'[t] = Rendered(doc[t], Render)
        BY <2>12, <3>1 DEF ReadEnd, Alone, AloneAt
      <4> QED
        <5>1. doc[t] \in Writable
          BY <2>12 DEF ReadEnd, Roles
        <5>2. Expected(doc[t]) = Rendered(doc[t], Render)
          BY <5>1, ConstantsAssumption DEF Expected
        <5>3. ans'[t].target = doc[t]
          BY <4>1 DEF Rendered
        <5> QED
          BY <3>1, <4>1, <5>2, <5>3
    <3>2. CASE u # t
      BY <2>12, <3>2 DEF ReadEnd
    <3> QED
      BY <3>1, <3>2
  <2>13. CASE Drop(t)
    BY <2>13, ConstantsAssumption DEF Drop
  <2> QED
    BY <1>4, <2>1, <2>2, <2>3, <2>4, <2>5, <2>6, <2>7, <2>8, <2>9, <2>10, <2>11, <2>12, <2>13 DEF Step
<1> QED
  BY <1>1, <1>2, <1>3, <1>4 DEF Next

----------------------------------------------------------------------------
\* The invariant holds when the process starts for the first time.
LEMMA InvariantInit == Init => IInv
<1> SUFFICES ASSUME Init PROVE IInv
  OBVIOUS
<1>1. TypeOK
  BY ResponseTypes, ConstantsAssumption DEF Init, TypeOK, Labels
<1> QED
  BY <1>1, ConstantsAssumption DEF Init, IInv, TypeOK, Roles, Apart, Left, NoLeftovers,
     LeftoversNotServed, Alone, AloneAt, WholeWhenAlone, Status

\* Every step of every thread preserves it.
THEOREM Inductive == Spec => []IInv
<1>1. IInv /\ [Next]_vars => IInv'
  <2> SUFFICES ASSUME IInv, [Next]_vars PROVE IInv'
    OBVIOUS
  <2> QED
    BY TypeStep, RolesStep, ApartStep, LeftStep, NoLeftoversStep, AloneStep, WholeStep
       DEF IInv
<1> QED
  BY InvariantInit, <1>1, PTL DEF Spec

\* The state has its types in every instance.
THEOREM TypeCorrect == Spec => []TypeOK
<1>1. IInv => TypeOK
  BY DEF IInv
<1> QED
  BY <1>1, Inductive, PTL

\* A request of any number that meets no other for its document gets the whole
\* render, whatever was left behind before it.
THEOREM AloneIsWhole == Spec => []WholeWhenAlone
<1>1. IInv => WholeWhenAlone
  BY DEF IInv
<1> QED
  BY <1>1, Inductive, PTL

\* Any number of requests, however they overlap, remove every html file they make
\* and never use one that was left by an earlier process.
THEOREM FilesCleanedUp == Spec => [](NoLeftovers /\ LeftoversNotServed)
<1>1. IInv => NoLeftovers /\ LeftoversNotServed
  BY DEF IInv
<1> QED
  BY <1>1, Inductive, PTL

\* In particular no request appends to, or returns, what an earlier process left.
THEOREM LeftoversAreUnused == Spec => []LeftoversNotServed
<1>1. IInv => LeftoversNotServed
  BY DEF IInv
<1> QED
  BY <1>1, Inductive, PTL
=============================================================================
