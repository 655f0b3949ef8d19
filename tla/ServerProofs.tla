---------------------------- MODULE ServerProofs ----------------------------
(***************************************************************************)
(* Proofs about Server, for every number of threads, sessions, connections *)
(* and descriptors and whatever clients send.                              *)
(***************************************************************************)
EXTENDS Server, FiniteSetTheorems, SequenceLemmas

\* The types the argument needs.
Typed ==
  /\ obj \in [Sessions -> {"none", "new", "open", "deleted"}]
  /\ ops \in [Sessions -> SUBSET {"accept", "read", "write"}]
  /\ at \in [Threads -> Heads \cup Tails]
  /\ on \in [Threads -> Sessions \cup {Nobody}]

\* A thread is in a session exactly while it runs one of its handlers.
Placed ==
  \A t \in Threads : on[t] # Nobody <=> at[t] \in {"serve", "write"} \cup Tails

\* The state of a session says what can be outstanding on it.
Outstanding ==
  \A s \in Sessions :
    /\ obj[s] \in {"none", "deleted"} => ops[s] = {}
    /\ obj[s] = "new" => ops[s] = {"accept"}
    /\ obj[s] = "open" => ops[s] \in {{}, {"read"}, {"write"}}

\* A thread holds a session only while nothing is outstanding on it, and alone;
\* a live session on which nothing is outstanding is held.
Held ==
  /\ \A t \in Threads : at[t] \in {"serve", "write"} =>
       /\ obj[on[t]] = "open" /\ ops[on[t]] = {}
       /\ \A u \in Threads : at[u] \in {"serve", "write"} /\ on[u] = on[t] => u = t
  /\ \A s \in Sessions : obj[s] = "open" /\ ops[s] = {} =>
       \E t \in Threads : at[t] \in {"serve", "write"} /\ on[t] = s

IInv == Typed /\ Placed /\ Outstanding /\ Held /\ OneListener

----------------------------------------------------------------------------
\* The parts of a step that the invariant can see.
core == <<obj, ops, at, on>>

\* IInv holds of the server as it is constructed.
LEMMA InvariantInit == Init => IInv
BY SessionAssumption DEF Init, IInv, Typed, Placed, Outstanding, Held, OneListener,
     Heads, Tails

LEMMA NobodyIsNone == Nobody \notin Threads \cup Sessions
BY SessionAssumption

\* Every handler, thread step and client action preserves IInv.
LEMMA InvariantStep == IInv /\ [Next]_serverVars => IInv'
<1> SUFFICES ASSUME IInv, [Next]_serverVars PROVE IInv'
  OBVIOUS
<1> USE NobodyIsNone DEF IInv, Typed, Heads, Tails, Goto, Return
\* Clients and the kernel.
<1>1. CASE UNCHANGED core
  BY <1>1 DEF core, Placed, Outstanding, Held, OneListener
\* The accept loop.
<1>2. ASSUME NEW t \in Threads, NEW s \in Sessions, HandleAccept(t, s)
      PROVE  IInv'
  <2>1. obj[s] = "new" /\ \A u \in Threads : at[u] # "accepted"
    BY <1>2 DEF HandleAccept, Dispatch, Outstanding, OneListener
  <2>2. Typed' /\ Placed' /\ Outstanding'
    BY <1>2, <2>1 DEF HandleAccept, Dispatch, Start, Placed, Outstanding
  <2>3. Held'
    BY <1>2, <2>1 DEF HandleAccept, Dispatch, Start, Placed, Outstanding, Held
  <2>4. OneListener'
    BY <1>2, <2>1 DEF HandleAccept, Dispatch, Start, OneListener
  <2> QED
    BY <2>2, <2>3, <2>4
<1>3. ASSUME NEW t \in Threads, NEW s \in Sessions, HandleAcceptError(t, s)
      PROVE  IInv'
  <2>1. obj[s] = "new"
    BY <1>3 DEF HandleAcceptError, Dispatch, Outstanding
  <2> QED
    BY <1>3, <2>1 DEF HandleAcceptError, Dispatch, Delete, Placed, Outstanding, Held,
       OneListener
<1>4. ASSUME NEW t \in Threads, StartAccept(t)
      PROVE  IInv'
  <2>1. PICK s \in Sessions :
          /\ obj[s] \in {"none", "deleted"} /\ ~Referred(s)
          /\ obj' = [obj EXCEPT ![s] = "new"]
          /\ AsyncAccept(s)
    BY <1>4 DEF StartAccept
  <2>2. Typed' /\ Placed' /\ Outstanding'
    BY <1>4, <2>1 DEF StartAccept, AsyncAccept, Placed, Outstanding
  <2>3. Held'
    <3>1. \A u \in Threads : at[u] \in {"serve", "write"} =>
            at'[u] = at[u] /\ on'[u] = on[u] /\ on[u] # s /\ on[u] \in Sessions
      BY <1>4, <2>1 DEF StartAccept, Placed, Referred
    <3>2. \A u \in Threads : at'[u] \in {"serve", "write"} => at'[u] = at[u]
      BY <1>4 DEF StartAccept
    <3> QED
      BY <2>1, <3>1, <3>2 DEF AsyncAccept, Held
  <2>4. OneListener'
    BY <1>4, <2>1 DEF StartAccept, OneListener
  <2> QED
    BY <2>2, <2>3, <2>4
\* handle_read
<1>5. ASSUME NEW t \in Threads, NEW s \in Sessions, HandleRead(t, s)
      PROVE  IInv'
  <2>1. obj[s] = "open" /\ ops[s] = {"read"}
    BY <1>5 DEF HandleRead, Dispatch, Outstanding
  <2>2. Typed' /\ Placed' /\ Outstanding'
    BY <1>5, <2>1 DEF HandleRead, Dispatch, ReadTaken, Placed, Outstanding
  <2>3. Held'
    <3>1. \A u \in Threads \ {t} : at'[u] = at[u] /\ on'[u] = on[u]
      BY <1>5 DEF HandleRead
    <3>2. at[t] = "idle" /\ at'[t] = "serve" /\ on'[t] = s
      BY <1>5 DEF HandleRead, Dispatch
    <3>3. \A u \in Threads : at[u] \in {"serve", "write"} => on[u] # s /\ on[u] \in Sessions
      BY <2>1 DEF Held, Placed
    <3>4. ops' = [ops EXCEPT ![s] = {}] /\ obj' = obj
      BY <1>5, <2>1 DEF HandleRead, ReadTaken
    <3> QED
      BY <2>1, <3>1, <3>2, <3>3, <3>4 DEF Held
  <2>4. OneListener'
    BY <1>5 DEF HandleRead, Dispatch, OneListener
  <2> QED
    BY <2>2, <2>3, <2>4
<1>6. ASSUME NEW t \in Threads, NEW s \in Sessions,
             HandleReadError(t, s) \/ HandleWriteError(t, s)
      PROVE  IInv'
  <2>1. obj[s] = "open" /\ ops[s] # {}
    BY <1>6 DEF HandleReadError, HandleWriteError, Dispatch, Outstanding
  <2> QED
    BY <1>6, <2>1, SMTT(60) DEF HandleReadError, HandleWriteError, Delete, Placed, Outstanding,
       Held, OneListener
<1>7. ASSUME NEW t \in Threads, HandleRequest(t)
      PROVE  IInv'
  <2>1. /\ UNCHANGED <<obj, ops, on>>
        /\ at[t] = "serve" /\ at' = [at EXCEPT ![t] = "write"]
    BY <1>7 DEF HandleRequest
  <2>2. Typed' /\ Placed' /\ Outstanding' /\ OneListener'
    BY <2>1 DEF Placed, Outstanding, OneListener
  <2>3. \A u \in Threads : at'[u] \in {"serve", "write"} <=> at[u] \in {"serve", "write"}
    BY <2>1
  <2>4. Held'
    BY <2>1, <2>3 DEF Held
  <2> QED
    BY <2>2, <2>4
<1>8. ASSUME NEW t \in Threads, AsyncWrite(t)
      PROVE  IInv'
  <2>1. on[t] \in Sessions /\ obj[on[t]] = "open" /\ ops[on[t]] = {}
    BY <1>8 DEF AsyncWrite, Placed, Held
  <2>2. Typed' /\ Placed' /\ Outstanding'
    BY <1>8, <2>1 DEF AsyncWrite, Placed, Outstanding
  <2>3. Held'
    <3>1. \A u \in Threads : at'[u] \in {"serve", "write"} =>
            u # t /\ at'[u] = at[u] /\ on'[u] = on[u] /\ on[u] # on[t]
      BY <1>8 DEF AsyncWrite, Held
    <3>2. \A u \in Threads \ {t} : at'[u] = at[u] /\ on'[u] = on[u]
      BY <1>8 DEF AsyncWrite
    <3>3. ops' = [ops EXCEPT ![on[t]] = @ \cup {"write"}] /\ obj' = obj
      BY <1>8 DEF AsyncWrite
    <3> QED
      BY <1>8, <2>1, <3>1, <3>2, <3>3 DEF AsyncWrite, Held
  <2>4. OneListener'
    BY <1>8 DEF AsyncWrite, OneListener
  <2> QED
    BY <2>2, <2>3, <2>4
<1>9. ASSUME NEW t \in Threads, Log(t) \/ Shutdown(t)
      PROVE  IInv'
  <2>1. /\ obj' = obj /\ ops' = ops /\ at[t] \in Tails
        /\ at' = [at EXCEPT ![t] = "idle"] /\ on' = [on EXCEPT ![t] = Nobody]
    BY <1>9 DEF Log, Shutdown, sessionVars
  <2>2. Typed' /\ Placed' /\ Outstanding' /\ OneListener'
    BY <2>1 DEF Placed, Outstanding, OneListener
  <2>3. /\ \A u \in Threads \ {t} : at'[u] = at[u] /\ on'[u] = on[u]
        /\ at[t] \notin {"serve", "write"} /\ at'[t] \notin {"serve", "write"}
    BY <2>1
  <2>4. Held'
    BY <2>1, <2>3 DEF Held
  <2> QED
    BY <2>2, <2>4
\* handle_write
<1>10. ASSUME NEW t \in Threads, NEW s \in Sessions, HandleWrite(t, s)
       PROVE  IInv'
  <2>1. obj[s] = "open" /\ ops[s] = {"write"}
    BY <1>10 DEF HandleWrite, Dispatch, Outstanding
  <2>2. Typed' /\ Placed' /\ Outstanding'
    BY <1>10, <2>1 DEF HandleWrite, Dispatch, Rearm, Placed, Outstanding
  <2>3. Held'
    <3>1. \A u \in Threads \ {t} : at'[u] = at[u] /\ on'[u] = on[u]
      BY <1>10 DEF HandleWrite
    <3>2. at[t] = "idle" /\ at'[t] = "shutdown"
      BY <1>10 DEF HandleWrite, Dispatch
    <3>3. \A u \in Threads : at[u] \in {"serve", "write"} => on[u] # s /\ on[u] \in Sessions
      BY <2>1 DEF Held, Placed
    <3>4. ops' = [ops EXCEPT ![s] = {"read"}] /\ obj' = obj
      BY <1>10, <2>1 DEF HandleWrite, Rearm
    <3> QED
      BY <2>1, <3>1, <3>2, <3>3, <3>4 DEF Held
  <2>4. OneListener'
    BY <1>10 DEF HandleWrite, Dispatch, OneListener
  <2> QED
    BY <2>2, <2>3, <2>4
<1>11. \/ UNCHANGED core
       \/ \E t \in Threads : \/ StartAccept(t) \/ HandleRequest(t) \/ AsyncWrite(t)
                             \/ Log(t) \/ Shutdown(t)
       \/ \E t \in Threads, s \in Sessions :
            \/ HandleAccept(t, s) \/ HandleAcceptError(t, s) \/ HandleRead(t, s)
            \/ HandleReadError(t, s) \/ HandleWrite(t, s) \/ HandleWriteError(t, s)
  BY DEF Next, Client, Connect, Send, Close, WriteRest, Step, SessionStep, Handler,
     SessionHandler, serverVars, vars, sessionVars, core
<1> QED
  BY <1>1, <1>2, <1>3, <1>4, <1>5, <1>6, <1>7, <1>8, <1>9, <1>10, <1>11

\* IInv is an invariant of the server.
THEOREM Inductive == Spec => []IInv
BY InvariantInit, InvariantStep, PTL DEF Spec

----------------------------------------------------------------------------
\* Every live session is in exactly one pair of hands, a deleted one in none.
THEOREM HeldOnce == Spec => []OneHolder
<1>1. IInv => OneHolder
  <2> SUFFICES ASSUME IInv, NEW s \in Sessions
               PROVE  /\ obj[s] \in {"none", "deleted"} => ops[s] = {} /\ Holders(s) = {}
                      /\ obj[s] \in {"new", "open"} =>
                           \/ /\ Holders(s) = {}
                              /\ \E o \in {"accept", "read", "write"} : ops[s] = {o}
                           \/ ops[s] = {} /\ \E t \in Threads : Holders(s) = {t}
    BY DEF OneHolder
  <2>1. CASE Holders(s) = {}
    BY <2>1 DEF IInv, Typed, Outstanding, Held, Holders
  <2>2. CASE Holders(s) # {}
    <3>1. PICK t \in Threads : on[t] = s /\ at[t] \in {"serve", "write"}
      BY <2>2 DEF Holders
    <3>2. obj[s] = "open" /\ ops[s] = {} /\ Holders(s) = {t}
      BY <3>1 DEF IInv, Held, Holders
    <3> QED
      BY <3>2
  <2> QED
    BY <2>1, <2>2
<1> QED
  BY <1>1, Inductive, PTL

\* There is never more than one accept loop.
THEOREM ListensOnce == Spec => []OneListener
<1>1. IInv => OneListener
  BY DEF IInv
<1> QED
  BY <1>1, Inductive, PTL

----------------------------------------------------------------------------
(* How many responses a connection gets.  Each but the last one was sent by *)
(* a thread that now stands between the two calls of handle_write, and the  *)
(* thread that sends another, or is free to let it go on, is not among them. *)

Shutters(s) == {t \in Threads : at[t] = "shutdown" /\ on[t] = s}
Underway(s) == IF wr[s] = "sent" THEN 1 ELSE 0

Counted(s) ==
  /\ replies[s] \in Nat /\ replies[s] <= Cardinality(Threads)
  /\ ~shut[s] => replies[s] <= Cardinality(Shutters(s)) + Underway(s)
  /\ wr[s] # "none" <=> "write" \in ops[s]
  /\ obj[s] # "open" => replies[s] = 0

RInv ==
  /\ wr \in [Sessions -> {"none", "partial", "sent", "failed"}]
  /\ shut \in [Sessions -> BOOLEAN]
  /\ replies \in [Sessions -> Nat]
  /\ \A s \in Sessions : Counted(s)

\* The threads that stand anywhere can be counted.
LEMMA ShuttersFinite ==
  ASSUME NEW s
  PROVE  /\ IsFiniteSet(Shutters(s))
         /\ Cardinality(Shutters(s)) \in Nat /\ Cardinality(Threads) \in Nat
         /\ Cardinality(Shutters(s)) <= Cardinality(Threads)
<1>1. Shutters(s) \in SUBSET Threads
  BY DEF Shutters
<1> QED
  BY <1>1, FS_Subset, FS_CardinalityType, SessionAssumption

\* A thread that stands elsewhere leaves room for one more response.
LEMMA RoomForOne ==
  ASSUME NEW s, NEW t \in Threads, t \notin Shutters(s)
  PROVE  Cardinality(Shutters(s)) + 1 <= Cardinality(Threads)
<1>1. Shutters(s) \in SUBSET Threads /\ Shutters(s) # Threads
  BY DEF Shutters
<1>2. Cardinality(Shutters(s)) # Cardinality(Threads)
  BY <1>1, FS_Subset, SessionAssumption
<1> QED
  BY <1>2, ShuttersFinite

\* Steps that send, shut down and delete nothing.
Steady ==
  /\ UNCHANGED <<wr, shut, replies>>
  /\ \A s \in Sessions :
       /\ Shutters(s)' = Shutters(s)
       /\ "write" \in ops'[s] <=> "write" \in ops[s]
       /\ obj[s] = "open" => obj'[s] = "open"

LEMMA SteadyStep == RInv /\ Steady => RInv'
<1> SUFFICES ASSUME RInv, Steady, NEW s \in Sessions PROVE Counted(s)'
  BY DEF RInv, Steady
<1>1. Counted(s)
  BY DEF RInv
<1>2. /\ wr' = wr /\ shut' = shut /\ replies' = replies /\ Shutters(s)' = Shutters(s)
      /\ "write" \in ops'[s] <=> "write" \in ops[s]
      /\ obj[s] = "open" => obj'[s] = "open"
  BY DEF Steady
<1> QED
  BY <1>1, <1>2 DEF Counted, Underway

\* Deletion starts the count again.
LEMMA DeleteStep ==
  ASSUME RInv, Typed, NEW s \in Sessions, Delete(s), UNCHANGED <<at, on>>
  PROVE  RInv'
<1> SUFFICES ASSUME NEW u \in Sessions PROVE Counted(u)'
  BY DEF RInv, Delete
<1>1. CASE u = s
  <2>1. replies'[s] = 0 /\ wr'[s] = "none" /\ ops'[s] = {} /\ Shutters(s)' = Shutters(s)
    BY DEF RInv, Typed, Delete, Shutters
  <2>2. Underway(s)' = 0 /\ replies'[s] <= Cardinality(Shutters(s)) + 0
    BY <2>1, ShuttersFinite DEF Underway
  <2> HIDE DEF Underway
  <2> QED
    BY <1>1, <2>1, <2>2, ShuttersFinite DEF Counted
<1>2. CASE u # s
  <2>1. /\ wr'[u] = wr[u] /\ shut'[u] = shut[u] /\ replies'[u] = replies[u]
        /\ ops'[u] = ops[u] /\ obj'[u] = obj[u] /\ Shutters(u)' = Shutters(u)
    BY <1>2 DEF Delete, RInv, Typed, Shutters
  <2>2. Counted(u)
    BY DEF RInv
  <2> QED
    BY <2>1, <2>2 DEF Counted, Underway
<1> QED
  BY <1>1, <1>2

\* A write takes the response, or part of it, or none.
Writes(s) ==
  /\ shut' = shut /\ obj' = obj
  /\ \/ /\ ~shut[s]
        /\ wr' = [wr EXCEPT ![s] = "sent"]
        /\ replies' = [replies EXCEPT ![s] = IF @ < MaxReplies THEN @ + 1 ELSE @]
     \/ /\ wr' = [wr EXCEPT ![s] = "partial"] \/ wr' = [wr EXCEPT ![s] = "failed"]
        /\ replies' = replies
  /\ \A u \in Sessions : Shutters(u)' = Shutters(u)
  /\ "write" \in ops'[s]
  /\ \A u \in Sessions \ {s} : ops'[u] = ops[u]

LEMMA WriteStep ==
  ASSUME RInv, Typed, NEW s \in Sessions, Writes(s), obj[s] = "open", wr[s] # "sent",
         NEW t \in Threads, t \notin Shutters(s)
  PROVE  RInv'
<1>1. /\ replies' \in [Sessions -> Nat] /\ shut' \in [Sessions -> BOOLEAN]
      /\ wr' \in [Sessions -> {"none", "partial", "sent", "failed"}]
  BY SessionAssumption DEF RInv, Writes
<1>2. ASSUME NEW u \in Sessions \ {s} PROVE Counted(u)'
  <2>1. /\ wr'[u] = wr[u] /\ shut'[u] = shut[u] /\ replies'[u] = replies[u]
        /\ ops'[u] = ops[u] /\ obj'[u] = obj[u] /\ Shutters(u)' = Shutters(u)
    BY DEF Writes, RInv
  <2>2. Counted(u)
    BY DEF RInv
  <2> QED
    BY <2>1, <2>2 DEF Counted, Underway
<1>3. Counted(s)'
  <2>1. Counted(s) /\ Underway(s) = 0
    BY DEF RInv, Underway
  <2>2. /\ wr'[s] # "none" /\ "write" \in ops'[s] /\ obj'[s] = "open"
        /\ shut'[s] = shut[s] /\ Shutters(s)' = Shutters(s)
    BY DEF Writes, RInv
  <2>3. Underway(s)' \in {0, 1}
    BY DEF Underway
  <2>4. \/ replies'[s] = replies[s]
        \/ ~shut[s] /\ replies'[s] = replies[s] + 1 /\ Underway(s)' = 1
    BY DEF Writes, RInv, Underway
  <2>5. Cardinality(Shutters(s)) + 1 <= Cardinality(Threads)
    BY RoomForOne
  <2>6. /\ replies'[s] \in Nat /\ replies'[s] <= Cardinality(Threads)
        /\ ~shut[s] => replies'[s] <= Cardinality(Shutters(s)) + Underway(s)'
    BY <2>1, <2>3, <2>4, <2>5, ShuttersFinite DEF Counted
  <2> HIDE DEF Underway, Shutters
  <2> QED
    BY <2>2, <2>6 DEF Counted
<1> QED
  BY <1>1, <1>2, <1>3 DEF RInv

\* handle_write leaves the last response to the thread that runs it.
LEMMA HandleWriteStep ==
  ASSUME RInv, Typed, NEW t \in Threads, NEW s \in Sessions, HandleWrite(t, s)
  PROVE  RInv'
<1>1. /\ at[t] = "idle" /\ wr[s] = "sent" /\ wr' = [wr EXCEPT ![s] = "none"]
      /\ ops' = [ops EXCEPT ![s] = (@ \ {"write"}) \cup {"read"}]
      /\ at' = [at EXCEPT ![t] = "shutdown"] /\ on' = [on EXCEPT ![t] = s]
      /\ UNCHANGED <<obj, shut, replies>>
  BY DEF HandleWrite, Dispatch, WriteDone, Rearm, Goto
<1>2. ASSUME NEW u \in Sessions \ {s} PROVE Counted(u)'
  <2>1. Shutters(u)' = Shutters(u)
    BY <1>1 DEF Typed, Shutters
  <2>2. wr'[u] = wr[u] /\ ops'[u] = ops[u]
    BY <1>1 DEF RInv, Typed
  <2>3. Counted(u)
    BY DEF RInv
  <2> QED
    BY <1>1, <2>1, <2>2, <2>3 DEF Counted, Underway
<1>3. Counted(s)'
  <2>1. Shutters(s)' = Shutters(s) \cup {t} /\ t \notin Shutters(s)
    BY <1>1 DEF Typed, Shutters
  <2>2. Cardinality(Shutters(s)') = Cardinality(Shutters(s)) + 1
    BY <2>1, ShuttersFinite, FS_AddElement
  <2>3. wr'[s] = "none" /\ "write" \notin ops'[s]
    BY <1>1 DEF RInv, Typed
  <2>4. Counted(s) /\ Underway(s) = 1 /\ Underway(s)' = 0
    BY <1>1, <2>3 DEF RInv, Underway
  <2>5. ~shut[s] => replies[s] <= Cardinality(Shutters(s)') + 0
    BY <2>2, <2>4, ShuttersFinite DEF Counted
  <2> HIDE DEF Underway
  <2> QED
    BY <1>1, <2>3, <2>4, <2>5 DEF Counted
<1>4. wr' \in [Sessions -> {"none", "partial", "sent", "failed"}]
  BY <1>1 DEF RInv
<1> QED
  BY <1>1, <1>2, <1>3, <1>4 DEF RInv

\* A thread that leaves shuts the socket down first, unless it is gone.
LEMMA ShutdownStep ==
  ASSUME RInv, IInv, NEW t \in Threads, Shutdown(t)
  PROVE  RInv'
<1>1. PICK s \in Sessions : s = on[t]
  BY DEF Shutdown, IInv, Placed, Typed, Tails
<1>2. /\ at[t] = "shutdown"
      /\ shut' = [shut EXCEPT ![s] = @ \/ obj[s] = "open"]
      /\ at' = [at EXCEPT ![t] = "idle"] /\ on' = [on EXCEPT ![t] = Nobody]
      /\ UNCHANGED <<obj, ops, wr, replies>>
  BY <1>1 DEF Shutdown, ShutDown, Return, Goto
<1>3. ASSUME NEW u \in Sessions \ {s} PROVE Counted(u)'
  <2>1. Shutters(u)' = Shutters(u)
    BY <1>1, <1>2, SessionAssumption DEF IInv, Typed, Shutters
  <2>2. shut'[u] = shut[u]
    BY <1>2 DEF RInv
  <2>3. Counted(u)
    BY DEF RInv
  <2> QED
    BY <1>2, <2>1, <2>2, <2>3 DEF Counted, Underway
<1>4. Counted(s)'
  <2>1. Counted(s)
    BY DEF RInv
  <2>2. shut'[s] \/ replies'[s] = 0
    BY <1>2, <2>1 DEF RInv, Counted
  <2>3. Cardinality(Shutters(s)') \in Nat
    <3>1. Shutters(s)' \in SUBSET Threads
      BY DEF Shutters
    <3> QED
      BY <3>1, FS_Subset, FS_CardinalityType, SessionAssumption
  <2>4. ~shut'[s] => replies'[s] <= Cardinality(Shutters(s)') + Underway(s)'
    BY <2>2, <2>3 DEF Underway
  <2> QED
    BY <1>2, <2>1, <2>4 DEF Counted
<1>5. shut' \in [Sessions -> BOOLEAN]
  BY <1>2 DEF RInv
<1> QED
  BY <1>2, <1>3, <1>4, <1>5 DEF RInv

LEMMA RInvInit == Init => RInv
<1> SUFFICES ASSUME Init PROVE RInv
  OBVIOUS
<1>1. \A s \in Sessions : wr[s] = "none" /\ replies[s] = 0 /\ "write" \notin ops[s]
  BY DEF Init
<1>2. \A s \in Sessions : Counted(s)
  BY <1>1, ShuttersFinite DEF Counted, Underway
<1> QED
  BY <1>2 DEF Init, RInv

LEMMA RInvStep == IInv /\ RInv /\ [Next]_serverVars => RInv'
<1> SUFFICES ASSUME IInv, RInv, [Next]_serverVars PROVE RInv'
  OBVIOUS
<1> USE DEF IInv
<1>1. CASE UNCHANGED <<core, wr, shut, replies>>
  BY <1>1, SteadyStep DEF core, Steady, Shutters
<1>2. ASSUME NEW t \in Threads, NEW s \in Sessions, HandleAccept(t, s)
      PROVE  RInv'
  <2>1. \A u \in Sessions : Shutters(u)' = Shutters(u)
    BY <1>2 DEF HandleAccept, Dispatch, Goto, Typed, Shutters
  <2>2. ops[s] = {"accept"}
    BY <1>2 DEF HandleAccept, Dispatch, Outstanding, Typed
  <2> QED
    BY <1>2, <2>1, <2>2, SteadyStep DEF HandleAccept, Start, Typed, Steady
<1>3. ASSUME NEW t \in Threads, NEW s \in Sessions,
             HandleAcceptError(t, s) \/ HandleReadError(t, s) \/ HandleWriteError(t, s)
      PROVE  RInv'
  BY <1>3, DeleteStep DEF HandleAcceptError, HandleReadError, HandleWriteError
<1>4. ASSUME NEW t \in Threads, StartAccept(t)
      PROVE  RInv'
  <2>1. \A u \in Sessions : Shutters(u)' = Shutters(u)
    BY <1>4 DEF StartAccept, Return, Goto, Typed, Shutters
  <2>2. PICK s \in Sessions :
          /\ obj[s] \in {"none", "deleted"}
          /\ obj' = [obj EXCEPT ![s] = "new"]
          /\ AsyncAccept(s)
    BY <1>4 DEF StartAccept
  <2>3. ops[s] = {}
    BY <2>2 DEF Outstanding
  <2> QED
    BY <1>4, <2>1, <2>2, <2>3, SteadyStep DEF StartAccept, AsyncAccept, Typed, Steady
<1>5. ASSUME NEW t \in Threads, NEW s \in Sessions, HandleRead(t, s)
      PROVE  RInv'
  <2>1. \A u \in Sessions : Shutters(u)' = Shutters(u)
    BY <1>5 DEF HandleRead, Dispatch, Goto, Typed, Shutters
  <2>2. UNCHANGED <<obj, wr, shut, replies>> /\ ops' = [ops EXCEPT ![s] = @ \ {"read"}]
    BY <1>5 DEF HandleRead, ReadTaken
  <2> QED
    BY <2>1, <2>2, SteadyStep DEF Typed, Steady
<1>6. ASSUME NEW t \in Threads, HandleRequest(t) \/ Log(t)
      PROVE  RInv'
  <2>1. \A u \in Sessions : Shutters(u)' = Shutters(u)
    BY <1>6 DEF HandleRequest, Log, Return, Goto, Typed, Shutters
  <2>2. UNCHANGED <<obj, ops, wr, shut, replies>>
    BY <1>6 DEF HandleRequest, Log, sessionVars
  <2> QED
    BY <2>1, <2>2, SteadyStep DEF Steady
<1>7. ASSUME NEW t \in Threads, AsyncWrite(t)
      PROVE  RInv'
  <2> DEFINE s == on[t]
  <2>1. s \in Sessions /\ obj[s] = "open" /\ ops[s] = {} /\ at[t] = "write"
    BY <1>7 DEF AsyncWrite, Placed, Held, Typed
  <2>2. t \notin Shutters(s) /\ wr[s] # "sent"
    BY <2>1 DEF Shutters, RInv, Counted
  <2>3. \A u \in Sessions : Shutters(u)' = Shutters(u)
    BY <1>7 DEF AsyncWrite, Goto, Typed, Shutters
  <2>4. Writes(s)
    BY <1>7, <2>1, <2>3 DEF AsyncWrite, Writes, Typed
  <2> QED
    BY <2>1, <2>2, <2>4, WriteStep
<1>8. ASSUME NEW s \in Sessions, WriteRest(s)
      PROVE  RInv'
  <2>1. PICK t \in Threads : at[t] = "idle"
    BY <1>8 DEF WriteRest
  <2>2. t \notin Shutters(s) /\ wr[s] # "sent" /\ "write" \in ops[s]
    BY <1>8, <2>1 DEF Shutters, WriteRest
  <2>3. obj[s] = "open"
    BY <2>2 DEF Outstanding, Typed
  <2>4. Writes(s)
    BY <1>8 DEF WriteRest, Writes, Shutters
  <2> QED
    BY <2>1, <2>2, <2>3, <2>4, WriteStep
<1>9. ASSUME NEW t \in Threads, NEW s \in Sessions, HandleWrite(t, s)
      PROVE  RInv'
  BY <1>9, HandleWriteStep
<1>10. ASSUME NEW t \in Threads, Shutdown(t)
       PROVE  RInv'
  BY <1>10, ShutdownStep
<1>11. \/ UNCHANGED <<core, wr, shut, replies>>
       \/ \E t \in Threads : \/ StartAccept(t) \/ HandleRequest(t) \/ AsyncWrite(t)
                             \/ Log(t) \/ Shutdown(t)
       \/ \E t \in Threads, s \in Sessions :
            \/ HandleAccept(t, s) \/ HandleAcceptError(t, s) \/ HandleRead(t, s)
            \/ HandleReadError(t, s) \/ HandleWrite(t, s) \/ HandleWriteError(t, s)
       \/ \E s \in Sessions : WriteRest(s)
  BY DEF Next, Client, Connect, Send, Close, Step, SessionStep, Handler,
     SessionHandler, serverVars, vars, sessionVars, core
<1> QED
  BY <1>1, <1>2, <1>3, <1>4, <1>5, <1>6, <1>7, <1>8, <1>9, <1>10, <1>11

LEMMA RInvHolds == Spec => [](IInv /\ RInv)
<1> QED
  BY InvariantInit, InvariantStep, RInvInit, RInvStep, PTL DEF Spec

\* A connection gets at most one response for each thread of the pool.
THEOREM RepliesAreBounded == Spec => []RepliesBounded
<1>1. RInv => RepliesBounded
  BY DEF RInv, Counted, RepliesBounded
<1> QED
  BY <1>1, RInvHolds, PTL

----------------------------------------------------------------------------
(* Types.                                                                  *)

\* A run of the parser over a chunk.
Begin(p) == [state |-> p, status |-> "indeterminate"]
Feed(q, u) == IF q.status = "indeterminate" THEN Consume(q.state, u) ELSE q
IsRun(p, n, w, f) == f = [i \in 0 .. n |-> IF i = 0 THEN Begin(p) ELSE Feed(f[i - 1], w[i])]

LEMMA RunExists == ASSUME NEW p, NEW w, NEW n \in Nat PROVE \E f : IsRun(p, n, w, f)
<1> DEFINE T == {k \in Nat : \E f : IsRun(p, k, w, f)}
<1>1. 0 \in T
  <2>1. IsRun(p, 0, w, [i \in 0 .. 0 |-> Begin(p)])
    BY DEF IsRun
  <2> QED
    BY <2>1
<1>2. ASSUME NEW k \in Nat, k \in T PROVE k + 1 \in T
  <2>1. PICK f : IsRun(p, k, w, f)
    BY <1>2
  <2> DEFINE g == [i \in 0 .. k + 1 |-> IF i = k + 1 THEN Feed(f[k], w[k + 1]) ELSE f[i]]
  <2>2. \A i \in 0 .. k : g[i] = f[i]
    OBVIOUS
  <2>3. \A i \in 0 .. k + 1 : g[i] = IF i = 0 THEN Begin(p) ELSE Feed(g[i - 1], w[i])
    <3> TAKE i \in 0 .. k + 1
    <3>1. CASE i = k + 1
      BY <2>2, <3>1
    <3>2. CASE i \in 1 .. k
      <4>1. f[i] = Feed(f[i - 1], w[i]) /\ i - 1 \in 0 .. k
        BY <2>1, <3>2 DEF IsRun
      <4> HIDE DEF g
      <4> QED
        BY <2>2, <3>2, <4>1
    <3>3. CASE i = 0
      BY <2>1, <3>3 DEF IsRun
    <3> QED
      BY <3>1, <3>2, <3>3
  <2>4. g = [i \in 0 .. k + 1 |-> g[i]]
    OBVIOUS
  <2> HIDE DEF g
  <2>5. IsRun(p, k + 1, w, g)
    BY <2>3, <2>4 DEF IsRun
  <2> QED
    BY <2>5
<1> HIDE DEF T
<1>3. Nat \subseteq T
  BY <1>1, <1>2, StepInduction
<1> QED
  BY <1>3 DEF T

ParserStates == {"fresh", "headers", "done"}
Statuses == {"good", "bad", "indeterminate"}
Places == [state : ParserStates, status : Statuses]

LEMMA ParseTyped ==
  ASSUME NEW p \in ParserStates, NEW w \in Seq(Units)
  PROVE  Parse(p, w) \in Places
<1> DEFINE f[i \in 0 .. Len(w)] == IF i = 0 THEN Begin(p) ELSE Feed(f[i - 1], w[i])
<1>1. Parse(p, w) = f[Len(w)]
  BY DEF Parse, Begin, Feed
<1>2. f = CHOOSE g : IsRun(p, Len(w), w, g)
  BY DEF IsRun
<1> HIDE DEF f
<1>3. Len(w) \in Nat
  OBVIOUS
<1>4. IsRun(p, Len(w), w, f)
  BY <1>2, <1>3, RunExists
<1>5. f[0] = Begin(p) /\ \A i \in 1 .. Len(w) : f[i] = Feed(f[i - 1], w[i])
  BY <1>3, <1>4 DEF IsRun
<1> DEFINE T == {n \in Nat : n <= Len(w) => f[n] \in Places}
<1>6. 0 \in T
  BY <1>5 DEF Begin, Places, Statuses
<1>7. ASSUME NEW n \in Nat, n \in T PROVE n + 1 \in T
  <2> SUFFICES ASSUME n + 1 <= Len(w) PROVE f[n + 1] \in Places
    OBVIOUS
  <2>1. f[n] \in Places /\ n + 1 \in 1 .. Len(w) /\ (n + 1) - 1 = n
    BY <1>3, <1>7
  <2>2. f[n + 1] = Feed(f[n], w[n + 1])
    BY <1>5, <2>1
  <2> QED
    BY <2>1, <2>2 DEF Feed, Consume, Places, ParserStates, Statuses
<1> HIDE DEF T
<1>8. Nat \subseteq T
  BY <1>6, <1>7, StepInduction
<1>9. f[Len(w)] \in Places
  BY <1>3, <1>8 DEF T
<1> QED
  BY <1>1, <1>9

\* The types that neither IInv nor RInv has.
TInv ==
  /\ up \in BOOLEAN /\ backlog \in 0 .. MaxClients
  /\ todo \in [Sessions -> Seq(Units)] /\ unread \in [Sessions -> Seq(Units)]
  /\ closed \in [Sessions -> BOOLEAN]
  /\ parser \in [Sessions -> ParserStates]
  /\ parsed \in [Sessions -> Statuses \cup {"none"}]
  /\ replies \in [Sessions -> 0 .. MaxReplies]

LEMMA TInvInit == Init => TInv
<1>1. <<>> \in Seq(Units)
  OBVIOUS
<1> QED
  BY <1>1, SessionAssumption, ServerAssumption DEF Init, TInv, ParserStates

\* A deleted session is as a new one.
LEMMA DeleteTyped ==
  ASSUME TInv, NEW s \in Sessions, Delete(s), up' \in BOOLEAN, backlog' \in 0 .. MaxClients
  PROVE  TInv'
<1>1. <<>> \in Seq(Units)
  OBVIOUS
<1> QED
  BY <1>1, SessionAssumption DEF TInv, Delete, ParserStates

\* handle_read takes a part of what there is.
LEMMA HandleReadTyped ==
  ASSUME TInv, NEW t \in Threads, NEW s \in Sessions, HandleRead(t, s), backlog' = backlog
  PROVE  TInv'
<1>1. PICK n \in 1 .. Len(unread[s]) :
        /\ parser' = [parser EXCEPT ![s] = Parse(parser[s], SubSeq(unread[s], 1, n)).state]
        /\ parsed' = [parsed EXCEPT ![s] = Parse(parser[s], SubSeq(unread[s], 1, n)).status]
        /\ unread' = [unread EXCEPT ![s] = SubSeq(@, n + 1, Len(@))]
  BY DEF HandleRead
<1>2. unread[s] \in Seq(Units) /\ parser[s] \in ParserStates
  BY DEF TInv
<1>3. SubSeq(unread[s], 1, n) \in Seq(Units)
      /\ SubSeq(unread[s], n + 1, Len(unread[s])) \in Seq(Units)
  BY <1>2
<1>4. Parse(parser[s], SubSeq(unread[s], 1, n)) \in Places
  BY <1>2, <1>3, ParseTyped
<1>5. UNCHANGED <<up, todo, closed, replies>>
  BY DEF HandleRead
<1> QED
  BY <1>1, <1>3, <1>4, <1>5 DEF TInv, Places

\* What clients do.
LEMMA ClientTyped == ASSUME TInv, Client PROVE TInv'
<1>1. CASE Connect
  <2>1. Open \in SUBSET Sessions
    BY DEF Open
  <2>2. Cardinality(Open) \in Nat
    BY <2>1, FS_Subset, FS_CardinalityType, SessionAssumption
  <2> QED
    BY <1>1, <2>2, ServerAssumption DEF Connect, TInv, vars, sessionVars
<1>2. ASSUME NEW s \in Sessions, Send(s), backlog' = backlog PROVE TInv'
  <2>1. /\ todo[s] \in Seq(Units) /\ todo[s] # <<>> /\ unread[s] \in Seq(Units)
        /\ Head(todo[s]) \in Units /\ Tail(todo[s]) \in Seq(Units)
    BY <1>2 DEF Send, TInv
  <2>2. Append(unread[s], Head(todo[s])) \in Seq(Units)
    BY <2>1
  <2> QED
    BY <1>2, <2>1, <2>2 DEF Send, TInv
<1>3. ASSUME NEW s \in Sessions, Close(s), backlog' = backlog PROVE TInv'
  BY <1>3 DEF Close, TInv
<1> QED
  BY <1>1, <1>2, <1>3 DEF Client

LEMMA TInvStep == IInv /\ TInv /\ [Next]_serverVars => TInv'
<1> SUFFICES ASSUME IInv, TInv, [Next]_serverVars PROVE TInv'
  OBVIOUS
<1>1. CASE UNCHANGED serverVars
  BY <1>1 DEF serverVars, vars, sessionVars, TInv
<1>2. CASE Client
  BY <1>2, ClientTyped
<1>3. ASSUME NEW t \in Threads, NEW s \in Sessions, HandleAccept(t, s) PROVE TInv'
  <2>1. PICK script \in Scripts : todo' = [todo EXCEPT ![s] = script]
    BY <1>3 DEF HandleAccept
  <2>2. script \in Seq(Units)
    BY SessionAssumption
  <2> QED
    BY <1>3, <2>1, <2>2, ServerAssumption DEF HandleAccept, TInv
<1>4. ASSUME NEW t \in Threads, NEW s \in Sessions,
             \/ HandleAcceptError(t, s)
             \/ (HandleReadError(t, s) \/ HandleWriteError(t, s)) /\ backlog' = backlog
      PROVE  TInv'
  BY <1>4, DeleteTyped DEF HandleAcceptError, HandleReadError, HandleWriteError, TInv
<1>5. ASSUME NEW t \in Threads, StartAccept(t) PROVE TInv'
  BY <1>5 DEF StartAccept, TInv
<1>6. ASSUME NEW t \in Threads, NEW s \in Sessions, HandleRead(t, s), backlog' = backlog
      PROVE  TInv'
  BY <1>6, HandleReadTyped
<1>7. ASSUME NEW t \in Threads, NEW s \in Sessions, HandleWrite(t, s), backlog' = backlog
      PROVE  TInv'
  BY <1>7 DEF HandleWrite, TInv
<1>8. ASSUME NEW t \in Threads, HandleRequest(t) \/ Log(t) \/ Shutdown(t), backlog' = backlog
      PROVE  TInv'
  BY <1>8 DEF HandleRequest, Log, Shutdown, sessionVars, TInv
<1>9. ASSUME NEW s \in Sessions,
             \/ UNCHANGED replies
             \/ replies' = [replies EXCEPT ![s] = IF @ < MaxReplies THEN @ + 1 ELSE @],
             UNCHANGED <<up, backlog, todo, unread, closed, parser, parsed>>
      PROVE  TInv'
  <2>1. replies' \in [Sessions -> 0 .. MaxReplies]
    <3>1. /\ replies \in [Sessions -> 0 .. MaxReplies] /\ replies[s] \in 0 .. MaxReplies
          /\ MaxReplies \in Nat
      BY SessionAssumption DEF TInv
    <3>2. (IF replies[s] < MaxReplies THEN replies[s] + 1 ELSE replies[s]) \in 0 .. MaxReplies
      BY <3>1
    <3> QED
      BY <1>9, <3>1, <3>2
  <2> QED
    BY <1>9, <2>1 DEF TInv
<1>10. ASSUME NEW t \in Threads, AsyncWrite(t), backlog' = backlog PROVE TInv'
  <2>1. on[t] \in Sessions
    BY <1>10 DEF AsyncWrite, IInv, Placed, Typed
  <2> QED
    BY <1>9, <1>10, <2>1 DEF AsyncWrite
<1>11. ASSUME NEW s \in Sessions, WriteRest(s), backlog' = backlog PROVE TInv'
  BY <1>9, <1>11 DEF WriteRest
<1> QED
  BY <1>1, <1>2, <1>3, <1>4, <1>5, <1>6, <1>7, <1>8, <1>10, <1>11
     DEF Next, Step, SessionStep, Handler, SessionHandler

\* Every variable keeps its type, and a session has a write exactly while one is
\* outstanding.
THEOREM TypeCorrect == Spec => []TypeOK
<1>1. IInv /\ RInv /\ TInv => TypeOK
  BY DEF IInv, Typed, RInv, Counted, TInv, TypeOK, ParserStates, Statuses
<1>2. Spec => []TInv
  BY TInvInit, TInvStep, RInvHolds, PTL DEF Spec
<1> QED
  BY <1>1, <1>2, RInvHolds, PTL
=============================================================================
