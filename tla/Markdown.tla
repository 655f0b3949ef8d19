------------------------------ MODULE Markdown ------------------------------
(***************************************************************************)
(* MarkdownHandler::handle_request as the pool threads of one server       *)
(* process run it.  A request renders <name>.md into <name>.html beside    *)
(* it, reads that file back as its answer and removes it: all requests for *)
(* a document go through one file.  Every call that reaches the disk is a  *)
(* step.                                                                   *)
(*                                                                         *)
(* Each rendered line is flushed (std::endl) by one write at the end of    *)
(* the file; an ifstream reads what is there until a read returns nothing. *)
(* How a line of Markdown becomes a line of HTML is left out: the renders  *)
(* of a document all have the lines 1 .. Lines.                            *)
(***************************************************************************)
EXTENDS Naturals, Sequences, FiniteSets

CONSTANTS
  Threads,   \* threads of server::run_threads
  Targets,   \* what requests name
  Documents, \* names that end in .md
  Existing,  \* those that exist
  Readable,  \* those that can be opened
  Writable,  \* those whose directory can be written
  Lines,     \* lines of a render
  Inodes,
  None,      \* no inode, no target
  Signals    \* SIGINT and SIGTERM may arrive

ASSUME ConstantsAssumption ==
  /\ Documents \subseteq Targets /\ Existing \subseteq Documents
  /\ Readable \subseteq Existing /\ Writable \subseteq Readable
  /\ Lines \in Nat
  /\ None \notin Inodes \cup Targets
  /\ Signals \in BOOLEAN

VARIABLES
  up,         \* the process runs
  link,       \* the directory entry of <name>.html
  data,       \* the lines of the inodes, 0 for one no request here rendered
  pc,         \* next call of each thread
  doc,        \* the target of its request
  fd,         \* the inode it has open, or None
  n,          \* lines it has written, or read
  ans,        \* its response
  left,       \* targets whose html file nobody is working on
  overlapped  \* threads whose last request met another for the same target

vars == <<up, link, data, pc, doc, fd, n, ans, left, overlapped>>

Labels == {"idle", "start", "remove", "open", "write", "read", "drop"}
Render == [k \in 1 .. Lines |-> k]
Status(d, code) == [target |-> d, code |-> code, body |-> <<>>]
Rendered(d, body) == [target |-> d, code |-> 200, body |-> body]
Responses == [target : Targets \cup {None}, code : {0, 200, 400, 404, 500},
              body : Seq(0 .. Lines)]

Free(i) == (\A d \in Targets : link[d] # i) /\ (\A t \in Threads : fd[t] # i)
Busy(d) == {t \in Threads : pc[t] # "idle" /\ doc[t] = d}

\* Whether the file of an earlier render is there.  (BOUND: no two targets name one
\* file, as with a/../x.md, and what ends in .md is no directory.)
NotLookedFor(d) == FALSE
HtmlExists(d) == link[d] # None

\* The directory entries after std::remove.
StillThere(d) == link
Removed(d) == [link EXCEPT ![d] = None]

\* Where a reader is once it read all there is.
NotMoved(t) == n[t]
AtEnd(t) == Len(data[fd[t]])

\* The end of the scope of the stream thread t has open.
LeakFd(t) == fd
CloseFd(t) == [fd EXCEPT ![t] = None]

Goto(t, label) == pc' = [pc EXCEPT ![t] = label]
Answer(t, code) ==
  /\ Goto(t, "idle")
  /\ ans' = [ans EXCEPT ![t] = Status(doc[t], code)]
  /\ doc' = [doc EXCEPT ![t] = None]
  /\ n' = [n EXCEPT ![t] = 0]
  /\ fd' = CloseFd(t)

----------------------------------------------------------------------------
Receive(t, d) ==
  /\ up /\ pc[t] = "idle"
  /\ Goto(t, "start")
  /\ doc' = [doc EXCEPT ![t] = d]
  /\ ans' = [ans EXCEPT ![t] = Status(None, 0)]
  /\ overlapped' = IF Busy(d) = {} THEN overlapped \ {t}
                   ELSE overlapped \cup Busy(d) \cup {t}
  /\ UNCHANGED <<up, link, data, fd, n, left>>

\* The extension, the file and the stream on it are checked in this order.
Refuse(t) ==
  /\ pc[t] = "start" /\ doc[t] \notin Readable
  /\ \/ doc[t] \notin Documents /\ Answer(t, 400)
     \/ doc[t] \in Documents \ Existing /\ Answer(t, 404)
     \/ doc[t] \in Existing /\ Answer(t, 500)
  /\ UNCHANGED <<up, link, data, left, overlapped>>

\* The document is read (requests do not change it), its html file looked for.
Lookup(t) ==
  /\ pc[t] = "start" /\ doc[t] \in Readable
  /\ Goto(t, IF HtmlExists(doc[t]) THEN "remove" ELSE "open")
  /\ UNCHANGED <<up, link, data, doc, fd, n, ans, left, overlapped>>

RemoveOld(t) ==
  /\ pc[t] = "remove" /\ doc[t] \in Writable /\ link[doc[t]] # None
  /\ link' = [link EXCEPT ![doc[t]] = None]
  /\ left' = left \ {doc[t]}
  /\ Goto(t, "open")
  /\ UNCHANGED <<up, data, doc, fd, n, ans, overlapped>>

\* Not permitted, or another request removed it since.
RemoveFails(t) ==
  /\ pc[t] = "remove" /\ (doc[t] \notin Writable \/ link[doc[t]] = None)
  /\ Answer(t, 500)
  /\ UNCHANGED <<up, link, data, left, overlapped>>

----------------------------------------------------------------------------
(* The render, through an ofstream that appends.                           *)

OpenCreates(t) ==
  /\ pc[t] = "open" /\ doc[t] \in Writable /\ link[doc[t]] = None
  /\ \E i \in Inodes :
       /\ Free(i)
       /\ link' = [link EXCEPT ![doc[t]] = i]
       /\ data' = [data EXCEPT ![i] = <<>>]
       /\ fd' = [fd EXCEPT ![t] = i]
  /\ Goto(t, "write")
  /\ UNCHANGED <<up, doc, n, ans, left, overlapped>>

\* Another request created it since.
OpenExisting(t) ==
  /\ pc[t] = "open" /\ link[doc[t]] # None
  /\ fd' = [fd EXCEPT ![t] = link[doc[t]]]
  /\ Goto(t, "write")
  /\ UNCHANGED <<up, link, data, doc, n, ans, left, overlapped>>

\* A stream that did not open loses what is written to it.
OpenFails(t) ==
  /\ pc[t] = "open" /\ doc[t] \notin Writable /\ link[doc[t]] = None
  /\ n' = [n EXCEPT ![t] = Lines]
  /\ Goto(t, "write")
  /\ UNCHANGED <<up, link, data, doc, fd, ans, left, overlapped>>

WriteLine(t) ==
  /\ pc[t] = "write" /\ n[t] < Lines
  /\ n' = [n EXCEPT ![t] = @ + 1]
  /\ data' = [data EXCEPT ![fd[t]] = Append(@, n[t] + 1)]
  /\ UNCHANGED <<up, link, pc, doc, fd, ans, left, overlapped>>

----------------------------------------------------------------------------
(* The answer.                                                             *)

Reopen(t) ==
  /\ pc[t] = "write" /\ n[t] = Lines /\ link[doc[t]] # None
  /\ fd' = [fd EXCEPT ![t] = link[doc[t]]]
  /\ n' = [n EXCEPT ![t] = 0]
  /\ Goto(t, "read")
  /\ UNCHANGED <<up, link, data, doc, ans, left, overlapped>>

ReopenFails(t) ==
  /\ pc[t] = "write" /\ n[t] = Lines /\ link[doc[t]] = None
  /\ Answer(t, 500)
  /\ UNCHANGED <<up, link, data, left, overlapped>>

ReadMore(t) ==
  /\ pc[t] = "read" /\ n[t] < Len(data[fd[t]])
  /\ n' = [n EXCEPT ![t] = AtEnd(t)]
  /\ UNCHANGED <<up, link, data, pc, doc, fd, ans, left, overlapped>>

\* Files only grow, so what was read is what the file holds now.
ReadEnd(t) ==
  /\ pc[t] = "read" /\ n[t] = Len(data[fd[t]])
  /\ ans' = [ans EXCEPT ![t] = Rendered(doc[t], data[fd[t]])]
  /\ fd' = CloseFd(t)
  /\ n' = [n EXCEPT ![t] = 0]
  /\ Goto(t, "drop")
  /\ UNCHANGED <<up, link, data, doc, left, overlapped>>

\* Whichever file has the name now; that there is none goes unnoticed.
Drop(t) ==
  /\ pc[t] = "drop"
  /\ link' = Removed(doc[t])
  /\ doc' = [doc EXCEPT ![t] = None]
  /\ Goto(t, "idle")
  /\ UNCHANGED <<up, data, fd, n, ans, left, overlapped>>

----------------------------------------------------------------------------
(* The signal handler calls exit(); it waits for no thread.                *)

Signal ==
  /\ Signals /\ up /\ up' = FALSE
  /\ pc' = [t \in Threads |-> "idle"]
  /\ doc' = [t \in Threads |-> None]
  /\ fd' = [t \in Threads |-> None]
  /\ n' = [t \in Threads |-> 0]
  /\ ans' = [t \in Threads |-> Status(None, 0)]
  /\ left' = {d \in Targets : link[d] # None}
  /\ overlapped' = {}
  /\ UNCHANGED <<link, data>>

Restart ==
  /\ ~up /\ up' = TRUE
  /\ UNCHANGED <<link, data, pc, doc, fd, n, ans, left, overlapped>>

----------------------------------------------------------------------------
\* A file of that name may be there already, whoever made it.
Init ==
  /\ up = TRUE
  /\ left \in SUBSET Readable
  /\ link \in {f \in [Targets -> Inodes \cup {None}] :
                 /\ left = {d \in Targets : f[d] # None}
                 /\ \A d, e \in left : f[d] = f[e] => d = e}
  /\ data = [i \in Inodes |-> <<0>>]
  /\ pc = [t \in Threads |-> "idle"]
  /\ doc = [t \in Threads |-> None]
  /\ fd = [t \in Threads |-> None]
  /\ n = [t \in Threads |-> 0]
  /\ ans = [t \in Threads |-> Status(None, 0)]
  /\ overlapped = {}

Step(t) ==
  \/ Refuse(t) \/ Lookup(t) \/ RemoveOld(t) \/ RemoveFails(t)
  \/ OpenCreates(t) \/ OpenExisting(t) \/ OpenFails(t) \/ WriteLine(t)
  \/ Reopen(t) \/ ReopenFails(t) \/ ReadMore(t) \/ ReadEnd(t) \/ Drop(t)

Next ==
  \/ \E t \in Threads, d \in Targets : Receive(t, d)
  \/ \E t \in Threads : Step(t)
  \/ Signal
  \/ Restart

Spec == Init /\ [][Next]_vars

\* The operating system keeps scheduling every pool thread.
Fairness == \A t \in Threads : WF_vars(Step(t))
FairSpec == Spec /\ Fairness

----------------------------------------------------------------------------
(* Properties                                                              *)

\* Types; a thread reads and, if its stream opened, writes a file it holds.
TypeOK ==
  /\ up \in BOOLEAN
  /\ link \in [Targets -> Inodes \cup {None}]
  /\ data \in [Inodes -> Seq(0 .. Lines)]
  /\ pc \in [Threads -> Labels]
  /\ doc \in [Threads -> Targets \cup {None}]
  /\ fd \in [Threads -> Inodes \cup {None}]
  /\ n \in [Threads -> Nat]
  /\ ans \in [Threads -> Responses]
  /\ left \subseteq Targets
  /\ overlapped \subseteq Threads
  /\ \A t \in Threads :
       /\ doc[t] = None <=> pc[t] = "idle"
       /\ fd[t] # None => pc[t] \in {"write", "read"}
       /\ pc[t] = "read" \/ (pc[t] = "write" /\ n[t] < Lines) => fd[t] # None

\* What a document alone determines of the answer.
Expected(d) ==
  CASE d \in Writable              -> Rendered(d, Render)
    [] d \in Existing \ Writable   -> Status(d, 500)
    [] d \in Documents \ Existing  -> Status(d, 404)
    [] d \in Targets \ Documents   -> Status(d, 400)

\* A request that meets no other for its document is answered by the whole
\* render and nothing else, whatever an earlier request, overlapping others or
\* stopped halfway by the end of the process, left in the html file.
WholeWhenAlone ==
  \A t \in Threads :
    ans[t].code # 0 /\ t \notin overlapped => ans[t] = Expected(ans[t].target)

\* Requests clean up after themselves however they overlap and whichever of
\* them fail: an html file nobody works on was there before the process was.
NoLeftovers ==
  \A d \in Targets :
    link[d] # None =>
      \/ d \in left
      \/ \E t \in Threads : doc[t] = d /\ pc[t] \in {"write", "read", "drop"}

\* A file that was there before the process is gone when the first request of
\* its document starts to write: none appends to it, reads it back or, later,
\* removes it for its own.
LeftoversNotServed ==
  \A d \in left, t \in Threads :
    doc[t] = d => pc[t] \in {"start", "remove"}

\* Every request is answered: reading back ends though others may append.
Answered == \A t \in Threads : pc[t] # "idle" ~> pc[t] = "idle"

\* markdown_request_handler.cc:64, "render HTML equivalent", and the test
\* SampleMDRequest: a document that can be rendered is.
AlwaysRendered ==
  \A t \in Threads :
    ans[t].code # 0 /\ ans[t].target \in Writable => ans[t] = Rendered(ans[t].target, Render)
=============================================================================
