------------------------------- MODULE Server -------------------------------
(***************************************************************************)
(* server: the accept loop, and the sessions and pool threads it feeds.    *)
(***************************************************************************)
EXTENDS Session

CONSTANTS
  MaxOpen,    \* descriptors the process may hold for connections
  MaxClients  \* BOUND: connections, accepted or not, at one time

ASSUME ServerAssumption == MaxOpen \in Nat /\ MaxClients \in Nat

VARIABLE backlog  \* connections the kernel holds for the acceptor

serverVars == <<vars, backlog>>

Open == {s \in Sessions : obj[s] = "open"}
Referred(s) == \E t \in Threads : on[t] = s

Connect ==
  /\ up /\ backlog + Cardinality(Open) < MaxClients
  /\ backlog' = backlog + 1
  /\ UNCHANGED vars

\* session::start
NotStarted(s) == UNCHANGED <<obj, ops>>
Start(s) ==
  /\ obj' = [obj EXCEPT ![s] = "open"]
  /\ ops' = [ops EXCEPT ![s] = {"read"}]

\* acceptor_.async_accept
NoAccept(s) == UNCHANGED ops
AsyncAccept(s) == ops' = [ops EXCEPT ![s] = {"accept"}]

HandleAccept(t, s) ==
  /\ Dispatch(t, s, "accept")
  /\ backlog > 0 /\ Cardinality(Open) < MaxOpen
  /\ backlog' = backlog - 1
  /\ Start(s)
  /\ \E script \in Scripts : todo' = [todo EXCEPT ![s] = script]
  /\ Goto(t, "accepted", Nobody)
  /\ UNCHANGED <<up, unread, closed, parser, parsed, wr, shut, replies>>

\* accept() finds no descriptor: the session goes, and with it the loop.
HandleAcceptError(t, s) ==
  /\ Dispatch(t, s, "accept")
  /\ backlog > 0 /\ Cardinality(Open) >= MaxOpen
  /\ Delete(s)
  /\ UNCHANGED <<up, at, on, backlog>>

StartAccept(t) ==
  /\ up /\ at[t] = "accepted"
  /\ \E s \in Sessions :
       /\ obj[s] \in {"none", "deleted"} /\ ~Referred(s)
       /\ obj' = [obj EXCEPT ![s] = "new"]
       /\ AsyncAccept(s)
  /\ Return(t)
  /\ UNCHANGED <<up, todo, unread, closed, parser, parsed, wr, shut,
                 replies, backlog>>

----------------------------------------------------------------------------
Init ==
  /\ up = TRUE
  /\ \E s \in Sessions :
       /\ obj = [u \in Sessions |-> IF u = s THEN "new" ELSE "none"]
       /\ ops = [u \in Sessions |-> IF u = s THEN {"accept"} ELSE {}]
  /\ todo = [s \in Sessions |-> <<>>]
  /\ unread = [s \in Sessions |-> <<>>]
  /\ closed = [s \in Sessions |-> FALSE]
  /\ parser = [s \in Sessions |-> "fresh"]
  /\ parsed = [s \in Sessions |-> "none"]
  /\ wr = [s \in Sessions |-> "none"]
  /\ shut = [s \in Sessions |-> FALSE]
  /\ replies = [s \in Sessions |-> 0]
  /\ at = [t \in Threads |-> "idle"]
  /\ on = [t \in Threads |-> Nobody]
  /\ backlog = 0

Handler(t, s) ==
  \/ SessionHandler(t, s) /\ UNCHANGED backlog
  \/ HandleAccept(t, s)
  \/ HandleAcceptError(t, s)

Step(t) == StartAccept(t) \/ (SessionStep(t) /\ UNCHANGED backlog)

Client == Connect \/ \E s \in Sessions : (Send(s) \/ Close(s)) /\ UNCHANGED backlog

Next ==
  \/ Client
  \/ \E t \in Threads : Step(t)
  \/ \E t \in Threads, s \in Sessions : Handler(t, s)
  \/ \E s \in Sessions : WriteRest(s) /\ UNCHANGED backlog

Spec == Init /\ [][Next]_serverVars

\* The operating system runs every thread inside a handler.  io_service queues
\* completions first come, first served, so one that is ready again and again
\* while threads are idle is picked up.  The last conjunct is an assumption on
\* the clients: they read what they are sent, or their connection fails.
Fairness ==
  /\ \A t \in Threads : WF_serverVars(Step(t))
  /\ \A s \in Sessions :
       /\ SF_serverVars(\E t \in Threads : Handler(t, s))
       /\ SF_serverVars(WriteRest(s) /\ UNCHANGED backlog)

FairSpec == Spec /\ Fairness

----------------------------------------------------------------------------
(* Properties                                                              *)

TypeOK ==
  /\ up \in BOOLEAN /\ backlog \in 0 .. MaxClients
  /\ obj \in [Sessions -> {"none", "new", "open", "deleted"}]
  /\ ops \in [Sessions -> SUBSET {"accept", "read", "write"}]
  /\ todo \in [Sessions -> Seq(Units)] /\ unread \in [Sessions -> Seq(Units)]
  /\ closed \in [Sessions -> BOOLEAN] /\ shut \in [Sessions -> BOOLEAN]
  /\ parser \in [Sessions -> {"fresh", "headers", "done"}]
  /\ parsed \in [Sessions -> {"none", "good", "bad", "indeterminate"}]
  /\ replies \in [Sessions -> 0 .. MaxReplies]
  /\ wr \in [Sessions -> {"none", "partial", "sent", "failed"}]
  /\ at \in [Threads -> Heads \cup Tails]
  /\ on \in [Threads -> Sessions \cup {Nobody}]
  /\ \A s \in Sessions : wr[s] # "none" <=> "write" \in ops[s]

\* Threads that read a session's data_ or prepare its response.
Holders(s) == {t \in Threads : on[t] = s /\ at[t] \in {"serve", "write"}}

\* A live session is in one pair of hands: one outstanding operation, or one
\* thread between its read and its write; a deleted one is in nobody's.  So
\* no two threads parse into it or write from it at once, no read overwrites
\* data_ under a handler, it is deleted once, and it is never forgotten.
OneHolder ==
  \A s \in Sessions :
    /\ obj[s] \in {"none", "deleted"} => ops[s] = {} /\ Holders(s) = {}
    /\ obj[s] \in {"new", "open"} =>
         \/ Holders(s) = {} /\ \E o \in {"accept", "read", "write"} : ops[s] = {o}
         \/ ops[s] = {} /\ \E t \in Threads : Holders(s) = {t}

\* The accept loop is one: a session waits for a connection or a thread is
\* about to create it, never two, and none once accepting failed.
OneListener ==
  /\ \A s, u \in Sessions : obj[s] = "new" /\ obj[u] = "new" => s = u
  /\ \A t, u \in Threads : at[t] = "accepted" /\ at[u] = "accepted" => t = u
  /\ \A s \in Sessions, t \in Threads : obj[s] = "new" => at[t] # "accepted"

\* handle_write starts the next read before it shuts the socket down, so bytes
\* that were already there are answered too; but every further response needs
\* a thread caught between the two, and a pool of one never sends a second.
RepliesBounded == \A s \in Sessions : replies[s] <= Cardinality(Threads)

\* A session that got something from its client, or that its client left, is
\* answered or given up, and deleted (unless the process dies).
Released ==
  \A s \in Sessions :
    obj[s] = "open" /\ (unread[s] # <<>> \/ closed[s]) ~> obj[s] # "open" \/ ~up

\* The server keeps listening while its descriptors last.
KeepsListening ==
  []<>(~up \/ \E s \in Sessions : "accept" \in ops[s])
=============================================================================
