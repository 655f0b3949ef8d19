------------------------------ MODULE Session ------------------------------
(***************************************************************************)
(* session: one object per connection, driven by completion handlers that  *)
(* any thread inside io_service::run may execute.  No strand orders them,  *)
(* so two threads can be inside one session: handle_read still logs after  *)
(* it started the write, handle_write still shuts the socket down after it *)
(* started the next read, and the handler of what they started may run,    *)
(* and delete the session, meanwhile.                                      *)
(*                                                                         *)
(* A client's bytes are units that TCP may join but that the server always *)
(* sees whole: "start" ends inside the headers, "end" completes them, "nl" *)
(* begins with a newline, "text" is anything else.                         *)
(***************************************************************************)
EXTENDS Naturals, Sequences, FiniteSets

CONSTANTS
  Threads,    \* the pool of server::run_threads
  Sessions,   \* session objects; one is used again once nothing refers to it
  Nobody,     \* no thread, no session
  Scripts,    \* what clients send on a connection, as sequences of units
  MaxReplies  \* BOUND: responses counted on a connection

Units == {"start", "end", "nl", "text"}

ASSUME SessionAssumption ==
  /\ IsFiniteSet(Threads) /\ IsFiniteSet(Sessions)
  /\ Nobody \notin Threads \cup Sessions
  /\ Scripts \subseteq Seq(Units)
  /\ MaxReplies \in Nat

VARIABLES
  up,       \* the process runs
  obj,      \* "none", "new" (waits for a connection), "open", "deleted"
  ops,      \* asynchronous operations outstanding on the session
  todo,     \* what its client will still send
  unread,   \* what it sent and the server has not read
  closed,   \* the client closed the connection
  parser,   \* req_parser_: "fresh", "headers", "done"
  parsed,   \* parse_status of the last read
  wr,       \* its write: "none", "partial", "sent", "failed"
  shut,     \* socket_.shutdown(both) was called
  replies,  \* whole responses the socket took
  at,       \* where each thread is
  on        \* in which session

sessionVars == <<obj, ops, todo, unread, closed, parser, parsed, wr,
                 shut, replies>>
vars == <<up, sessionVars, at, on>>

\* Before handing the session on, and after.
Heads == {"idle", "serve", "write", "accepted"}
Tails == {"log", "shutdown"}

Goto(t, label, s) ==
  at' = [at EXCEPT ![t] = label] /\ on' = [on EXCEPT ![t] = s]
Return(t) == Goto(t, "idle", Nobody)

\* The operations left when a handler starts, and what handle_write starts.
StillReading(o) == o
ReadTaken(o) == o \ {"read"}
NoRearm(o) == o \ {"write"}
Rearm(o) == (o \ {"write"}) \cup {"read"}

----------------------------------------------------------------------------
(* request_parser, as far as the end of a request matters.  The parser is  *)
(* never reset: after `good' it still expects the last newline, after `bad' *)
(* it stays where it was.                                                  *)

Consume(p, u) ==
  CASE p = "fresh"   /\ u = "start" -> [state |-> "headers", status |-> "indeterminate"]
    [] p = "headers" /\ u = "end"   -> [state |-> "done", status |-> "good"]
    [] p = "done"    /\ u = "nl"    -> [state |-> "done", status |-> "good"]
    [] OTHER                        -> [state |-> p, status |-> "bad"]

\* parse(): up to the first unit that settles the status; the rest is dropped.
Parse(p, chunk) ==
  LET f[i \in 0 .. Len(chunk)] ==
        IF i = 0 THEN [state |-> p, status |-> "indeterminate"]
        ELSE IF f[i - 1].status = "indeterminate"
             THEN Consume(f[i - 1].state, chunk[i]) ELSE f[i - 1]
  IN f[Len(chunk)]

----------------------------------------------------------------------------
(* The client.                                                             *)

Send(s) ==
  /\ up /\ obj[s] = "open" /\ ~closed[s] /\ todo[s] # <<>>
  /\ unread' = [unread EXCEPT ![s] = Append(@, Head(todo[s]))]
  /\ todo' = [todo EXCEPT ![s] = Tail(@)]
  /\ UNCHANGED <<up, obj, ops, closed, parser, parsed, wr, shut,
                 replies, at, on>>

Close(s) ==
  /\ up /\ obj[s] = "open" /\ ~closed[s]
  /\ closed' = [closed EXCEPT ![s] = TRUE]
  /\ UNCHANGED <<up, obj, ops, todo, unread, parser, parsed, wr, shut,
                 replies, at, on>>

----------------------------------------------------------------------------
(* handle_read                                                             *)

\* What the object leaves behind is unreachable.
Delete(s) ==
  /\ obj' = [obj EXCEPT ![s] = "deleted"]
  /\ ops' = [ops EXCEPT ![s] = {}]
  /\ todo' = [todo EXCEPT ![s] = <<>>]
  /\ unread' = [unread EXCEPT ![s] = <<>>]
  /\ closed' = [closed EXCEPT ![s] = FALSE]
  /\ parser' = [parser EXCEPT ![s] = "fresh"]
  /\ parsed' = [parsed EXCEPT ![s] = "none"]
  /\ wr' = [wr EXCEPT ![s] = "none"]
  /\ shut' = [shut EXCEPT ![s] = FALSE]
  /\ replies' = [replies EXCEPT ![s] = 0]

\* An idle thread runs the handler of the operation op on s.
Dispatch(t, s, op) == up /\ at[t] = "idle" /\ op \in ops[s]

HandleRead(t, s) ==
  /\ Dispatch(t, s, "read")
  /\ \E n \in 1 .. Len(unread[s]) :
       LET p == Parse(parser[s], SubSeq(unread[s], 1, n)) IN
         /\ parser' = [parser EXCEPT ![s] = p.state]
         /\ parsed' = [parsed EXCEPT ![s] = p.status]
         /\ unread' = [unread EXCEPT ![s] = SubSeq(@, n + 1, Len(@))]
  /\ ops' = [ops EXCEPT ![s] = ReadTaken(@)]
  /\ Goto(t, "serve", s)
  /\ UNCHANGED <<up, obj, todo, closed, wr, shut, replies>>

\* End of file: the client or handle_write closed this direction.
HandleReadError(t, s) ==
  /\ Dispatch(t, s, "read")
  /\ unread[s] = <<>> /\ (closed[s] \/ shut[s])
  /\ Delete(s)
  /\ UNCHANGED <<up, at, on>>

\* Whatever parse_status is, a handler runs; sleep holds the thread in it.
HandleRequest(t) ==
  /\ up /\ at[t] = "serve"
  /\ Goto(t, "write", on[t])
  /\ UNCHANGED <<up, obj, ops, todo, unread, closed, parser, parsed, wr, shut,
                 replies>>

\* async_write sends what the socket takes at once.
AsyncWrite(t) ==
  /\ up /\ at[t] = "write"
  /\ LET s == on[t] IN
       /\ ops' = [ops EXCEPT ![s] = @ \cup {"write"}]
       /\ \/ /\ ~shut[s]
             /\ wr' = [wr EXCEPT ![s] = "sent"]
             /\ replies' = [replies EXCEPT ![s] = IF @ < MaxReplies THEN @ + 1 ELSE @]
          \/ /\ ~shut[s]
             /\ wr' = [wr EXCEPT ![s] = "partial"]
             /\ UNCHANGED replies
          \/ /\ shut[s] \/ closed[s]
             /\ wr' = [wr EXCEPT ![s] = "failed"]
             /\ UNCHANGED replies
  /\ Goto(t, "log", on[t])
  /\ UNCHANGED <<up, obj, todo, unread, closed, parser, parsed, shut>>

\* Some thread of the pool writes the rest when the socket has room (from the
\* local string of handle_read, which may be gone: what it sends is left out).
WriteRest(s) ==
  /\ up /\ "write" \in ops[s] /\ wr[s] = "partial"
  /\ \E t \in Threads : at[t] = "idle"
  /\ \/ /\ ~shut[s]
        /\ wr' = [wr EXCEPT ![s] = "sent"]
        /\ replies' = [replies EXCEPT ![s] = IF @ < MaxReplies THEN @ + 1 ELSE @]
     \/ /\ shut[s] \/ closed[s]
        /\ wr' = [wr EXCEPT ![s] = "failed"]
        /\ UNCHANGED replies
  /\ UNCHANGED <<up, obj, ops, todo, unread, closed, parser, parsed, shut, at, on>>

\* The log line reads members of the session.  If it is deleted the outcome is
\* undefined: the line is wrong, or the process dies.
Log(t) ==
  /\ up /\ at[t] = "log"
  /\ Return(t)
  /\ up' \in {TRUE, obj[on[t]] # "deleted"}
  /\ UNCHANGED sessionVars

----------------------------------------------------------------------------
(* handle_write                                                            *)

WriteForgotten(s) == wr
WriteDone(s) == [wr EXCEPT ![s] = "none"]

HandleWrite(t, s) ==
  /\ Dispatch(t, s, "write") /\ wr[s] = "sent"
  /\ ops' = [ops EXCEPT ![s] = Rearm(@)]
  /\ wr' = WriteDone(s)
  /\ Goto(t, "shutdown", s)
  /\ UNCHANGED <<up, obj, todo, unread, closed, parser, parsed, shut,
                 replies>>

HandleWriteError(t, s) ==
  /\ Dispatch(t, s, "write") /\ wr[s] = "failed"
  /\ Delete(s)
  /\ UNCHANGED <<up, at, on>>

NotShutDown(s) == shut
ShutDown(s) == [shut EXCEPT ![s] = @ \/ obj[s] = "open"]

\* On a deleted session the outcome is undefined, as for Log.
Shutdown(t) ==
  /\ up /\ at[t] = "shutdown"
  /\ Return(t)
  /\ shut' = ShutDown(on[t])
  /\ up' \in {TRUE, obj[on[t]] # "deleted"}
  /\ UNCHANGED <<obj, ops, todo, unread, closed, parser, parsed, wr,
                 replies>>

\* What a thread does once it is inside a handler.
SessionStep(t) == HandleRequest(t) \/ AsyncWrite(t) \/ Log(t) \/ Shutdown(t)

\* What a pool thread may pick up for s.
SessionHandler(t, s) ==
  \/ HandleRead(t, s) \/ HandleReadError(t, s)
  \/ HandleWrite(t, s) \/ HandleWriteError(t, s)
=============================================================================
