---------------------------- MODULE CrudHandler ----------------------------
(***************************************************************************)
(* CrudHandler::handle_request as the pool threads of one server process   *)
(* run it over the disk (real_filesystem).  Every call that reaches the    *)
(* disk is one step, so the calls of different requests interleave; what a *)
(* request computes between two calls belongs to the step before it.       *)
(*                                                                         *)
(* An instance is the file <data_path>/<entity>/<id>; `link' is the        *)
(* directory entry, `data' what its inode holds.  A body fits one stream   *)
(* buffer, so an ofstream writes it in one write() at offset 0 and an      *)
(* ifstream reads a file in one read().  The file keeps what lies beyond   *)
(* the bytes written, so contents are a head and, for long bodies, a tail.  *)
(* A body may be of no bytes: that of a request without one, and of one     *)
(* whose body comes in a later segment than its headers (Exchange).        *)
(***************************************************************************)
EXTENDS Naturals, FiniteSets

CONSTANTS
  Threads,      \* threads of server::run_threads
  Entities,     \* the collections, /api/<entity>
  MaxId,        \* BOUND: POST probes the ids 1 .. MaxId
  LargeIds,     \* numeric ids that do not fit an int: std::stoi throws
  Values,       \* request bodies, as a handler gets them
  LongValues,   \* those that reach beyond the end of the others
  Empty,        \* the one of no bytes
  Inodes,
  None,         \* no inode
  Requests,     \* the requests clients send
  Disciplined,  \* clients never have two conflicting requests in flight
  Signals       \* SIGINT and SIGTERM may arrive

Ids == (1 .. MaxId) \cup LargeIds
Paths == Entities \X Ids

(***************************************************************************)
(* The target of a request: "id" /api/e/<digits>, "slash" /api/e/ (whose   *)
(* basename is empty), "name" /api/e, "flat" a target with one slash.      *)
(* BOUND: the name of an entity does not begin with a digit (std::stoi     *)
(* accepts 12abc, so GET would look for a file of that name).              *)
(***************************************************************************)
RequestSet == [method : {"POST", "GET", "PUT", "DELETE", "OTHER"},
               form : {"id", "slash", "name", "flat"},
               entity : Entities, id : Ids \cup {0}, value : Values]

\* Two requests on one entity, one of which writes, conflict unless they name
\* different instances.  (A discipline of the clients: the server has none.)
Conflict(r, s) ==
  /\ r.entity = s.entity
  /\ {r.method, s.method} \cap {"POST", "PUT", "DELETE"} # {}
  /\ r.form = "id" /\ s.form = "id" => r.id = s.id

NoRequest ==
  [method |-> "NONE", form |-> "none", entity |-> None, id |-> 0, value |-> Empty]

ASSUME ConstantsAssumption ==
  /\ MaxId \in Nat \ {0}
  /\ LargeIds \subseteq Nat
  /\ \A i \in LargeIds : i > MaxId
  /\ LongValues \subseteq Values /\ Empty \in Values \ LongValues
  /\ None \notin Values \cup Inodes
  /\ Requests \subseteq RequestSet /\ Requests # {}
  /\ \A r \in Requests : r.form = "id" <=> r.id # 0
  /\ Disciplined \in BOOLEAN
  /\ Signals \in BOOLEAN

VARIABLES
  up,     \* the process runs
  dirs,   \* entity directories on disk
  link,   \* directory entries: inode of a path, or None
  data,   \* contents of the inodes
  pc,     \* next call of each thread
  req,    \* the request a thread serves
  id,     \* the id in the path it works on
  fd,     \* the inode it has open, or None
  ans,    \* its response
  \* History, of the last time an inode was opened for writing:
  cut,    \* the end of the process stopped one who wrote it
  shared, \* another thread was writing it
  hollow  \* the body written to it last since then was the empty one

disk == <<dirs, link, data>>
vars == <<up, dirs, link, data, pc, req, id, fd, ans, cut, shared, hollow>>

Contents == [head : Values, tail : Values]
Blank == [head |-> Empty, tail |-> Empty]

\* What a write of v at offset 0 leaves of contents c.
WriteIsLost(c, v) == c
Overlay(c, v) ==
  IF v = Empty THEN c
  ELSE [head |-> v, tail |-> IF v \in LongValues THEN v ELSE c.tail]
Fresh(v) == Overlay(Blank, v)
Torn(c) == c.tail \notin {Empty, c.head}

\* What opening an ofstream leaves of contents c.
NotTruncated(c) == c
Truncated(c) == Blank

\* res.result() and the part of the body a property looks at.
Labels == {"idle", "start", "probe", "w_parent", "w_mkdir", "w_open", "w_write",
           "r_open", "r_read", "list", "remove"}
Codes == {0, 200, 201, 400, 404}
Responses == [code : Codes, id : Ids \cup {0}, body : Contents, ids : SUBSET Ids]
Reply(code, i, c, z) == [code |-> code, id |-> i, body |-> c, ids |-> z]
Status(code) == Reply(code, 0, Blank, {})
Created(i) == Reply(201, i, Blank, {})
Found(c) == Reply(200, 0, c, {})
Listed(z) == Reply(200, 0, Blank, z)

Path(t) == <<req[t].entity, id[t]>>
Linked(e) == {i \in Ids : link[<<e, i>>] # None}
Free(i) == (\A p \in Paths : link[p] # i) /\ (\A t \in Threads : fd[t] # i)
Writes(t, i) == pc[t] = "w_write" /\ fd[t] = i

\* isID: the loop over an empty basename leaves it true.
IsId(r) == r.form \in {"id", "slash"}
\* std::stoi accepts the last path component (GET only).
StoiAccepts(r) == r.form = "id" /\ r.id \notin LargeIds
Rejected(r) ==
  \/ r.form = "flat"
  \/ r.method = "POST" /\ IsId(r)
  \/ r.method \in {"PUT", "DELETE"} /\ ~IsId(r)

\* real_filesystem::file_exists(path_to_entities)
OnlyFilesExist(t) == req[t].form = "id" /\ link[Path(t)] # None
FileExists(t) ==
  IF req[t].form = "id" THEN link[Path(t)] # None ELSE req[t].entity \in dirs

\* POST probes the ids in turn.
SameId(i) == i
NextId(i) == i + 1

\* PUT reports whether it found the instance.
PutStatusSwapped(found) == IF found THEN 201 ELSE 200
PutStatus(found) == IF found THEN 200 ELSE 201

\* The end of the scope of the stream thread t has open.
LeakFd(t) == fd
CloseFd(t) == [fd EXCEPT ![t] = None]

Goto(t, label) == pc' = [pc EXCEPT ![t] = label]
Answer(t, a) ==
  /\ Goto(t, "idle")
  /\ ans' = [ans EXCEPT ![t] = a]
  /\ req' = [req EXCEPT ![t] = NoRequest]
  /\ id' = [id EXCEPT ![t] = 0]
Begins(t, method) ==
  pc[t] = "start" /\ ~Rejected(req[t]) /\ req[t].method = method

----------------------------------------------------------------------------
(* Requests that end without touching the disk.                            *)

\* The bound on POST: an entity holds at most MaxId instances.
HasRoom(r) ==
  r.method = "POST" => \E i \in 1 .. MaxId : link[<<r.entity, i>>] = None

Receive(t, r) ==
  /\ up /\ pc[t] = "idle" /\ HasRoom(r)
  /\ Disciplined =>
       \A u \in Threads : pc[u] # "idle" => ~Conflict(req[u], r)
  /\ Goto(t, "start")
  /\ req' = [req EXCEPT ![t] = r]
  /\ id' = [id EXCEPT ![t] = IF r.method = "POST" THEN 1 ELSE r.id]
  /\ ans' = [ans EXCEPT ![t] = Status(0)]
  /\ UNCHANGED <<up, disk, fd, cut, shared, hollow>>

Reject(t) ==
  /\ pc[t] = "start" /\ Rejected(req[t])
  /\ Answer(t, Status(400))
  /\ UNCHANGED <<up, disk, fd, cut, shared, hollow>>

\* The final return: the response is left as it was constructed.
OtherMethod(t) ==
  /\ Begins(t, "OTHER")
  /\ Answer(t, Status(200))
  /\ UNCHANGED <<up, disk, fd, cut, shared, hollow>>

----------------------------------------------------------------------------
(* POST and PUT, up to write_file.                                         *)

PostLookup(t) ==
  /\ Begins(t, "POST")
  /\ Goto(t, IF FileExists(t) THEN "probe" ELSE "w_parent")
  /\ UNCHANGED <<up, disk, req, id, fd, ans, cut, shared, hollow>>

Probe(t) ==
  /\ pc[t] = "probe"
  /\ \/ /\ link[Path(t)] # None /\ id[t] < MaxId
        /\ id' = [id EXCEPT ![t] = NextId(@)]
        /\ UNCHANGED pc
     \/ /\ link[Path(t)] = None
        /\ Goto(t, "w_parent")
        /\ UNCHANGED id
  /\ UNCHANGED <<up, disk, req, fd, ans, cut, shared, hollow>>

PutLookup(t) ==
  /\ Begins(t, "PUT")
  /\ Goto(t, "w_parent")
  /\ ans' = [ans EXCEPT ![t] = Status(PutStatus(FileExists(t)))]
  /\ UNCHANGED <<up, disk, req, id, fd, cut, shared, hollow>>

----------------------------------------------------------------------------
(* real_filesystem::write_file.  It reports nothing: the caller answers    *)
(* the same whether or not the file could be opened.                       *)

WriteReply(t) == IF req[t].method = "POST" THEN Created(id[t]) ELSE ans[t]

WriteParent(t) ==
  /\ pc[t] = "w_parent"
  /\ Goto(t, IF req[t].entity \in dirs THEN "w_open" ELSE "w_mkdir")
  /\ UNCHANGED <<up, disk, req, id, fd, ans, cut, shared, hollow>>

WriteMkdir(t) ==
  /\ pc[t] = "w_mkdir"
  /\ dirs' = dirs \cup {req[t].entity}
  /\ Goto(t, "w_open")
  /\ UNCHANGED <<up, link, data, req, id, fd, ans, cut, shared, hollow>>

\* The path is a directory, or its directory is gone.
OpenFails(t) ==
  /\ pc[t] = "w_open"
  /\ req[t].form = "slash" \/ req[t].entity \notin dirs
  /\ Answer(t, WriteReply(t))
  /\ UNCHANGED <<up, disk, fd, cut, shared, hollow>>

\* An ofstream truncates the file it opens.
OpenExisting(t) ==
  /\ pc[t] = "w_open" /\ req[t].form # "slash"
  /\ link[Path(t)] # None
  /\ LET i == link[Path(t)] IN
       /\ fd' = [fd EXCEPT ![t] = i]
       /\ data' = [data EXCEPT ![i] = Truncated(@)]
       /\ shared' = IF \E u \in Threads : Writes(u, i)
                    THEN shared \cup {i} ELSE shared \ {i}
       /\ cut' = cut \ {i} /\ hollow' = hollow \ {i}
  /\ Goto(t, "w_write")
  /\ UNCHANGED <<up, dirs, link, req, id, ans>>

OpenCreates(t) ==
  /\ pc[t] = "w_open" /\ req[t].form # "slash"
  /\ req[t].entity \in dirs
  /\ link[Path(t)] = None
  /\ \E i \in Inodes :
       /\ Free(i)
       /\ link' = [link EXCEPT ![Path(t)] = i]
       /\ fd' = [fd EXCEPT ![t] = i]
       /\ data' = [data EXCEPT ![i] = Truncated(@)]
       /\ shared' = shared \ {i}
       /\ cut' = cut \ {i} /\ hollow' = hollow \ {i}
  /\ Goto(t, "w_write")
  /\ UNCHANGED <<up, dirs, req, id, ans>>

WriteClose(t) ==
  /\ pc[t] = "w_write"
  /\ data' = [data EXCEPT ![fd[t]] = Overlay(@, req[t].value)]
  /\ fd' = CloseFd(t)
  /\ hollow' = IF req[t].value = Empty THEN hollow \cup {fd[t]} ELSE hollow \ {fd[t]}
  /\ Answer(t, WriteReply(t))
  /\ UNCHANGED <<up, dirs, link, cut, shared>>

----------------------------------------------------------------------------
(* GET: an id that std::stoi accepts names a file, anything else is listed *)
(* as a directory.                                                         *)

GetLookup(t) ==
  /\ Begins(t, "GET") /\ StoiAccepts(req[t])
  /\ \/ FileExists(t) /\ Goto(t, "r_open") /\ UNCHANGED <<ans, req, id>>
     \/ ~FileExists(t) /\ Answer(t, Status(404))
  /\ UNCHANGED <<up, disk, fd, cut, shared, hollow>>

ReadOpen(t) ==
  /\ pc[t] = "r_open"
  /\ \/ /\ link[Path(t)] # None
        /\ fd' = [fd EXCEPT ![t] = link[Path(t)]]
        /\ Goto(t, "r_read")
        /\ UNCHANGED <<ans, req, id>>
     \/ /\ link[Path(t)] = None
        /\ Answer(t, Status(400))
        /\ UNCHANGED fd
  /\ UNCHANGED <<up, disk, cut, shared, hollow>>

ReadAll(t) ==
  /\ pc[t] = "r_read"
  /\ fd' = CloseFd(t)
  /\ Answer(t, Found(data[fd[t]]))
  /\ UNCHANGED <<up, disk, cut, shared, hollow>>

ListLookup(t) ==
  /\ Begins(t, "GET") /\ ~StoiAccepts(req[t])
  /\ \/ FileExists(t) /\ Goto(t, "list") /\ UNCHANGED <<ans, req, id>>
     \/ ~FileExists(t) /\ Answer(t, Status(404))
  /\ UNCHANGED <<up, disk, fd, cut, shared, hollow>>

ListFiles(t) ==
  /\ pc[t] = "list" /\ req[t].form # "id" /\ req[t].entity \in dirs
  /\ Answer(t, Listed(Linked(req[t].entity)))
  /\ UNCHANGED <<up, disk, fd, cut, shared, hollow>>

----------------------------------------------------------------------------
(* DELETE                                                                  *)

DeleteLookup(t) ==
  /\ Begins(t, "DELETE")
  /\ \/ FileExists(t) /\ Goto(t, "remove") /\ UNCHANGED <<ans, req, id>>
     \/ ~FileExists(t) /\ Answer(t, Status(404))
  /\ UNCHANGED <<up, disk, fd, cut, shared, hollow>>

RemoveFile(t) ==
  /\ pc[t] = "remove" /\ req[t].form = "id" /\ link[Path(t)] # None
  /\ link' = [link EXCEPT ![Path(t)] = None]
  /\ Answer(t, Status(200))
  /\ UNCHANGED <<up, dirs, data, fd, cut, shared, hollow>>

RemoveDir(t) ==
  /\ pc[t] = "remove" /\ req[t].form = "slash"
  /\ req[t].entity \in dirs /\ Linked(req[t].entity) = {}
  /\ dirs' = dirs \ {req[t].entity}
  /\ Answer(t, Status(200))
  /\ UNCHANGED <<up, link, data, fd, cut, shared, hollow>>

\* std::filesystem::remove returns false: another request was faster.
RemoveGone(t) ==
  /\ pc[t] = "remove" /\ ~FileExists(t)
  /\ Answer(t, Status(400))
  /\ UNCHANGED <<up, disk, fd, cut, shared, hollow>>

----------------------------------------------------------------------------
(* The end of the process.  An exception that leaves handle_request leaves *)
(* the thread too, and std::terminate follows; the signal handler calls    *)
(* exit().  Neither waits for the other threads.                           *)

ProcessEnds ==
  /\ up' = FALSE
  /\ pc' = [t \in Threads |-> "idle"]
  /\ fd' = [t \in Threads |-> None]
  /\ ans' = [t \in Threads |-> Status(0)]
  /\ req' = [t \in Threads |-> NoRequest]
  /\ id' = [t \in Threads |-> 0]
  /\ cut' = cut \cup {i \in Inodes : \E t \in Threads : Writes(t, i)}
  /\ UNCHANGED <<disk, shared, hollow>>

\* directory_iterator: not a directory, or gone since file_exists.
ListThrows(t) ==
  /\ pc[t] = "list" /\ (req[t].form = "id" \/ req[t].entity \notin dirs)
  /\ ProcessEnds

\* std::filesystem::remove: the directory is not empty.
RemoveThrows(t) ==
  /\ pc[t] = "remove" /\ req[t].form = "slash"
  /\ req[t].entity \in dirs /\ Linked(req[t].entity) # {}
  /\ ProcessEnds

Signal == Signals /\ up /\ ProcessEnds

Restart ==
  /\ ~up /\ up' = TRUE
  /\ UNCHANGED <<disk, pc, req, id, fd, ans, cut, shared, hollow>>

----------------------------------------------------------------------------
Init ==
  /\ up = TRUE
  /\ dirs = {}
  /\ link = [p \in Paths |-> None]
  /\ data = [i \in Inodes |-> Blank]
  /\ pc = [t \in Threads |-> "idle"]
  /\ req = [t \in Threads |-> NoRequest]
  /\ id = [t \in Threads |-> 0]
  /\ fd = [t \in Threads |-> None]
  /\ ans = [t \in Threads |-> Status(0)]
  /\ cut = {} /\ shared = {} /\ hollow = {}

Step(t) ==
  \/ Reject(t) \/ OtherMethod(t)
  \/ PostLookup(t) \/ Probe(t) \/ PutLookup(t)
  \/ WriteParent(t) \/ WriteMkdir(t)
  \/ OpenFails(t) \/ OpenExisting(t) \/ OpenCreates(t) \/ WriteClose(t)
  \/ GetLookup(t) \/ ReadOpen(t) \/ ReadAll(t)
  \/ ListLookup(t) \/ ListFiles(t) \/ ListThrows(t)
  \/ DeleteLookup(t) \/ RemoveFile(t) \/ RemoveDir(t) \/ RemoveGone(t)
  \/ RemoveThrows(t)

Next ==
  \/ \E t \in Threads, r \in Requests : Receive(t, r)
  \/ \E t \in Threads : Step(t)
  \/ Signal
  \/ Restart

Spec == Init /\ [][Next]_vars

\* The operating system keeps scheduling every pool thread.
Fairness == \A t \in Threads : WF_vars(Step(t))
FairSpec == Spec /\ Fairness

----------------------------------------------------------------------------
(* Properties                                                              *)

\* Types; a thread holds a stream open exactly between its open and its last
\* read or write (no request leaks a descriptor).
TypeOK ==
  /\ up \in BOOLEAN
  /\ dirs \subseteq Entities
  /\ link \in [Paths -> Inodes \cup {None}]
  /\ data \in [Inodes -> Contents]
  /\ pc \in [Threads -> Labels]
  /\ req \in [Threads -> Requests \cup {NoRequest}]
  /\ id \in [Threads -> Ids \cup {0}]
  /\ fd \in [Threads -> Inodes \cup {None}]
  /\ ans \in [Threads -> Responses]
  /\ cut \subseteq Inodes /\ shared \subseteq Inodes /\ hollow \subseteq Inodes
  /\ \A t \in Threads : fd[t] # None <=> pc[t] \in {"w_write", "r_read"}

\* write_file truncates the instance before it writes it, whatever the body.  An
\* instance is without contents only while a request is writing it, if the end of
\* the process stopped its writer in between, or if the body that was written to
\* it last is itself empty: no body of any bytes is lost.
EmptyForAReason ==
  \A p \in Paths :
    link[p] # None /\ data[link[p]].head = Empty =>
      \/ \E t \in Threads : Writes(t, link[p])
      \/ link[p] \in cut \cup hollow

\* An instance that mixes two bodies was last opened for writing while another
\* request was writing it: a write_file that overlaps no other leaves exactly
\* its own body, also after requests that did overlap, crashes and deletions.
TornOnlyByOverlap ==
  \A p \in Paths : link[p] # None /\ Torn(data[link[p]]) => link[p] \in shared

\* crud_request_handler.cc:76, "Find next available ID for existing Entity",
\* and :82, "newly created instance": POST opens a path where nothing is.
PostNeverOverwrites ==
  [][\A t \in Threads :
       req[t].method = "POST" /\ pc[t] = "w_open" /\ pc'[t] = "w_write" =>
         link[Path(t)] = None]_vars

\* Every request a thread starts is answered (or the process ends, which frees
\* the thread as well): probing terminates and no branch is left without an
\* answer.
Answered == \A t \in Threads : pc[t] # "idle" ~> pc[t] = "idle"
=============================================================================
