----------------------------- MODULE CrudProofs -----------------------------
(***************************************************************************)
(* Proofs about CrudHandler, for every number of threads, entities, ids,   *)
(* bodies and requests, and that it implements CrudStore.                  *)
(***************************************************************************)
EXTENDS CrudRefinement, TLAPS

Writer == {"w_parent", "w_mkdir", "w_open", "w_write"}

\* What a thread that serves a request works on: the id is the one of the
\* request, or the one POST probes, and each call belongs to one method.
Serving ==
  \A t \in Threads : pc[t] # "idle" =>
    /\ req[t] \in Requests
    /\ req[t].method = "POST" => id[t] \in 1 .. MaxId
    /\ req[t].method # "POST" => id[t] = req[t].id
    /\ pc[t] = "probe" => req[t].method = "POST"
    /\ pc[t] \in Writer => req[t].method \in {"POST", "PUT"}
    /\ pc[t] \in {"probe"} \cup Writer => ~Rejected(req[t])
    /\ pc[t] \in {"r_open", "r_read"} => req[t].form = "id" /\ req[t].method = "GET"

\* An instance that no two requests wrote at once has one writer at most, who
\* finds it empty, and holds one body at most.
SoleWriter ==
  \A i \in Inodes \ shared :
    /\ ~Torn(data[i])
    /\ \A t \in Threads : Writes(t, i) =>
         data[i] = Blank /\ \A u \in Threads : Writes(u, i) => u = t

\* Instances live in directories that exist.
Housed == \A e \in Entities, i \in Ids : link[<<e, i>>] # None => e \in dirs

Exclusive ==
  Disciplined => \A t, u \in Threads :
    t # u /\ pc[t] # "idle" /\ pc[u] # "idle" => ~Conflict(req[t], req[u])

\* The path a POST has settled on stays free until it opens it.
PostFree ==
  Disciplined => \A t \in Threads :
    req[t].method = "POST" /\ pc[t] \in {"w_parent", "w_mkdir", "w_open"} =>
      link[Path(t)] = None

IInv ==
  /\ TypeOK /\ Serving
  /\ EmptyForAReason /\ SoleWriter
  /\ Housed /\ Exclusive /\ PostFree

----------------------------------------------------------------------------
\* The responses are of their type.
LEMMA ResponseTypes ==
  /\ \A c \in Codes : Status(c) \in Responses
  /\ \A i \in Ids \cup {0} : Created(i) \in Responses
  /\ \A c \in Contents : Found(c) \in Responses
  /\ \A z \in SUBSET Ids : Listed(z) \in Responses
  /\ Blank \in Contents
  /\ \A c \in Contents, v \in Values : Overlay(c, v) \in Contents
BY ConstantsAssumption DEF Status, Reply, Created, Found, Listed, Responses, Contents,
   Blank, Codes, Overlay

\* A file that was written once, from its beginning, holds the body of its write;
\* an empty body leaves it as it was opened.
LEMMA FreshBodies ==
  /\ \A v \in Values : Fresh(v).head = v /\ ~Torn(Fresh(v))
  /\ \A v \in Values : Body(Fresh(v)) = v
  /\ Body(Blank) = Empty
  /\ None \notin Values
<1>1. \A v \in Values : Fresh(v).head = v /\ ~Torn(Fresh(v))
  BY DEF Fresh, Overlay, Blank, Torn
<1>2. \A v \in Values : Body(Fresh(v)) = v
  BY <1>1 DEF Body
<1>3. Blank = Fresh(Empty) /\ Empty \in Values
  BY ConstantsAssumption DEF Fresh, Overlay
<1> QED
  BY <1>1, <1>2, <1>3, ConstantsAssumption

\* The fields of a request, as the constants' assumption gives them.
LEMMA RequestFields ==
  ASSUME NEW r \in Requests
  PROVE  /\ r.entity \in Entities
         /\ r.id \in Ids \cup {0}
         /\ r.value \in Values
         /\ r.form \in {"id", "slash", "name", "flat"}
         /\ r.method \in {"POST", "GET", "PUT", "DELETE", "OTHER"}
         /\ r.form = "id" <=> r.id # 0
BY ConstantsAssumption DEF RequestSet

\* A thread that probes, opens or reads an instance has a path to one.
LEMMA PathTypes ==
  ASSUME TypeOK, Serving, NEW t \in Threads,
         \/ pc[t] \in {"probe", "r_open", "r_read"}
         \/ pc[t] \in Writer /\ req[t].form # "slash"
  PROVE  Path(t) \in Paths /\ req[t].entity \in Entities /\ id[t] \in Ids
<1>1. req[t] \in Requests
  BY DEF Serving, Writer
<1>2. 1 .. MaxId \subseteq Ids
  BY DEF Ids
<1>3. id[t] \in Ids
  <2>1. CASE req[t].method = "POST"
    BY <1>1, <1>2, <2>1 DEF Serving, Writer
  <2>2. CASE req[t].method # "POST"
    BY <1>1, <2>2, RequestFields DEF Serving, Writer, Rejected, IsId
  <2> QED
    BY <2>1, <2>2
<1> QED
  BY <1>1, <1>3, RequestFields DEF Path, Paths

\* What write_file's caller answers is a response.
LEMMA WriteReplyType ==
  ASSUME TypeOK, NEW t \in Threads
  PROVE  WriteReply(t) \in Responses
BY ResponseTypes DEF TypeOK, WriteReply

\* The end of the process leaves every variable in its type.
LEMMA EndTypes ==
  ASSUME TypeOK, ProcessEnds
  PROVE  TypeOK'
<1>1. cut' \subseteq Inodes
  BY DEF TypeOK, ProcessEnds
<1>2. /\ up' \in BOOLEAN
      /\ pc' \in [Threads -> Labels] /\ fd' \in [Threads -> Inodes \cup {None}]
      /\ \A t \in Threads : fd'[t] # None <=> pc'[t] \in {"w_write", "r_read"}
  BY DEF ProcessEnds, Labels
<1>3. /\ req' \in [Threads -> Requests \cup {NoRequest}]
      /\ id' \in [Threads -> Ids \cup {0}]
      /\ ans' \in [Threads -> Responses]
  BY ResponseTypes DEF ProcessEnds, Codes
<1> QED
  BY <1>1, <1>2, <1>3 DEF TypeOK, ProcessEnds, disk

\* Types are preserved.
LEMMA TypeStep ==
  ASSUME TypeOK, Serving, [Next]_vars
  PROVE  TypeOK'
<1> USE ResponseTypes DEF TypeOK, Labels, Codes, disk, Goto, Answer
<1>1. CASE UNCHANGED vars
  BY <1>1 DEF vars, disk
<1>2. CASE Signal \/ Restart
  <2>1. CASE Signal
    BY <2>1, EndTypes DEF Signal
  <2>2. CASE Restart
    BY <2>2 DEF Restart
  <2> QED
    BY <1>2, <2>1, <2>2
<1>3. ASSUME NEW t \in Threads, NEW r \in Requests, Receive(t, r)
      PROVE  TypeOK'
  <2>1. (IF r.method = "POST" THEN 1 ELSE r.id) \in Ids \cup {0}
    BY RequestFields, ConstantsAssumption DEF Ids
  <2> QED
    BY <1>3, <2>1 DEF Receive
<1>4. ASSUME NEW t \in Threads, Step(t)
      PROVE  TypeOK'
  <2>1. CASE Reject(t)
    BY <1>4, <2>1 DEF Reject, Begins
  <2>2. CASE OtherMethod(t)
    BY <1>4, <2>2 DEF OtherMethod, Begins
  <2>3. CASE PostLookup(t)
    BY <1>4, <2>3 DEF PostLookup, Begins
  <2>4. CASE Probe(t)
    <3>1. id[t] \in 1 .. MaxId
      BY <2>4 DEF Probe, Serving
    <3>2. id[t] < MaxId => NextId(id[t]) \in Ids
      BY <3>1, ConstantsAssumption DEF NextId, Ids
    <3> QED
      BY <2>4, <3>2 DEF Probe
  <2>5. CASE PutLookup(t)
    BY <1>4, <2>5 DEF PutLookup, Begins, PutStatus
  <2>6. CASE WriteParent(t)
    BY <1>4, <2>6 DEF WriteParent
  <2>7. CASE WriteMkdir(t)
    BY RequestFields, <2>7 DEF WriteMkdir, Serving
  <2>8. CASE OpenFails(t)
    BY WriteReplyType, <2>8 DEF OpenFails
  <2>9. CASE OpenExisting(t)
    BY PathTypes, ConstantsAssumption, <1>4, <2>9 DEF OpenExisting, Truncated, Writer
  <2>10. CASE OpenCreates(t)
    BY PathTypes, ConstantsAssumption, <1>4, <2>10 DEF OpenCreates, Truncated, Writer
  <2>11. CASE WriteClose(t)
    <3>1. req[t].value \in Values /\ fd[t] \in Inodes
      BY <2>11, RequestFields DEF WriteClose, Serving
    <3> QED
      BY WriteReplyType, <2>11, <3>1 DEF WriteClose, CloseFd
  <2>12. CASE GetLookup(t)
    BY <1>4, <2>12 DEF GetLookup, Begins
  <2>13. CASE ReadOpen(t)
    BY PathTypes, ConstantsAssumption, <1>4, <2>13 DEF ReadOpen
  <2>14. CASE ReadAll(t)
    BY ConstantsAssumption, <1>4, <2>14 DEF ReadAll, CloseFd
  <2>15. CASE ListLookup(t)
    BY <1>4, <2>15 DEF ListLookup, Begins
  <2>16. CASE ListFiles(t)
    BY <1>4, <2>16, ZenonT(60) DEF ListFiles, Linked
  <2>17. CASE ListThrows(t)
    BY <2>17, EndTypes DEF ListThrows
  <2>18. CASE DeleteLookup(t)
    BY <1>4, <2>18 DEF DeleteLookup, Begins
  <2>19. CASE RemoveFile(t)
    BY ConstantsAssumption, <1>4, <2>19, ZenonT(60) DEF RemoveFile
  <2>20. CASE RemoveDir(t)
    BY <1>4, <2>20 DEF RemoveDir
  <2>21. CASE RemoveGone(t)
    BY <1>4, <2>21 DEF RemoveGone
  <2>22. CASE RemoveThrows(t)
    BY <2>22, EndTypes DEF RemoveThrows
  <2> QED
    BY <1>4, <2>1, <2>2, <2>3, <2>4, <2>5, <2>6, <2>7, <2>8, <2>9, <2>10, <2>11, <2>12, <2>13, <2>14, <2>15, <2>16, <2>17, <2>18, <2>19, <2>20, <2>21, <2>22 DEF Step
<1> QED
  BY <1>1, <1>2, <1>3, <1>4 DEF Next

----------------------------------------------------------------------------
\* What each step relies on about its request is preserved.
LEMMA ServingStep ==
  ASSUME TypeOK, Serving, [Next]_vars
  PROVE  Serving'
<1> USE DEF TypeOK, Serving, Writer, Goto, Answer
<1>1. CASE UNCHANGED vars
  BY <1>1 DEF vars, disk, Rejected, IsId
<1>2. CASE Signal \/ Restart
  BY <1>2 DEF Signal, Restart, ProcessEnds
<1>3. ASSUME NEW t \in Threads, NEW r \in Requests, Receive(t, r)
      PROVE  Serving'
  BY <1>3, ConstantsAssumption DEF Receive
<1>4. ASSUME NEW t \in Threads, Step(t)
      PROVE  Serving'
  <2>1. CASE Reject(t)
    BY <2>1 DEF Reject
  <2>2. CASE OtherMethod(t)
    BY <2>2 DEF OtherMethod, Begins
  <2>3. CASE PostLookup(t)
    BY <2>3 DEF PostLookup, Begins
  <2>4. CASE Probe(t)
    BY ConstantsAssumption, <2>4 DEF Probe, NextId
  <2>5. CASE PutLookup(t)
    BY <2>5 DEF PutLookup, Begins
  <2>6. CASE WriteParent(t)
    BY <2>6 DEF WriteParent
  <2>7. CASE WriteMkdir(t)
    BY <2>7 DEF WriteMkdir
  <2>8. CASE OpenFails(t)
    BY <2>8 DEF OpenFails
  <2>9. CASE OpenExisting(t)
    BY <2>9 DEF OpenExisting
  <2>10. CASE OpenCreates(t)
    BY <2>10 DEF OpenCreates
  <2>11. CASE WriteClose(t)
    BY <2>11 DEF WriteClose, CloseFd
  <2>12. CASE GetLookup(t)
    BY <2>12 DEF GetLookup, Begins, StoiAccepts
  <2>13. CASE ReadOpen(t)
    BY <2>13 DEF ReadOpen
  <2>14. CASE ReadAll(t)
    BY <2>14 DEF ReadAll, CloseFd
  <2>15. CASE ListLookup(t)
    BY <2>15 DEF ListLookup, Begins
  <2>16. CASE ListFiles(t)
    BY <2>16 DEF ListFiles
  <2>17. CASE ListThrows(t)
    BY <2>17 DEF ListThrows, ProcessEnds
  <2>18. CASE DeleteLookup(t)
    BY <2>18 DEF DeleteLookup, Begins
  <2>19. CASE RemoveFile(t)
    BY <2>19 DEF RemoveFile
  <2>20. CASE RemoveDir(t)
    BY <2>20 DEF RemoveDir
  <2>21. CASE RemoveGone(t)
    BY <2>21 DEF RemoveGone
  <2>22. CASE RemoveThrows(t)
    BY <2>22 DEF RemoveThrows, ProcessEnds
  <2> QED
    BY <1>4, <2>1, <2>2, <2>3, <2>4, <2>5, <2>6, <2>7, <2>8, <2>9, <2>10, <2>11, <2>12, <2>13, <2>14, <2>15, <2>16, <2>17, <2>18, <2>19, <2>20, <2>21, <2>22 DEF Step
<1> QED
  BY <1>1, <1>2, <1>3, <1>4 DEF Next

----------------------------------------------------------------------------
\* A step that neither links nor writes an instance, nor opens one to write.
Quiet ==
  /\ UNCHANGED <<link, data, cut, shared, hollow>>
  /\ \A u \in Threads, i \in Inodes : Writes(u, i)' <=> Writes(u, i)

\* Most steps are quiet.
LEMMA QuietSteps ==
  ASSUME TypeOK, [Next]_vars
  PROVE  \/ Quiet \/ ProcessEnds
         \/ \E t \in Threads : \/ OpenExisting(t) \/ OpenCreates(t)
                                \/ WriteClose(t) \/ RemoveFile(t)
<1> USE DEF TypeOK, Quiet, Writes, Goto, Answer, disk
<1>1. CASE UNCHANGED vars
  BY <1>1 DEF vars
<1>2. CASE Restart
  BY <1>2 DEF Restart
<1>3. ASSUME NEW t \in Threads, NEW r \in Requests, Receive(t, r)
      PROVE  Quiet
  BY <1>3 DEF Receive
<1>4. ASSUME NEW t \in Threads, Step(t)
      PROVE  \/ Quiet \/ ProcessEnds
             \/ OpenExisting(t) \/ OpenCreates(t) \/ WriteClose(t) \/ RemoveFile(t)
  <2>1. CASE Reject(t)
    BY <2>1 DEF Reject
  <2>2. CASE OtherMethod(t)
    BY <2>2 DEF OtherMethod, Begins
  <2>3. CASE PostLookup(t)
    BY <2>3 DEF PostLookup, Begins
  <2>4. CASE Probe(t)
    BY <2>4 DEF Probe
  <2>5. CASE PutLookup(t)
    BY <2>5 DEF PutLookup, Begins
  <2>6. CASE WriteParent(t)
    BY <2>6 DEF WriteParent
  <2>7. CASE WriteMkdir(t)
    BY <2>7 DEF WriteMkdir
  <2>8. CASE OpenFails(t)
    BY <2>8 DEF OpenFails
  <2>9. CASE GetLookup(t)
    BY <2>9 DEF GetLookup, Begins, StoiAccepts
  <2>10. CASE ReadOpen(t)
    BY <2>10 DEF ReadOpen
  <2>11. CASE ReadAll(t)
    BY <2>11 DEF ReadAll, CloseFd
  <2>12. CASE ListLookup(t)
    BY <2>12 DEF ListLookup, Begins
  <2>13. CASE ListFiles(t)
    BY <2>13 DEF ListFiles
  <2>14. CASE DeleteLookup(t)
    BY <2>14 DEF DeleteLookup, Begins
  <2>15. CASE RemoveDir(t)
    BY <2>15 DEF RemoveDir
  <2>16. CASE RemoveGone(t)
    BY <2>16 DEF RemoveGone
  <2>17. CASE ListThrows(t) \/ RemoveThrows(t)
    BY <2>17 DEF ListThrows, RemoveThrows
  <2> QED
    BY <1>4, <2>1, <2>2, <2>3, <2>4, <2>5, <2>6, <2>7, <2>8, <2>9, <2>10, <2>11, <2>12, <2>13, <2>14, <2>15, <2>16, <2>17 DEF Step
<1> QED
  BY <1>1, <1>2, <1>3, <1>4 DEF Next, Signal

\* Only a writer, the end of one or an empty body leaves an instance empty.
LEMMA EmptyStep ==
  ASSUME TypeOK, Serving, EmptyForAReason, [Next]_vars
  PROVE  EmptyForAReason'
<1> USE DEF TypeOK, EmptyForAReason, Writes, disk
<1>1. CASE Quiet
  BY <1>1 DEF Quiet
<1>2. CASE ProcessEnds
  BY <1>2, ConstantsAssumption DEF ProcessEnds
<1>3. ASSUME NEW t \in Threads, OpenExisting(t)
      PROVE  EmptyForAReason'
  BY <1>3, PathTypes DEF OpenExisting, Goto, Writer
<1>4. ASSUME NEW t \in Threads, OpenCreates(t)
      PROVE  EmptyForAReason'
  BY <1>4, PathTypes DEF OpenCreates, Goto, Writer, Free
<1>5. ASSUME NEW t \in Threads, WriteClose(t)
      PROVE  EmptyForAReason'
  <2>1. CASE req[t].value = Empty
    BY <1>5, <2>1 DEF WriteClose, CloseFd, Answer, Goto, Overlay
  <2>2. CASE req[t].value # Empty
    BY <1>5, <2>2 DEF WriteClose, CloseFd, Answer, Goto, Overlay
  <2> QED
    BY <2>1, <2>2
<1>6. ASSUME NEW t \in Threads, RemoveFile(t)
      PROVE  EmptyForAReason'
  BY <1>6 DEF RemoveFile, Answer, Goto
<1> QED
  BY <1>1, <1>2, <1>3, <1>4, <1>5, <1>6, QuietSteps

\* An instance gets a second writer only by becoming shared.
LEMMA SoleWriterStep ==
  ASSUME TypeOK, Serving, SoleWriter, [Next]_vars
  PROVE  SoleWriter'
<1> USE DEF TypeOK, SoleWriter, Writes, disk
<1>1. CASE Quiet
  BY <1>1 DEF Quiet, Torn
<1>2. CASE ProcessEnds
  BY <1>2 DEF ProcessEnds, Torn
<1>3. ASSUME NEW t \in Threads, OpenExisting(t)
      PROVE  SoleWriter'
  BY <1>3, PathTypes DEF OpenExisting, Goto, Writer, Truncated, Torn, Blank
<1>4. ASSUME NEW t \in Threads, OpenCreates(t)
      PROVE  SoleWriter'
  BY <1>4, PathTypes DEF OpenCreates, Goto, Writer, Free, Truncated, Torn, Blank
<1>5. ASSUME NEW t \in Threads, WriteClose(t)
      PROVE  SoleWriter'
  BY <1>5 DEF WriteClose, CloseFd, Answer, Goto, Overlay, Torn, Blank
<1>6. ASSUME NEW t \in Threads, RemoveFile(t)
      PROVE  SoleWriter'
  BY <1>6 DEF RemoveFile, Answer, Goto, Torn
<1> QED
  BY <1>1, <1>2, <1>3, <1>4, <1>5, <1>6, QuietSteps

----------------------------------------------------------------------------
\* A directory that holds an instance is never removed.
LEMMA HousedStep ==
  ASSUME TypeOK, Serving, Housed, [Next]_vars
  PROVE  Housed'
<1> USE DEF Housed, disk
<1>1. CASE UNCHANGED <<dirs, link>>
  BY <1>1
<1>2. ASSUME NEW t \in Threads, WriteMkdir(t)
      PROVE  Housed'
  BY <1>2 DEF WriteMkdir
<1>3. ASSUME NEW t \in Threads, OpenCreates(t)
      PROVE  Housed'
  BY <1>3, PathTypes DEF OpenCreates, Path, Paths, TypeOK
<1>4. ASSUME NEW t \in Threads, RemoveFile(t)
      PROVE  Housed'
  BY <1>4 DEF RemoveFile, TypeOK, Path, Paths
<1>5. ASSUME NEW t \in Threads, RemoveDir(t)
      PROVE  Housed'
  BY <1>5 DEF RemoveDir, Linked
<1> QED
  BY <1>1, <1>2, <1>3, <1>4, <1>5 DEF Next, Step, vars, Signal, Restart, ProcessEnds,
     Receive, Reject, OtherMethod, PostLookup, Probe, PutLookup, WriteParent,
     OpenFails, OpenExisting, WriteClose, GetLookup, ReadOpen, ReadAll, ListLookup,
     ListFiles, ListThrows, DeleteLookup, RemoveGone, RemoveThrows

\* Requests enter one at a time; a step only keeps or drops them.
LEMMA RequestsKept ==
  ASSUME TypeOK, NEW t \in Threads, Step(t), NEW u \in Threads, pc'[u] # "idle"
  PROVE  pc[u] # "idle" /\ req'[u] = req[u]
BY DEF TypeOK, Step, Begins, Goto, Answer, ProcessEnds,
     Reject, OtherMethod, PostLookup, Probe, PutLookup, WriteParent, WriteMkdir,
     OpenFails, OpenExisting, OpenCreates, WriteClose, GetLookup, ReadOpen, ReadAll,
     ListLookup, ListFiles, ListThrows, DeleteLookup, RemoveFile, RemoveDir,
     RemoveGone, RemoveThrows

\* Disciplined clients keep conflicting requests apart.
LEMMA ExclusiveStep ==
  ASSUME TypeOK, Exclusive, [Next]_vars
  PROVE  Exclusive'
<1>1. CASE UNCHANGED vars
  BY <1>1 DEF vars, Exclusive
<1>2. CASE Signal \/ Restart
  BY <1>2 DEF Signal, Restart, ProcessEnds, Exclusive
<1>3. ASSUME NEW t \in Threads, NEW r \in Requests, Receive(t, r)
      PROVE  Exclusive'
  BY <1>3 DEF Receive, Exclusive, TypeOK, Goto, Conflict
<1>4. ASSUME NEW t \in Threads, Step(t)
      PROVE  Exclusive'
  BY <1>4, RequestsKept DEF Exclusive
<1> QED
  BY <1>1, <1>2, <1>3, <1>4 DEF Next

\* Only OpenCreates links an instance.
LEMMA LinkSteps ==
  ASSUME TypeOK, [Next]_vars, NEW p \in Paths, link'[p] # None, link[p] = None
  PROVE  \E u \in Threads : OpenCreates(u) /\ Path(u) = p
<1>1. ~Quiet /\ ~ProcessEnds
  BY DEF Quiet, ProcessEnds, disk
<1>2. ASSUME NEW t \in Threads, OpenExisting(t) \/ WriteClose(t) \/ RemoveFile(t)
      PROVE  FALSE
  BY <1>2 DEF OpenExisting, WriteClose, RemoveFile, TypeOK
<1>3. PICK u \in Threads : OpenCreates(u)
  BY <1>1, <1>2, QuietSteps
<1> QED
  BY <1>3 DEF OpenCreates, TypeOK

\* Nobody else links the path a POST settled on.
LEMMA PostFreeStep ==
  ASSUME TypeOK, Serving, Housed, Exclusive, PostFree, [Next]_vars
  PROVE  PostFree'
<1> DEFINE Settled(t) == req[t].method = "POST" /\ pc[t] \in {"w_parent", "w_mkdir", "w_open"}
<1> SUFFICES ASSUME Disciplined, NEW t \in Threads, Settled(t)'
             PROVE  (link[Path(t)])' = None
  BY DEF PostFree
<1>1. Path(t)' \in Paths
  <2>1. req'[t] \in Requests /\ id'[t] \in 1 .. MaxId
    BY ServingStep DEF Serving
  <2> QED
    BY <2>1, RequestFields DEF Path, Paths, Ids
\* The path was free before the step, and t was at work on it.
<1>2. /\ Path(t)' = Path(t) /\ link[Path(t)] = None
      /\ pc[t] # "idle" /\ req[t].method = "POST" /\ ~Rejected(req[t])
  <2>1. CASE UNCHANGED vars \/ Signal \/ Restart
    BY <2>1 DEF vars, Signal, Restart, ProcessEnds, PostFree, Path, Serving, Writer
  <2>2. ASSUME NEW u \in Threads, NEW r \in Requests, Receive(u, r)
        PROVE  pc[t] = pc'[t] /\ req[t] = req'[t] /\ id[t] = id'[t]
    BY <2>2 DEF Receive, Goto, TypeOK
  <2>3. ASSUME NEW u \in Threads \ {t}, Step(u)
        PROVE  pc[t] = pc'[t] /\ req[t] = req'[t] /\ id[t] = id'[t]
    BY <2>3 DEF TypeOK, Step, Begins, Goto, Answer, ProcessEnds,
         Reject, OtherMethod, PostLookup, Probe, PutLookup, WriteParent, WriteMkdir,
         OpenFails, OpenExisting, OpenCreates, WriteClose, GetLookup, ReadOpen,
         ReadAll, ListLookup, ListFiles, ListThrows, DeleteLookup, RemoveFile,
         RemoveDir, RemoveGone, RemoveThrows
  <2>4. CASE pc[t] = pc'[t] /\ req[t] = req'[t] /\ id[t] = id'[t]
    BY <2>4 DEF PostFree, Path, Serving, Writer
  <2>5. CASE PostLookup(t)
    <3>1. req[t].form # "id" /\ req[t].entity \notin dirs
      BY <2>5 DEF PostLookup, Begins, FileExists, Rejected, IsId, Goto, TypeOK
    <3>2. req[t].entity \in Entities /\ id[t] \in Ids
      BY <2>5, RequestFields, ConstantsAssumption DEF PostLookup, Begins, Serving, Ids
    <3> QED
      BY <2>5, <3>1, <3>2 DEF PostLookup, Begins, Housed, Path
  <2>6. CASE Probe(t)
    BY <2>6 DEF Probe, Goto, TypeOK, Path, Serving
  <2>7. CASE WriteParent(t) \/ WriteMkdir(t)
    BY <2>7 DEF WriteParent, WriteMkdir, Goto, TypeOK, PostFree, Path, Serving, Writer
  <2>8. ASSUME Step(t) PROVE PostLookup(t) \/ Probe(t) \/ WriteParent(t) \/ WriteMkdir(t)
    BY <2>8 DEF TypeOK, Step, Begins, Goto, Answer, ProcessEnds,
         Reject, OtherMethod, PutLookup,
         OpenFails, OpenExisting, OpenCreates, WriteClose, GetLookup, ReadOpen,
         ReadAll, ListLookup, ListFiles, ListThrows, DeleteLookup, RemoveFile,
         RemoveDir, RemoveGone, RemoveThrows
  <2> QED
    BY <2>1, <2>2, <2>3, <2>4, <2>5, <2>6, <2>7, <2>8 DEF Next
\* Whoever links it now conflicts with t.
<1>3. ASSUME link'[Path(t)] # None
      PROVE  FALSE
  <2>1. PICK u \in Threads : OpenCreates(u) /\ Path(u) = Path(t)
    BY <1>1, <1>2, <1>3, LinkSteps
  <2>2. u # t
    BY <2>1 DEF OpenCreates, Goto, TypeOK
  <2>3. /\ pc[u] # "idle" /\ req[u].method \in {"POST", "PUT"}
        /\ req[u].entity = req[t].entity
    BY <2>1 DEF OpenCreates, Serving, Writer, Path
  <2>4. Conflict(req[t], req[u])
    BY <1>2, <2>3 DEF Conflict, Rejected, IsId
  <2> QED
    BY <1>2, <2>2, <2>3, <2>4 DEF Exclusive
<1> QED
  BY <1>2, <1>3

----------------------------------------------------------------------------
(* The theorems.                                                           *)

LEMMA InitIInv == Init => IInv
<1> SUFFICES ASSUME Init PROVE IInv
  OBVIOUS
<1>1. TypeOK
  BY ResponseTypes DEF Init, TypeOK, Labels, Codes
<1>2. SoleWriter
  BY DEF Init, SoleWriter, Writes, Torn, Blank
<1>3. EmptyForAReason /\ Housed
  BY DEF Init, EmptyForAReason, Housed, Paths
<1>4. Serving /\ Exclusive /\ PostFree
  BY DEF Init, Serving, Exclusive, PostFree
<1> QED
  BY <1>1, <1>2, <1>3, <1>4 DEF IInv

LEMMA StepIInv == IInv /\ [Next]_vars => IInv'
BY TypeStep, ServingStep, EmptyStep, SoleWriterStep, HousedStep, ExclusiveStep,
   PostFreeStep DEF IInv

\* IInv is inductive.
THEOREM Inductive == Spec => []IInv
BY InitIInv, StepIInv, PTL DEF Spec

\* Every variable keeps its type and no request leaks a stream.
THEOREM TypeCorrect == Spec => []TypeOK
<1>1. IInv => TypeOK
  BY DEF IInv
<1> QED
  BY <1>1, Inductive, PTL

\* An instance without contents is being written, or a crash cut its writer, or
\* the body written to it last is empty: contents are never lost otherwise.
THEOREM EmptyIsAccountedFor == Spec => []EmptyForAReason
<1>1. IInv => EmptyForAReason
  BY DEF IInv
<1> QED
  BY <1>1, Inductive, PTL

\* Two requests must overlap in write_file to leave a mixture of their bodies.
THEOREM TornNeedsOverlap == Spec => []TornOnlyByOverlap
<1>1. IInv => TornOnlyByOverlap
  BY DEF IInv, TypeOK, SoleWriter, TornOnlyByOverlap
<1> QED
  BY <1>1, Inductive, PTL

\* Clients that keep conflicting requests apart never see POST overwrite.
THEOREM PostCreates == ASSUME Disciplined PROVE Spec => PostNeverOverwrites
<1>1. IInv /\ [Next]_vars =>
        [\A t \in Threads :
           req[t].method = "POST" /\ pc[t] = "w_open" /\ pc'[t] = "w_write" =>
             link[Path(t)] = None]_vars
  BY DEF IInv, PostFree
<1> QED
  BY <1>1, Inductive, PTL DEF Spec, PostNeverOverwrites

----------------------------------------------------------------------------
(* CrudHandler implements CrudStore, under the assumptions of Calm: first  *)
(* the invariant it takes, which is the one above and more.                *)

\* Clients keep conflicting requests apart and send requests the two agree on,
\* and no signal ends the process.
Calm == Disciplined /\ ~Signals /\ Agreed

\* What thread t has found out about its request, and nobody has changed since.
Informed(t) ==
  /\ pc[t] \notin {"idle", "start"} => ~Rejected(req[t])
  /\ pc[t] = "start" /\ req[t].method = "POST" => id[t] = 1
  /\ req[t].method = "POST" /\ pc[t] \in {"probe", "w_parent", "w_mkdir"} =>
       \A j \in 1 .. MaxId : j < id[t] => link[<<req[t].entity, j>>] # None
  /\ req[t].method = "PUT" /\ pc[t] \in {"w_parent", "w_mkdir"} =>
       ans[t] = Status(PutStatus(link[Path(t)] # None))
  /\ pc[t] \in {"w_open", "w_write", "list"} => req[t].entity \in dirs
  /\ pc[t] = "w_write" => fd[t] = link[Path(t)] /\ data[fd[t]] = Blank
  /\ pc[t] = "r_open" => link[Path(t)] # None
  /\ pc[t] = "r_read" => fd[t] = link[Path(t)]
  /\ pc[t] = "list" => req[t].method = "GET" /\ req[t].form # "id"
  /\ pc[t] = "remove" =>
       req[t].method = "DELETE" /\ req[t].form = "id" /\ link[Path(t)] # None

\* No instance has two paths.
OnePath == \A p, q \in Paths : link[p] # None /\ link[p] = link[q] => p = q

\* An instance nobody writes holds one whole body.
Whole ==
  \A p \in Paths : link[p] # None =>
    \/ \E v \in Values : data[link[p]] = Fresh(v)
    \/ \E t \in Threads : pc[t] = "w_write" /\ Path(t) = p

RInv == IInv /\ up /\ (\A t \in Threads : Informed(t)) /\ OnePath /\ Whole

----------------------------------------------------------------------------
(* Who steps, and what the others notice of it.                            *)

\* The steps thread t can take while all is calm.
Acts(t) ==
  \/ \E r \in Requests : Receive(t, r)
  \/ Reject(t) \/ OtherMethod(t)
  \/ PostLookup(t) \/ Probe(t) \/ PutLookup(t)
  \/ WriteParent(t) \/ WriteMkdir(t)
  \/ OpenExisting(t) \/ OpenCreates(t) \/ WriteClose(t)
  \/ GetLookup(t) \/ ReadOpen(t) \/ ReadAll(t)
  \/ ListLookup(t) \/ ListFiles(t) \/ DeleteLookup(t) \/ RemoveFile(t)

\* A thread that works on an instance has a path to one.
LEMMA AtAnInstance ==
  ASSUME Calm, RInv, NEW t \in Threads,
         pc[t] \in {"probe", "r_open", "r_read", "remove"} \cup Writer
  PROVE  /\ Path(t) \in Paths /\ Path(t) = <<req[t].entity, id[t]>>
         /\ req[t] \in Requests /\ req[t].entity \in Entities /\ id[t] \in Ids
         /\ req[t].form # "slash" \/ pc[t] = "probe"
         /\ ~Rejected(req[t])
<1>1. TypeOK /\ Serving /\ Informed(t)
  BY DEF RInv, IInv
<1>2. req[t] \in Requests /\ ~Rejected(req[t])
  BY <1>1 DEF Serving, Informed, Writer
<1>3. pc[t] \in Writer => req[t].form # "slash"
  BY <1>1, <1>2 DEF Serving, Calm, Agreed, Rejected, IsId, Writer
<1>4. CASE pc[t] = "remove"
  <2>1. req[t].form = "id" /\ id[t] = req[t].id
    BY <1>1, <1>4 DEF Serving, Informed
  <2> QED
    BY <1>2, <2>1, RequestFields DEF Path, Paths
<1>5. CASE pc[t] # "remove"
  <2>1. Path(t) \in Paths /\ req[t].entity \in Entities /\ id[t] \in Ids
    BY <1>1, <1>3, <1>5, PathTypes
  <2>2. pc[t] \in {"r_open", "r_read"} => req[t].form = "id"
    BY <1>1 DEF Serving
  <2> QED
    BY <1>2, <1>3, <1>5, <2>1, <2>2 DEF Path
<1> QED
  BY <1>4, <1>5

\* Only these steps happen: no request finds its file or its directory gone.
LEMMA OnlyThreads ==
  ASSUME Calm, RInv, [Next]_vars
  PROVE  UNCHANGED vars \/ \E t \in Threads : Acts(t)
<1>1. up /\ ~Signals
  BY DEF RInv, Calm
<1>2. ~Signal /\ ~Restart
  BY <1>1 DEF Signal, Restart
<1>3. ASSUME NEW t \in Threads, Step(t)
      PROVE  Acts(t)
  <2>1. Informed(t)
    BY DEF RInv
  <2>2. ~OpenFails(t)
    BY <2>1, AtAnInstance DEF OpenFails, Informed, Writer
  <2>3. ~ListThrows(t)
    BY <2>1 DEF ListThrows, Informed
  <2>4. ~RemoveDir(t) /\ ~RemoveThrows(t)
    BY <2>1 DEF RemoveDir, RemoveThrows, Informed
  <2>5. ~RemoveGone(t)
    BY <2>1 DEF RemoveGone, Informed, FileExists
  <2> QED
    BY <1>3, <2>2, <2>3, <2>4, <2>5 DEF Step, Acts
<1> QED
  BY <1>2, <1>3 DEF Next, Acts

\* A thread's step leaves the others where they are, the process up and every
\* directory in place.
LEMMA OthersStay ==
  ASSUME TypeOK, NEW t \in Threads, Acts(t)
  PROVE  /\ \A u \in Threads \ {t} :
              /\ pc'[u] = pc[u] /\ req'[u] = req[u] /\ id'[u] = id[u]
              /\ fd'[u] = fd[u] /\ ans'[u] = ans[u]
         /\ up' = up /\ dirs \subseteq dirs'
BY DEF TypeOK, Acts, Receive, Begins, Goto, Answer, disk, CloseFd,
     Reject, OtherMethod, PostLookup, Probe, PutLookup, WriteParent, WriteMkdir,
     OpenExisting, OpenCreates, WriteClose, GetLookup, ReadOpen,
     ReadAll, ListLookup, ListFiles, DeleteLookup, RemoveFile

\* Which steps change what the disk holds, and where.
LEMMA DiskChanges ==
  ASSUME TypeOK, NEW t \in Threads, Acts(t)
  PROVE  /\ \A p \in Paths : link'[p] # link[p] =>
              (OpenCreates(t) \/ RemoveFile(t)) /\ p = Path(t)
         /\ \A i \in Inodes : data'[i] # data[i] =>
              \/ OpenExisting(t) /\ i = link[Path(t)]
              \/ OpenCreates(t) /\ i = fd'[t]
              \/ WriteClose(t) /\ i = fd[t]
<1>1. CASE OpenExisting(t) \/ OpenCreates(t) \/ WriteClose(t) \/ RemoveFile(t)
  BY <1>1 DEF TypeOK, OpenExisting, OpenCreates, WriteClose, RemoveFile
<1>2. CASE ~(OpenExisting(t) \/ OpenCreates(t) \/ WriteClose(t) \/ RemoveFile(t))
  <2>1. UNCHANGED <<link, data>>
    BY <1>2 DEF Acts, Receive, disk,
         Reject, OtherMethod, PostLookup, Probe, PutLookup, WriteParent, WriteMkdir,
         GetLookup, ReadOpen, ReadAll, ListLookup, ListFiles, DeleteLookup
  <2> QED
    BY <2>1
<1> QED
  BY <1>1, <1>2

\* Requests that are being served beside a writer work elsewhere.
LEMMA Apart ==
  ASSUME Calm, RInv, NEW t \in Threads, NEW u \in Threads, t # u,
         pc[t] \in Writer \cup {"remove"}, pc[u] \notin {"idle", "start"}
  PROVE  /\ Path(t) # Path(u)
         /\ req[t].entity = req[u].entity =>
              /\ req[t].method # "POST" /\ req[u].method # "POST"
              /\ req[u].form = "id"
<1>1. /\ Serving /\ Exclusive /\ Informed(t) /\ Informed(u)
  BY DEF RInv, IInv
<1>2. ~Conflict(req[t], req[u])
  BY <1>1 DEF Exclusive, Calm, Writer
<1>3. req[t].method \in {"POST", "PUT", "DELETE"}
  BY <1>1 DEF Serving, Informed, Writer
<1>4. ~Rejected(req[t]) /\ ~Rejected(req[u])
  BY <1>1 DEF Informed, Writer
<1>5. CASE req[t].entity # req[u].entity
  BY <1>5 DEF Path
<1>6. CASE req[t].entity = req[u].entity
  <2>1. req[t].form = "id" /\ req[u].form = "id" /\ req[t].id # req[u].id
    BY <1>2, <1>3, <1>6 DEF Conflict
  <2>2. req[t].method # "POST" /\ req[u].method # "POST"
    BY <1>4, <2>1 DEF Rejected, IsId
  <2>3. id[t] = req[t].id /\ id[u] = req[u].id
    BY <1>1, <2>2 DEF Serving, Writer
  <2> QED
    BY <2>1, <2>2, <2>3 DEF Path
<1> QED
  BY <1>5, <1>6

----------------------------------------------------------------------------
(* The invariant is preserved.                                             *)

\* Nobody changes the instance another thread works on, or what it found there.
LEMMA OthersInformed ==
  ASSUME Calm, RInv, NEW t \in Threads, Acts(t), NEW u \in Threads \ {t}
  PROVE  Informed(u)'
<1>1. /\ TypeOK /\ Informed(u) /\ Informed(t) /\ OnePath /\ Exclusive
  BY DEF RInv, IInv
<1>2. /\ pc'[u] = pc[u] /\ req'[u] = req[u] /\ id'[u] = id[u]
      /\ fd'[u] = fd[u] /\ ans'[u] = ans[u]
      /\ dirs \subseteq dirs' /\ Path(u)' = Path(u)
  BY <1>1, OthersStay DEF Path
<1>3. OpenCreates(t) \/ RemoveFile(t) \/ OpenExisting(t) \/ WriteClose(t) =>
        pc[t] \in Writer \cup {"remove"}
  BY DEF OpenCreates, RemoveFile, OpenExisting, WriteClose, Writer
<1>4. pc[u] \in {"r_open", "r_read", "remove"} \cup Writer => link'[Path(u)] = link[Path(u)]
  BY <1>1, <1>3, AtAnInstance, Apart, DiskChanges DEF Writer
<1>5. ASSUME req[u].method = "POST", pc[u] \in {"probe", "w_parent", "w_mkdir"},
             NEW j \in 1 .. MaxId, j < id[u]
      PROVE  link'[<<req[u].entity, j>>] # None
  <2>1. link[<<req[u].entity, j>>] # None
    BY <1>1, <1>5 DEF Informed
  <2>2. <<req[u].entity, j>> \in Paths
    BY <1>5, AtAnInstance DEF Paths, Ids, Writer
  <2>3. ~(RemoveFile(t) /\ Path(t) = <<req[u].entity, j>>)
    BY <1>3, <1>5, Apart DEF Path
  <2>4. ~OpenCreates(t) \/ Path(t) # <<req[u].entity, j>>
    BY <2>1 DEF OpenCreates
  <2> QED
    BY <1>1, <2>1, <2>2, <2>3, <2>4, DiskChanges
<1>6. ASSUME pc[u] = "w_write"
      PROVE  fd[u] = link'[Path(u)] /\ data'[fd[u]] = Blank
  <2>1. /\ fd[u] = link[Path(u)] /\ data[fd[u]] = Blank /\ link'[Path(u)] = link[Path(u)]
        /\ Path(u) \in Paths /\ fd[u] \in Inodes
    BY <1>1, <1>4, <1>6, AtAnInstance DEF Informed, Writer, TypeOK
  <2>2. OpenExisting(t) => link[Path(t)] # fd[u]
    BY <1>1, <1>3, <1>6, <2>1, Apart, AtAnInstance DEF OnePath, OpenExisting, Writer
  <2>3. OpenCreates(t) => fd'[t] # fd[u]
    BY <1>1 DEF OpenCreates, Free, TypeOK
  <2>4. WriteClose(t) => fd[t] # fd[u]
    <3>1. WriteClose(t) => fd[t] = link[Path(t)] /\ Path(t) \in Paths
      BY <1>1, AtAnInstance DEF Informed, WriteClose, Writer
    <3> QED
      BY <1>1, <1>3, <1>6, <2>1, <3>1, Apart DEF OnePath, TypeOK
  <2> QED
    BY <1>1, <2>1, <2>2, <2>3, <2>4, DiskChanges
<1> QED
  BY <1>1, <1>2, <1>4, <1>5, <1>6 DEF Informed, Writer, Rejected, IsId

\* A thread's own step checks what it relies on next.
LEMMA ActorInformed ==
  ASSUME Calm, RInv, NEW t \in Threads, Acts(t)
  PROVE  Informed(t)'
<1>1. TypeOK /\ Serving /\ Informed(t) /\ OnePath
  BY DEF RInv, IInv
<1> USE <1>1 DEF TypeOK, Goto, disk
<1>2. ASSUME NEW r \in Requests, Receive(t, r)
      PROVE  Informed(t)'
  BY <1>2 DEF Receive, Informed
<1>3. ASSUME pc'[t] = "idle"
      PROVE  Informed(t)'
  BY <1>3 DEF Informed
<1>4. CASE PostLookup(t)
  BY <1>4 DEF PostLookup, Begins, Informed, Rejected, IsId
<1>5. CASE Probe(t)
  <2>1. req[t].method = "POST" /\ id[t] \in 1 .. MaxId /\ link[Path(t)] = link[<<req[t].entity, id[t]>>]
    BY <1>5 DEF Probe, Serving, Path
  <2>2. \A j \in 1 .. MaxId : j < id[t] => link[<<req[t].entity, j>>] # None
    BY <1>5, <2>1 DEF Probe, Informed
  <2>3. /\ req' = req /\ link' = link
        /\ \/ pc' = pc /\ id'[t] = id[t] + 1 /\ link[Path(t)] # None
           \/ pc'[t] = "w_parent" /\ id' = id
    BY <1>5 DEF Probe, NextId
  <2>4. \A j \in 1 .. MaxId : j < id'[t] => link[<<req[t].entity, j>>] # None
    <3>1. \A j \in 1 .. MaxId : j < id[t] + 1 => j < id[t] \/ j = id[t]
      BY <2>1
    <3> QED
      BY <2>1, <2>2, <2>3, <3>1
  <2>5. ~Rejected(req[t]) /\ pc[t] = "probe"
    BY <1>5 DEF Probe, Informed
  <2> QED
    BY <2>1, <2>3, <2>4, <2>5 DEF Informed, Rejected, IsId
<1>6. CASE PutLookup(t)
  <2>1. req[t].method = "PUT" /\ ~Rejected(req[t]) /\ req[t] \in Requests
    BY <1>6 DEF PutLookup, Begins, Serving
  <2>2. req[t].form = "id"
    BY <2>1 DEF Calm, Agreed, Rejected, IsId
  <2>3. /\ pc'[t] = "w_parent" /\ req' = req /\ id' = id /\ link' = link
        /\ ans'[t] = Status(PutStatus(FileExists(t)))
    BY <1>6 DEF PutLookup
  <2>4. FileExists(t) = (link[Path(t)] # None)
    BY <2>2 DEF FileExists
  <2> QED
    BY <2>1, <2>3, <2>4 DEF Informed, Path, Rejected, IsId
<1>7. CASE WriteParent(t)
  BY <1>7 DEF WriteParent, Informed, Path, Rejected, IsId
<1>8. CASE WriteMkdir(t)
  BY <1>8 DEF WriteMkdir, Informed, Rejected, IsId
<1>9. CASE OpenExisting(t) \/ OpenCreates(t)
  <2>1. Path(t) \in Paths /\ req[t].entity \in dirs /\ ~Rejected(req[t]) /\ pc[t] = "w_open"
    BY <1>9, AtAnInstance DEF OpenExisting, OpenCreates, Writer, Informed
  <2>2. /\ pc'[t] = "w_write" /\ req' = req /\ id' = id /\ dirs' = dirs
        /\ fd'[t] = link'[Path(t)] /\ data'[fd'[t]] = Blank
    BY <1>9, <2>1, ConstantsAssumption DEF OpenExisting, OpenCreates, Truncated
  <2> QED
    BY <2>1, <2>2 DEF Informed, Path, Rejected, IsId
<1>10. CASE GetLookup(t)
  <2>1. pc[t] = "start" /\ ~Rejected(req[t]) /\ req[t].form = "id" /\ req[t].method = "GET"
    BY <1>10 DEF GetLookup, Begins, StoiAccepts
  <2> QED
    BY <1>10, <2>1 DEF GetLookup, Answer, Informed, FileExists, Path, Rejected, IsId
<1>11. CASE ReadOpen(t)
  BY <1>11 DEF ReadOpen, Answer, Informed, Path, Rejected, IsId
<1>12. CASE ListLookup(t)
  <2>1. /\ pc[t] = "start" /\ ~Rejected(req[t]) /\ req[t].method = "GET"
        /\ req[t] \in Requests /\ ~StoiAccepts(req[t])
    BY <1>12 DEF ListLookup, Begins, Serving
  <2>2. req[t].form # "id"
    BY <2>1 DEF Calm, Agreed, StoiAccepts
  <2> QED
    BY <1>12, <2>1, <2>2 DEF ListLookup, Answer, Informed, FileExists, Rejected, IsId
<1>13. CASE DeleteLookup(t)
  <2>1. /\ pc[t] = "start" /\ ~Rejected(req[t]) /\ req[t].method = "DELETE"
        /\ req[t] \in Requests
    BY <1>13 DEF DeleteLookup, Begins, Serving
  <2>2. req[t].form = "id"
    BY <2>1 DEF Calm, Agreed, Rejected, IsId
  <2> QED
    BY <1>13, <2>1, <2>2 DEF DeleteLookup, Answer, Informed, FileExists, Path, Rejected, IsId
<1>14. CASE \/ Reject(t) \/ OtherMethod(t) \/ WriteClose(t) \/ ReadAll(t)
            \/ ListFiles(t) \/ RemoveFile(t)
  <2>1. pc'[t] = "idle"
    BY <1>14 DEF Reject, OtherMethod, WriteClose, ReadAll, ListFiles, RemoveFile, Answer
  <2> QED
    BY <1>3, <2>1
<1> QED
  BY <1>2, <1>4, <1>5, <1>6, <1>7, <1>8, <1>9, <1>10, <1>11, <1>12, <1>13, <1>14 DEF Acts

\* A new instance gets an inode no path and no thread has.
LEMMA OnePathStep ==
  ASSUME Calm, RInv, NEW t \in Threads, Acts(t)
  PROVE  OnePath'
<1>1. TypeOK /\ OnePath
  BY DEF RInv, IInv
<1>2. CASE OpenCreates(t)
  BY <1>1, <1>2 DEF OpenCreates, OnePath, Free, TypeOK
<1>3. CASE RemoveFile(t)
  BY <1>1, <1>3 DEF RemoveFile, OnePath, TypeOK
<1>4. CASE ~OpenCreates(t) /\ ~RemoveFile(t)
  BY <1>1, <1>4, DiskChanges DEF OnePath
<1> QED
  BY <1>2, <1>3, <1>4

\* An instance is written whole, and left alone otherwise.
LEMMA WholeStep ==
  ASSUME Calm, RInv, NEW t \in Threads, Acts(t)
  PROVE  Whole'
<1>1. TypeOK /\ Serving /\ OnePath /\ Whole /\ Informed(t)
  BY DEF RInv, IInv
<1> SUFFICES ASSUME NEW p \in Paths, link'[p] # None,
                    \A u \in Threads : ~(pc'[u] = "w_write" /\ Path(u)' = p)
             PROVE  \E v \in Values : data'[link'[p]] = Fresh(v)
  BY DEF Whole
<1>2. CASE OpenExisting(t) \/ OpenCreates(t)
  <2>1. Path(t)' = Path(t) /\ pc'[t] = "w_write"
    BY <1>1, <1>2 DEF OpenExisting, OpenCreates, Goto, Path, TypeOK
  <2>2. p # Path(t) /\ Path(t) \in Paths
    BY <1>2, <2>1, AtAnInstance DEF OpenExisting, OpenCreates, Writer
  <2>3. link'[p] = link[p] /\ link[p] \in Inodes
    BY <1>1, <2>2, DiskChanges DEF TypeOK
  <2>4. data'[link[p]] = data[link[p]]
    <3>1. OpenExisting(t) => link[p] # link[Path(t)]
      BY <1>1, <2>2, <2>3 DEF OnePath, OpenExisting
    <3>2. OpenCreates(t) => link[p] # fd'[t]
      BY <1>1, <2>3 DEF OpenCreates, Free, TypeOK
    <3> QED
      BY <1>1, <1>2, <2>3, <3>1, <3>2, DiskChanges DEF OpenExisting, OpenCreates, WriteClose
  <2>5. \A u \in Threads : ~(pc[u] = "w_write" /\ Path(u) = p)
    BY <1>1, <1>2, <2>2, OthersStay DEF Path, OpenExisting, OpenCreates
  <2> QED
    BY <1>1, <2>3, <2>4, <2>5 DEF Whole
<1>3. CASE WriteClose(t)
  <2>1. /\ Path(t) \in Paths /\ fd[t] = link[Path(t)] /\ data[fd[t]] = Blank
        /\ req[t].value \in Values /\ link' = link
    BY <1>1, <1>3, AtAnInstance, RequestFields DEF WriteClose, Informed, Writer
  <2>2. CASE p = Path(t)
    BY <1>1, <1>3, <2>1, <2>2 DEF WriteClose, TypeOK, Fresh
  <2>3. CASE p # Path(t)
    <3>1. data'[link[p]] = data[link[p]]
      BY <1>1, <1>3, <2>1, <2>3 DEF WriteClose, TypeOK, OnePath
    <3>2. \A u \in Threads : ~(pc[u] = "w_write" /\ Path(u) = p)
      BY <1>1, <2>3, OthersStay DEF Path
    <3> QED
      BY <1>1, <2>1, <3>1, <3>2 DEF Whole
  <2> QED
    BY <2>2, <2>3
<1>4. CASE ~(OpenExisting(t) \/ OpenCreates(t) \/ WriteClose(t))
  <2>1. link'[p] = link[p] /\ data'[link[p]] = data[link[p]]
    <3>1. link'[p] = link[p]
      BY <1>1, <1>4, DiskChanges DEF RemoveFile, TypeOK
    <3>2. \A i \in Inodes : data'[i] = data[i]
      BY <1>1, <1>4, DiskChanges
    <3> QED
      BY <1>1, <3>1, <3>2 DEF TypeOK
  <2>2. \A u \in Threads : ~(pc[u] = "w_write" /\ Path(u) = p)
    <3>1. pc[t] # "w_write"
      BY <1>4 DEF Acts, Receive, Begins,
         Reject, OtherMethod, PostLookup, Probe, PutLookup, WriteParent, WriteMkdir,
         GetLookup, ReadOpen, ReadAll, ListLookup, ListFiles, DeleteLookup, RemoveFile
    <3> QED
      BY <1>1, <3>1, OthersStay DEF Path
  <2> QED
    BY <1>1, <2>1, <2>2 DEF Whole
<1> QED
  BY <1>2, <1>3, <1>4

\* The invariant holds, the one of CrudProofs and what calm adds to it.
LEMMA RInvHolds == ASSUME Calm PROVE Spec => []RInv
<1>1. Init => RInv
  <2> SUFFICES ASSUME Init PROVE RInv
    OBVIOUS
  <2>1. IInv
    BY InitIInv
  <2>2. up /\ OnePath /\ Whole
    BY DEF Init, OnePath, Whole
  <2>3. \A t \in Threads : Informed(t)
    BY DEF Init, Informed
  <2> QED
    BY <2>1, <2>2, <2>3 DEF RInv
<1>2. RInv /\ [Next]_vars => RInv'
  <2> SUFFICES ASSUME RInv, [Next]_vars PROVE RInv'
    OBVIOUS
  <2>1. IInv'
    BY StepIInv DEF RInv
  <2>2. CASE UNCHANGED vars
    BY <2>1, <2>2 DEF RInv, vars, disk, Informed, OnePath, Whole, Path, Rejected, IsId
  <2>3. ASSUME NEW t \in Threads, Acts(t)
        PROVE  RInv'
    <3>1. up'
      BY <2>3, OthersStay DEF RInv, IInv
    <3>2. \A u \in Threads : Informed(u)'
      BY <2>3, OthersInformed, ActorInformed
    <3>3. OnePath' /\ Whole'
      BY <2>3, OnePathStep, WholeStep
    <3> QED
      BY <2>1, <3>1, <3>2, <3>3 DEF RInv
  <2> QED
    BY <2>2, <2>3, OnlyThreads
<1> QED
  BY <1>1, <1>2, PTL DEF Spec

----------------------------------------------------------------------------
(* The store the mapping shows.                                            *)

\* Bodies without its CHOOSE: a committed request has its body stored already,
\* elsewhere the disk counts.
BodiesFaithful ==
  /\ \A t \in Threads : Committed(t) => Bodies[Path(t)] = req[t].value
  /\ \A p \in Paths :
       (\A t \in Threads : ~(Committed(t) /\ Path(t) = p)) =>
         /\ Bodies[p] = Stored(p)
         /\ link[p] # None => \E v \in Values : data[link[p]] = Fresh(v) /\ Stored(p) = v

LEMMA BodiesAre == ASSUME Calm PROVE RInv => BodiesFaithful
<1> SUFFICES ASSUME RInv PROVE BodiesFaithful
  OBVIOUS
<1>1. ASSUME NEW t \in Threads, Committed(t)
      PROVE  Bodies[Path(t)] = req[t].value
  <2>1. Path(t) \in Paths /\ pc[t] \in Writer
    BY <1>1, AtAnInstance DEF Committed, Writer
  <2>2. \A u \in Threads : Committed(u) /\ Path(u) = Path(t) => u = t
    BY <2>1, Apart DEF Committed
  <2> QED
    BY <1>1, <2>1, <2>2 DEF Bodies
<1>2. ASSUME NEW p \in Paths, \A t \in Threads : ~(Committed(t) /\ Path(t) = p)
      PROVE  /\ Bodies[p] = Stored(p)
             /\ link[p] # None => \E v \in Values : data[link[p]] = Fresh(v) /\ Stored(p) = v
  <2>1. Bodies[p] = Stored(p)
    BY <1>2 DEF Bodies
  <2>2. ASSUME link[p] # None
        PROVE  \E v \in Values : data[link[p]] = Fresh(v) /\ Stored(p) = v
    <3>1. PICK v \in Values : data[link[p]] = Fresh(v)
      BY <1>2, <2>2 DEF RInv, Whole, Committed
    <3> QED
      BY <2>2, <3>1, FreshBodies DEF Stored
  <2> QED
    BY <2>1, <2>2
<1> QED
  BY <1>1, <1>2 DEF BodiesFaithful

LEMMA BodiesAreNext == ASSUME Calm PROVE RInv' => BodiesFaithful'
BY BodiesAre, PTL

\* The body at a path stays when nobody commits or withdraws one there and the
\* disk, where it counts, is the same.
LEMMA BodyStays ==
  ASSUME Calm, RInv, RInv', NEW p \in Paths,
         \A u \in Threads :
           /\ Committed(u) /\ Path(u) = p =>
                Committed(u)' /\ Path(u)' = p /\ req'[u] = req[u]
           /\ Committed(u)' /\ Path(u)' = p => Committed(u) /\ Path(u) = p,
         Stored(p)' = Stored(p) \/ \E u \in Threads : Committed(u) /\ Path(u) = p
  PROVE  Bodies'[p] = Bodies[p]
<1>1. CASE \E u \in Threads : Committed(u) /\ Path(u) = p
  <2>1. PICK u \in Threads : Committed(u) /\ Path(u) = p
    BY <1>1
  <2>2. Bodies[p] = req[u].value
    BY <2>1, BodiesAre DEF BodiesFaithful
  <2>3. Bodies'[p] = req'[u].value
    BY <2>1, BodiesAreNext DEF BodiesFaithful
  <2> QED
    BY <2>1, <2>2, <2>3
<1>2. CASE \A u \in Threads : ~(Committed(u) /\ Path(u) = p)
  <2>1. Bodies[p] = Stored(p)
    BY <1>2, BodiesAre DEF BodiesFaithful
  <2>2. Bodies'[p] = Stored(p)'
    BY <1>2, BodiesAreNext DEF BodiesFaithful
  <2> QED
    BY <1>2, <2>1, <2>2
<1> QED
  BY <1>1, <1>2

LEMMA BodiesFunction ==
  /\ Bodies = [p \in Paths |-> Bodies[p]]
  /\ Bodies' = [p \in Paths |-> Bodies'[p]]
BY DEF Bodies

\* While nobody commits or removes an instance, opening and writing files does
\* not change what is stored.
LEMMA BodiesStay ==
  ASSUME Calm, RInv, RInv', NEW t \in Threads, Acts(t), ~RemoveFile(t),
         Committed(t) \/ ~Committed(t)'
  PROVE  Bodies' = Bodies
<1>1. TypeOK /\ Serving /\ OnePath /\ Informed(t)
  BY DEF RInv, IInv
<1>2. \A u \in Threads \ {t} :
        (Committed(u)' <=> Committed(u)) /\ Path(u)' = Path(u) /\ req'[u] = req[u]
  BY <1>1, OthersStay DEF Committed, Path
<1> SUFFICES ASSUME NEW p \in Paths PROVE Bodies'[p] = Bodies[p]
  BY BodiesFunction
<1>3. CASE OpenExisting(t) \/ OpenCreates(t)
  <2>1. Committed(t) /\ Committed(t)' /\ Path(t)' = Path(t) /\ req' = req
    BY <1>1, <1>3 DEF OpenExisting, OpenCreates, Goto, TypeOK, Committed, Path
  <2>2. p # Path(t) => Stored(p)' = Stored(p)
    <3>1. Path(t) \in Paths /\ (p # Path(t) => link'[p] = link[p])
      BY <1>1, <1>3, AtAnInstance, DiskChanges DEF OpenExisting, OpenCreates, Writer
    <3>2. p # Path(t) /\ link[p] # None => data'[link[p]] = data[link[p]]
      BY <1>1, <1>3, <3>1 DEF OpenExisting, OpenCreates, Free, OnePath, TypeOK
    <3> QED
      BY <3>1, <3>2 DEF Stored
  <2> QED
    BY <1>2, <2>1, <2>2, BodyStays
<1>4. CASE WriteClose(t)
  <2>1. /\ Path(t) \in Paths /\ fd[t] = link[Path(t)] /\ data[fd[t]] = Blank
        /\ req[t].value \in Values /\ link' = link /\ Committed(t) /\ ~Committed(t)'
        /\ data'[fd[t]] = Fresh(req[t].value) /\ link[Path(t)] \in Inodes
    BY <1>1, <1>4, AtAnInstance, RequestFields
    DEF WriteClose, Informed, Writer, Committed, TypeOK, Answer, Goto, Fresh
  <2>2. CASE p = Path(t)
    <3>1. \A u \in Threads : ~(Committed(u)' /\ Path(u)' = p)
      BY <1>2, <2>1, <2>2, Apart DEF Committed, Writer
    <3>2. Bodies[p] = req[t].value
      BY <2>1, <2>2, BodiesAre DEF BodiesFaithful
    <3>3. Bodies'[p] = Stored(p)'
      BY <3>1, BodiesAreNext DEF BodiesFaithful
    <3>4. Stored(p)' = req[t].value
      <4>1. Stored(p)' = Body(Fresh(req[t].value))
        BY <2>1, <2>2, ConstantsAssumption DEF Stored
      <4> QED
        BY <2>1, <4>1, FreshBodies
    <3> QED
      BY <3>2, <3>3, <3>4
  <2>3. CASE p # Path(t)
    <3>1. Stored(p)' = Stored(p)
      BY <1>1, <1>4, <2>1, <2>3 DEF WriteClose, Stored, OnePath, TypeOK
    <3> QED
      BY <1>2, <2>1, <2>3, <3>1, BodyStays
  <2> QED
    BY <2>2, <2>3
<1>5. CASE ~(OpenExisting(t) \/ OpenCreates(t) \/ WriteClose(t))
  <2>1. Stored(p)' = Stored(p)
    <3>1. link'[p] = link[p] /\ (link[p] # None => data'[link[p]] = data[link[p]])
      BY <1>1, <1>5, DiskChanges DEF TypeOK
    <3> QED
      BY <3>1 DEF Stored
  <2>2. ~Committed(t)
    BY <1>1, <1>5 DEF Acts, Receive, Begins, Committed,
       Reject, OtherMethod, PostLookup, Probe, PutLookup, WriteParent, WriteMkdir,
       GetLookup, ReadOpen, ReadAll, ListLookup, ListFiles, DeleteLookup
  <2> QED
    BY <1>2, <2>1, <2>2, BodyStays
<1> QED
  BY <1>3, <1>4, <1>5

----------------------------------------------------------------------------
(* What the others see of a step, and how the answers look.                *)

LEMMA OthersSee ==
  ASSUME TypeOK, TypeOK', NEW t \in Threads, Acts(t)
  PROVE  /\ Phases' = [Phases EXCEPT ![t] = Phases'[t]]
         /\ Answers' = [Answers EXCEPT ![t] = Answers'[t]]
         /\ req' = [req EXCEPT ![t] = req'[t]]
<1>1. \A u \in Threads \ {t} :
        /\ pc'[u] = pc[u] /\ req'[u] = req[u] /\ id'[u] = id[u] /\ ans'[u] = ans[u]
  BY OthersStay
<1>2. \A u \in Threads \ {t} : Phases'[u] = Phases[u] /\ Answers'[u] = Answers[u]
  BY <1>1 DEF Phases, Answers, Committed, WriteReply
<1>3. /\ Phases = [u \in Threads |-> Phases[u]] /\ Phases' = [u \in Threads |-> Phases'[u]]
      /\ Answers = [u \in Threads |-> Answers[u]] /\ Answers' = [u \in Threads |-> Answers'[u]]
  BY DEF Phases, Answers
<1>4. req = [u \in Threads |-> req[u]] /\ req' = [u \in Threads |-> req'[u]]
  BY DEF TypeOK
<1> QED
  BY <1>1, <1>2, <1>3, <1>4

\* The answers of CrudHandler, seen as those of CrudStore.
LEMMA Views ==
  /\ \A k : View(Status(k)) = Store!Status(k)
  /\ \A i : View(Created(i)) = [Store!Status(201) EXCEPT !.id = i]
  /\ \A z : View(Listed(z)) = [Store!Status(200) EXCEPT !.ids = z]
  /\ \A v \in Values : View(Found(Fresh(v))) = [Store!Status(200) EXCEPT !.body = v]
<1>1. Body(Blank) = Empty /\ \A v \in Values : Body(Fresh(v)) = v
  BY FreshBodies
<1> QED
  BY <1>1 DEF View, Status, Created, Listed, Found, Reply, Store!Status

\* The code refuses what CrudStore refuses.
LEMMA RefusesAlike ==
  ASSUME Calm, NEW r \in Requests
  PROVE  Rejected(r) <=> Store!Refused(r)
BY RequestFields DEF Calm, Agreed, Rejected, IsId, Store!Refused

----------------------------------------------------------------------------
(* Every step of a thread is one of CrudStore or does not show.            *)

\* A step that stays within a request shows nothing of it.
LEMMA Unseen ==
  ASSUME Calm, RInv, RInv', NEW t \in Threads, Acts(t), ~RemoveFile(t),
         pc[t] # "idle", pc'[t] # "idle", Committed(t)' <=> Committed(t),
         req'[t] = req[t], dirs' = dirs,
         Committed(t) => ans'[t] = ans[t] /\ id'[t] = id[t]
  PROVE  UNCHANGED Store!vars
<1>1. TypeOK /\ TypeOK'
  BY DEF RInv, IInv
<1>2. Bodies' = Bodies
  BY BodiesStay
<1>3. Phases'[t] = Phases[t] /\ Answers'[t] = Answers[t]
  BY DEF Phases, Answers, Committed, WriteReply
<1>4. /\ Phases = [u \in Threads |-> Phases[u]]
      /\ Answers = [u \in Threads |-> Answers[u]]
      /\ req = [u \in Threads |-> req[u]]
  BY <1>1 DEF Phases, Answers, TypeOK
<1> QED
  BY <1>1, <1>2, <1>3, <1>4, OthersSee DEF Store!vars

\* A request that takes effect as it is answered.
LEMMA AnsweredAtOnce ==
  ASSUME Calm, RInv, RInv', NEW t \in Threads, Acts(t), NEW a,
         pc[t] # "idle", ~Committed(t), Answer(t, a)
  PROVE  /\ Phases[t] = "called" /\ Store!Serves(t, View(a))
         /\ ~RemoveFile(t) => Bodies' = Bodies
<1>1. TypeOK /\ TypeOK'
  BY DEF RInv, IInv
<1>2. pc'[t] = "idle" /\ ans'[t] = a /\ req'[t] = NoRequest
  BY <1>1 DEF Answer, Goto, TypeOK
<1>3. Phases[t] = "called" /\ Phases'[t] = "idle" /\ Answers'[t] = View(a)
  BY <1>2 DEF Phases, Answers, Committed
<1>4. ~RemoveFile(t) => Bodies' = Bodies
  BY <1>2, BodiesStay DEF Committed
<1> QED
  BY <1>1, <1>2, <1>3, <1>4, OthersSee DEF Store!Serves

\* Beside a request for an instance nobody has committed a body for it, so the
\* store is what the disk says.
LEMMA InstanceSeen ==
  ASSUME Calm, RInv, NEW t \in Threads, req[t] \in Requests, pc[t] # "idle",
         ~Committed(t), req[t].form = "id", ~Rejected(req[t]),
         req[t].method \in {"GET", "PUT", "DELETE"}
  PROVE  /\ Path(t) \in Paths /\ Path(t) = <<req[t].entity, req[t].id>>
         /\ \A u \in Threads : ~(Committed(u) /\ Path(u) = Path(t))
         /\ Bodies[Path(t)] = None <=> link[Path(t)] = None
         /\ link[Path(t)] # None =>
              Bodies[Path(t)] \in Values /\ data[link[Path(t)]] = Fresh(Bodies[Path(t)])
<1>1. Serving /\ Exclusive
  BY DEF RInv, IInv
<1>2. id[t] = req[t].id /\ Path(t) \in Paths /\ Path(t) = <<req[t].entity, req[t].id>>
  BY <1>1, RequestFields DEF Serving, Path, Paths
<1>3. ASSUME NEW u \in Threads, Committed(u), Path(u) = Path(t)
      PROVE  FALSE
  <2>1. u # t /\ pc[u] \in Writer /\ Informed(u)
    BY <1>3 DEF Committed, Writer, RInv
  <2>2. /\ req[u].method \in {"POST", "PUT"} /\ ~Rejected(req[u])
        /\ req[u].entity = req[t].entity /\ id[u] = id[t]
    BY <1>1, <1>3, <2>1 DEF Serving, Path, Informed, Committed
  <2>3. ~Conflict(req[u], req[t])
    BY <1>1, <2>1, <2>2 DEF Exclusive, Calm, Writer
  <2>4. req[u].form = "id" /\ req[u].id # req[t].id
    BY <2>2, <2>3 DEF Conflict
  <2>5. req[u].method # "POST"
    BY <2>2, <2>4 DEF Rejected, IsId
  <2> QED
    BY <1>1, <1>2, <2>1, <2>2, <2>4, <2>5 DEF Serving, Writer
<1>4. /\ Bodies[Path(t)] = Stored(Path(t))
      /\ link[Path(t)] # None =>
           \E v \in Values : data[link[Path(t)]] = Fresh(v) /\ Stored(Path(t)) = v
  BY <1>2, <1>3, BodiesAre DEF BodiesFaithful
<1> QED
  BY <1>2, <1>3, <1>4, ConstantsAssumption DEF Stored

\* Beside a request for an entity nobody has committed a body in it.
LEMMA EntitySeen ==
  ASSUME Calm, RInv, NEW t \in Threads, req[t] \in Requests, pc[t] # "idle",
         ~Committed(t), ~Rejected(req[t]), req[t].form # "id",
         req[t].method \in {"GET", "POST"}
  PROVE  \A i \in Ids :
           /\ <<req[t].entity, i>> \in Paths
           /\ Bodies[<<req[t].entity, i>>] = None <=> link[<<req[t].entity, i>>] = None
<1>1. Serving /\ Exclusive
  BY DEF RInv, IInv
<1> SUFFICES ASSUME NEW i \in Ids
             PROVE  /\ <<req[t].entity, i>> \in Paths
                    /\ Bodies[<<req[t].entity, i>>] = None <=>
                         link[<<req[t].entity, i>>] = None
  OBVIOUS
<1>2. <<req[t].entity, i>> \in Paths
  BY RequestFields DEF Paths
<1>3. ASSUME NEW u \in Threads, Committed(u), Path(u) = <<req[t].entity, i>>
      PROVE  FALSE
  <2>1. u # t /\ pc[u] \in Writer
    BY <1>3 DEF Committed, Writer
  <2>2. req[u].method \in {"POST", "PUT"} /\ req[u].entity = req[t].entity
    BY <1>1, <1>3, <2>1 DEF Serving, Path, Writer
  <2>3. Conflict(req[u], req[t])
    BY <2>2 DEF Conflict
  <2> QED
    BY <1>1, <2>1, <2>3 DEF Exclusive, Calm, Writer
<1>4. /\ Bodies[<<req[t].entity, i>>] = Stored(<<req[t].entity, i>>)
      /\ link[<<req[t].entity, i>>] # None =>
           \E v \in Values : Stored(<<req[t].entity, i>>) = v
  BY <1>2, <1>3, BodiesAre DEF BodiesFaithful
<1> QED
  BY <1>2, <1>4, ConstantsAssumption DEF Stored

\* POST and PUT take effect when the directory of their entity is there.
LEMMA Commits ==
  ASSUME Calm, RInv, RInv', NEW t \in Threads, Acts(t),
         pc[t] \in {"w_parent", "w_mkdir"}, pc'[t] = "w_open",
         dirs' = dirs \cup {req[t].entity}, UNCHANGED <<link, data, req, id, ans>>
  PROVE  Store!Post(t) \/ Store!Put(t)
<1>1. TypeOK /\ TypeOK' /\ Serving /\ Informed(t) /\ PostFree
  BY DEF RInv, IInv
<1>2. /\ Path(t) \in Paths /\ Path(t) = <<req[t].entity, id[t]>> /\ Path(t)' = Path(t)
      /\ req[t] \in Requests /\ id[t] \in Ids /\ req[t].form # "slash" /\ ~Rejected(req[t])
      /\ req[t].method \in {"POST", "PUT"}
  BY <1>1, AtAnInstance DEF Writer, Path, Serving
<1>3. ~Committed(t) /\ Committed(t)'
  BY DEF Committed
<1>4. Bodies' = [Bodies EXCEPT ![Path(t)] = req[t].value]
  <2>1. Bodies'[Path(t)] = req[t].value
    BY <1>2, <1>3, BodiesAreNext DEF BodiesFaithful
  <2>2. ASSUME NEW p \in Paths \ {Path(t)}
        PROVE  Bodies'[p] = Bodies[p]
    <3>1. \A u \in Threads \ {t} :
            (Committed(u)' <=> Committed(u)) /\ Path(u)' = Path(u) /\ req'[u] = req[u]
      BY <1>1, OthersStay DEF Committed, Path
    <3>2. Stored(p)' = Stored(p)
      BY DEF Stored
    <3> QED
      BY <1>2, <1>3, <2>2, <3>1, <3>2, BodyStays
  <2> QED
    BY <1>2, <2>1, <2>2, BodiesFunction
<1>5. /\ Phases[t] = "called" /\ Phases'[t] = "served"
      /\ Answers'[t] = View(WriteReply(t)) /\ WriteReply(t)' = WriteReply(t)
  BY <1>3 DEF Phases, Answers, Committed, WriteReply
<1>6. ASSUME NEW a, View(WriteReply(t)) = a
      PROVE  Store!Serves(t, a)
  BY <1>1, <1>5, <1>6, OthersSee DEF Store!Serves
<1>7. CASE req[t].method = "POST"
  <2>1. req[t].form # "id"
    BY <1>2, <1>7 DEF Rejected, IsId
  <2>2. \A i \in Ids : Bodies[<<req[t].entity, i>>] = None <=> link[<<req[t].entity, i>>] = None
    BY <1>2, <1>3, <1>7, <2>1, EntitySeen
  <2>3. /\ id[t] \in Ids \ Store!Instances(req[t].entity)
        /\ \A j \in Ids \ Store!Instances(req[t].entity) : id[t] <= j
    <3>1. link[<<req[t].entity, id[t]>>] = None
      BY <1>1, <1>2, <1>7 DEF PostFree, Calm
    <3>2. id[t] \in 1 .. MaxId
      BY <1>1, <1>7 DEF Serving
    <3>3. \A j \in 1 .. MaxId : j < id[t] => link[<<req[t].entity, j>>] # None
      BY <1>1, <1>7 DEF Informed
    <3>4. \A j \in Ids : link[<<req[t].entity, j>>] = None => id[t] <= j
      <4>1. \A j \in 1 .. MaxId : ~(j < id[t]) => id[t] <= j
        BY <3>2, ConstantsAssumption
      <4>2. \A j \in LargeIds : id[t] <= j
        BY <3>2, ConstantsAssumption
      <4> QED
        BY <3>3, <4>1, <4>2 DEF Ids
    <3>5. \A j \in Ids : j \in Store!Instances(req[t].entity) <=>
                           link[<<req[t].entity, j>>] # None
      BY <2>2 DEF Store!Instances
    <3> QED
      BY <1>2, <3>1, <3>4, <3>5
  <2>4. Store!LowestFree(req[t].entity) = id[t]
    <3> DEFINE free == Ids \ Store!Instances(req[t].entity)
    <3>1. Ids \subseteq Nat
      BY ConstantsAssumption DEF Ids
    <3>2. ASSUME NEW i \in free, \A j \in free : i <= j
          PROVE  i = id[t]
      <4>1. i \in Nat /\ id[t] \in Nat
        BY <2>3, <3>1
      <4>2. i <= id[t] /\ id[t] <= i
        BY <2>3, <3>2
      <4> QED
        BY <4>1, <4>2
    <3> QED
      BY <2>3, <3>2 DEF Store!LowestFree
  <2>5. View(WriteReply(t)) = [Store!Status(201) EXCEPT !.id = id[t]]
    BY <1>7, Views DEF WriteReply
  <2> QED
    BY <1>2, <1>4, <1>5, <1>6, <1>7, <2>4, <2>5, RefusesAlike DEF Store!Post, Store!Asks
<1>8. CASE req[t].method = "PUT"
  <2>1. req[t].form = "id"
    BY <1>2, <1>8 DEF Rejected, IsId
  <2>2. Path(t) = <<req[t].entity, req[t].id>> /\ (Bodies[Path(t)] = None <=> link[Path(t)] = None)
    BY <1>2, <1>3, <1>8, <2>1, InstanceSeen
  <2>3. ans[t] = Status(PutStatus(link[Path(t)] # None))
    BY <1>1, <1>8 DEF Informed
  <2>4. WriteReply(t) = Status(IF Bodies[Path(t)] = None THEN 201 ELSE 200)
    BY <1>8, <2>2, <2>3 DEF WriteReply, PutStatus
  <2>5. View(WriteReply(t)) = Store!Status(IF Bodies[Path(t)] = None THEN 201 ELSE 200)
    BY <2>4, Views
  <2> QED
    BY <1>2, <1>4, <1>5, <1>6, <1>8, <2>2, <2>5, RefusesAlike DEF Store!Put, Store!Asks
<1> QED
  BY <1>2, <1>7, <1>8

\* GET, DELETE and what needs no disk take effect as they are answered.
LEMMA Looks ==
  ASSUME Calm, RInv, RInv', NEW t \in Threads, Acts(t),
         \/ Reject(t) \/ OtherMethod(t) \/ GetLookup(t) \/ ReadOpen(t) \/ ReadAll(t)
         \/ ListLookup(t) \/ ListFiles(t) \/ DeleteLookup(t)
  PROVE  \/ Store!Refuse(t) \/ Store!Ignore(t) \/ Store!Get(t) \/ Store!List(t)
         \/ Store!Delete(t) \/ UNCHANGED Store!vars
<1>1. TypeOK /\ Serving /\ Informed(t)
  BY DEF RInv, IInv
<1>2. /\ pc[t] # "idle" /\ ~Committed(t) /\ req[t] \in Requests /\ dirs' = dirs
      /\ UNCHANGED <<link, data>> /\ ~RemoveFile(t)
  BY <1>1 DEF Reject, OtherMethod, GetLookup, ReadOpen, ReadAll, ListLookup, ListFiles,
     DeleteLookup, RemoveFile, Begins, Committed, Serving, disk
<1>3. ASSUME pc'[t] \in {"r_open", "r_read", "list", "remove"}, req'[t] = req[t]
      PROVE  UNCHANGED Store!vars
  BY <1>2, <1>3, Unseen DEF Committed
<1>4. ASSUME NEW a, Answer(t, a)
      PROVE  Phases[t] = "called" /\ Store!Serves(t, View(a)) /\ Bodies' = Bodies
  BY <1>2, <1>4, AnsweredAtOnce
<1>5. CASE Reject(t)
  BY <1>2, <1>4, <1>5, Views, RefusesAlike DEF Reject, Store!Refuse
<1>6. CASE OtherMethod(t)
  BY <1>2, <1>4, <1>6, Views, RefusesAlike
  DEF OtherMethod, Begins, Store!Ignore, Store!Asks
<1>7. CASE GetLookup(t)
  <2>1. req[t].method = "GET" /\ req[t].form = "id" /\ ~Rejected(req[t])
    BY <1>7 DEF GetLookup, Begins, StoiAccepts
  <2>2. CASE ~FileExists(t) /\ Answer(t, Status(404))
    <3>1. Bodies[<<req[t].entity, req[t].id>>] = None
      BY <1>2, <2>1, <2>2, InstanceSeen DEF FileExists
    <3> QED
      BY <1>2, <1>4, <2>1, <2>2, <3>1, Views, RefusesAlike DEF Store!Get, Store!Asks
  <2>3. CASE Goto(t, "r_open") /\ UNCHANGED req
    BY <1>1, <1>3, <2>3 DEF Goto, TypeOK
  <2> QED
    BY <1>7, <2>2, <2>3 DEF GetLookup
<1>8. CASE ReadOpen(t)
  <2>1. Goto(t, "r_read") /\ UNCHANGED req
    BY <1>1, <1>8 DEF ReadOpen, Informed
  <2> QED
    BY <1>1, <1>3, <2>1 DEF Goto, TypeOK
<1>9. CASE ReadAll(t)
  <2>1. /\ req[t].method = "GET" /\ req[t].form = "id" /\ ~Rejected(req[t])
        /\ fd[t] = link[Path(t)] /\ fd[t] # None
    BY <1>1, <1>9 DEF ReadAll, Serving, Informed, TypeOK
  <2>2. /\ Path(t) = <<req[t].entity, req[t].id>>
        /\ Bodies[Path(t)] \in Values /\ data[fd[t]] = Fresh(Bodies[Path(t)])
    BY <1>2, <2>1, InstanceSeen
  <2>3. Answer(t, Found(data[fd[t]]))
    BY <1>9 DEF ReadAll
  <2>4. View(Found(data[fd[t]])) = [Store!Status(200) EXCEPT !.body = Bodies[Path(t)]]
    BY <2>2, Views
  <2> QED
    BY <1>2, <1>4, <2>1, <2>2, <2>3, <2>4, RefusesAlike, ConstantsAssumption
    DEF Store!Get, Store!Asks
<1>10. CASE ListLookup(t)
  <2>1. req[t].method = "GET" /\ req[t].form # "id" /\ ~Rejected(req[t])
    BY <1>2, <1>10 DEF ListLookup, Begins, StoiAccepts, Calm, Agreed
  <2>2. CASE ~FileExists(t) /\ Answer(t, Status(404))
    BY <1>2, <1>4, <2>1, <2>2, Views, RefusesAlike
    DEF FileExists, Store!List, Store!Asks
  <2>3. CASE Goto(t, "list") /\ UNCHANGED req
    BY <1>1, <1>3, <2>3 DEF Goto, TypeOK
  <2> QED
    BY <1>10, <2>2, <2>3 DEF ListLookup
<1>11. CASE ListFiles(t)
  <2>1. /\ req[t].method = "GET" /\ req[t].form # "id" /\ ~Rejected(req[t])
        /\ req[t].entity \in dirs /\ Answer(t, Listed(Linked(req[t].entity)))
    BY <1>1, <1>11 DEF ListFiles, Informed
  <2>2. Linked(req[t].entity) = Store!Instances(req[t].entity)
    BY <1>2, <2>1, EntitySeen DEF Linked, Store!Instances
  <2>3. View(Listed(Linked(req[t].entity))) =
          [Store!Status(200) EXCEPT !.ids = Store!Instances(req[t].entity)]
    BY <2>2, Views
  <2> QED
    BY <1>2, <1>4, <2>1, <2>3, RefusesAlike DEF Store!List, Store!Asks
<1>12. CASE DeleteLookup(t)
  <2>1. req[t].method = "DELETE" /\ req[t].form = "id" /\ ~Rejected(req[t])
    BY <1>2, <1>12 DEF DeleteLookup, Begins, Rejected, IsId, Calm, Agreed
  <2>2. CASE ~FileExists(t) /\ Answer(t, Status(404))
    <3>1. Bodies[<<req[t].entity, req[t].id>>] = None
      BY <1>2, <2>1, <2>2, InstanceSeen DEF FileExists
    <3>2. Bodies' = [Bodies EXCEPT ![<<req[t].entity, req[t].id>>] = None]
      BY <1>4, <2>2, <3>1, BodiesFunction
    <3> QED
      BY <1>2, <1>4, <2>1, <2>2, <3>1, <3>2, Views, RefusesAlike
      DEF Store!Delete, Store!Asks
  <2>3. CASE Goto(t, "remove") /\ UNCHANGED req
    BY <1>1, <1>3, <2>3 DEF Goto, TypeOK
  <2> QED
    BY <1>12, <2>2, <2>3 DEF DeleteLookup
<1> QED
  BY <1>5, <1>6, <1>7, <1>8, <1>9, <1>10, <1>11, <1>12

\* DELETE of an instance that is there.
LEMMA Removes ==
  ASSUME Calm, RInv, RInv', NEW t \in Threads, Acts(t), RemoveFile(t)
  PROVE  Store!Delete(t)
<1>1. TypeOK /\ Serving /\ Informed(t)
  BY DEF RInv, IInv
<1>2. /\ pc[t] = "remove" /\ req[t].method = "DELETE" /\ req[t].form = "id"
      /\ ~Committed(t) /\ req[t] \in Requests /\ ~Rejected(req[t])
      /\ dirs' = dirs /\ link[Path(t)] # None /\ Answer(t, Status(200))
      /\ link' = [link EXCEPT ![Path(t)] = None] /\ data' = data
  BY <1>1 DEF RemoveFile, Informed, Serving, Committed
<1>3. /\ Path(t) \in Paths /\ Path(t) = <<req[t].entity, req[t].id>>
      /\ \A u \in Threads : ~(Committed(u) /\ Path(u) = Path(t))
      /\ Bodies[Path(t)] # None
  BY <1>2, InstanceSeen
<1>4. \A u \in Threads \ {t} :
        (Committed(u)' <=> Committed(u)) /\ Path(u)' = Path(u) /\ req'[u] = req[u]
  BY <1>1, OthersStay DEF Committed, Path
<1>5. ~Committed(t)'
  BY <1>1, <1>2 DEF Answer, Goto, Committed, TypeOK
<1>6. Bodies'[Path(t)] = None
  <2>1. PICK p \in Paths : p = Path(t)
    BY <1>3
  <2>2. \A u \in Threads : ~(Committed(u)' /\ Path(u)' = p)
    BY <1>3, <1>4, <1>5, <2>1
  <2>3. Bodies'[p] = Stored(p)'
    BY <2>2, BodiesAreNext DEF BodiesFaithful
  <2>4. link'[p] = None
    BY <1>1, <1>2, <2>1 DEF TypeOK
  <2> QED
    BY <2>1, <2>3, <2>4 DEF Stored
<1>7. ASSUME NEW p \in Paths \ {Path(t)}
      PROVE  Bodies'[p] = Bodies[p]
  <2>1. Stored(p)' = Stored(p)
    BY <1>1, <1>2, <1>7 DEF Stored, TypeOK
  <2> QED
    BY <1>2, <1>4, <1>5, <1>7, <2>1, BodyStays
<1>8. Bodies' = [Bodies EXCEPT ![Path(t)] = None]
  BY <1>3, <1>6, <1>7, BodiesFunction
<1>9. Phases[t] = "called" /\ Store!Serves(t, Store!Status(200))
  BY <1>2, Views, AnsweredAtOnce
<1> QED
  BY <1>2, <1>3, <1>8, <1>9, RefusesAlike DEF Store!Delete, Store!Asks

LEMMA StepImplements ==
  ASSUME Calm, RInv, RInv', NEW t \in Threads, Acts(t)
  PROVE  [Store!Next]_(Store!vars)
<1>1. TypeOK /\ TypeOK' /\ Informed(t)
  BY DEF RInv, IInv
<1>2. ASSUME NEW r \in Requests, Receive(t, r)
      PROVE  Store!Next
  <2>1. /\ pc[t] = "idle" /\ pc'[t] = "start" /\ req'[t] = r /\ dirs' = dirs
        /\ ~Committed(t) /\ ~Committed(t)' /\ ~RemoveFile(t)
    BY <1>1, <1>2 DEF Receive, Goto, Committed, RemoveFile, TypeOK, disk
  <2>2. Phases[t] = "idle" /\ Phases'[t] = "called" /\ Answers'[t] = View(Status(0))
    BY <2>1 DEF Phases, Answers
  <2>3. Bodies' = Bodies
    BY <2>1, BodiesStay
  <2> QED
    BY <1>1, <2>1, <2>2, <2>3, OthersSee, Views DEF Store!Call, Store!Next
<1>3. CASE PostLookup(t) \/ Probe(t) \/ PutLookup(t)
  <2>1. /\ pc[t] # "idle" /\ pc'[t] \in {"probe", "w_parent"}
        /\ ~Committed(t) /\ ~Committed(t)' /\ ~RemoveFile(t)
        /\ req' = req /\ dirs' = dirs
    BY <1>1, <1>3
    DEF PostLookup, Probe, PutLookup, Begins, Goto, Committed, RemoveFile, TypeOK, disk
  <2> QED
    BY <2>1, Unseen
<1>4. CASE WriteParent(t)
  <2>1. CASE req[t].entity \in dirs
    <3>1. /\ pc[t] = "w_parent" /\ pc'[t] = "w_open" /\ dirs' = dirs \cup {req[t].entity}
          /\ UNCHANGED <<link, data, req, id, ans>>
      BY <1>1, <1>4, <2>1 DEF WriteParent, Goto, TypeOK, disk
    <3>2. Store!Post(t) \/ Store!Put(t)
      BY <3>1, Commits
    <3> QED
      BY <3>2 DEF Store!Next, Store!Serve
  <2>2. CASE req[t].entity \notin dirs
    <3>1. /\ pc[t] = "w_parent" /\ pc'[t] = "w_mkdir" /\ dirs' = dirs /\ req' = req
          /\ ~Committed(t) /\ ~Committed(t)' /\ ~RemoveFile(t)
      BY <1>1, <1>4, <2>2 DEF WriteParent, Goto, TypeOK, disk, Committed, RemoveFile
    <3> QED
      BY <3>1, Unseen
  <2> QED
    BY <2>1, <2>2
<1>5. CASE WriteMkdir(t)
  <2>1. /\ pc[t] = "w_mkdir" /\ pc'[t] = "w_open" /\ dirs' = dirs \cup {req[t].entity}
        /\ UNCHANGED <<link, data, req, id, ans>>
    BY <1>1, <1>5 DEF WriteMkdir, Goto, TypeOK
  <2>2. Store!Post(t) \/ Store!Put(t)
    BY <2>1, Commits
  <2> QED
    BY <2>2 DEF Store!Next, Store!Serve
<1>6. CASE OpenExisting(t) \/ OpenCreates(t)
  <2>1. /\ pc[t] = "w_open" /\ pc'[t] = "w_write" /\ Committed(t) /\ Committed(t)'
        /\ ~RemoveFile(t) /\ UNCHANGED <<req, id, ans, dirs>>
    BY <1>1, <1>6 DEF OpenExisting, OpenCreates, Goto, TypeOK, Committed, RemoveFile
  <2> QED
    BY <2>1, Unseen
<1>7. CASE WriteClose(t)
  <2>1. /\ Committed(t) /\ ~RemoveFile(t) /\ ~Committed(t)' /\ pc'[t] = "idle"
        /\ req'[t] = NoRequest /\ ans'[t] = WriteReply(t) /\ dirs' = dirs
    BY <1>1, <1>7 DEF WriteClose, Answer, Goto, TypeOK, Committed, RemoveFile
  <2>2. /\ Phases[t] = "served" /\ Phases'[t] = "idle"
        /\ Answers[t] = View(WriteReply(t)) /\ Answers'[t] = View(WriteReply(t))
    BY <2>1 DEF Phases, Answers
  <2>3. Bodies' = Bodies
    BY <2>1, BodiesStay
  <2>4. Answers' = Answers
    <3>1. Answers = [u \in Threads |-> Answers[u]]
      BY DEF Answers
    <3> QED
      BY <1>1, <2>2, <3>1, OthersSee
  <2>5. Store!Return(t)
    BY <1>1, <2>1, <2>2, <2>3, <2>4, OthersSee DEF Store!Return
  <2> QED
    BY <2>5 DEF Store!Next
<1>8. CASE \/ Reject(t) \/ OtherMethod(t) \/ GetLookup(t) \/ ReadOpen(t) \/ ReadAll(t)
           \/ ListLookup(t) \/ ListFiles(t) \/ DeleteLookup(t)
  BY <1>8, Looks DEF Store!Next, Store!Serve
<1>9. CASE RemoveFile(t)
  BY <1>9, Removes DEF Store!Next, Store!Serve
<1> QED
  BY <1>2, <1>3, <1>4, <1>5, <1>6, <1>7, <1>8, <1>9 DEF Acts

----------------------------------------------------------------------------
\* For any number of threads, entities, ids and bodies: while clients keep
\* conflicting requests apart and nothing ends the process, every request to the
\* API appears to take effect at one moment between its arrival and its answer,
\* although it makes up to five calls to the disk beside those of the others.
THEOREM CrudImplementsStore == ASSUME Calm PROVE Spec => ImplementsCrudStore
<1>1. Init => Store!Init
  <2> SUFFICES ASSUME Init PROVE Store!Init
    OBVIOUS
  <2>1. Phases = [t \in Threads |-> "idle"] /\ Answers = [t \in Threads |-> Store!Status(0)]
    BY Views DEF Init, Phases, Answers, Committed
  <2>2. Bodies = [p \in Paths |-> None]
    BY DEF Init, Bodies, Stored, Committed
  <2> QED
    BY <2>1, <2>2 DEF Init, Store!Init, Paths
<1>2. RInv /\ RInv' /\ [Next]_vars => [Store!Next]_(Store!vars)
  <2> SUFFICES ASSUME RInv, RInv', [Next]_vars PROVE [Store!Next]_(Store!vars)
    OBVIOUS
  <2>1. CASE UNCHANGED vars
    BY <2>1 DEF vars, disk, Store!vars, Bodies, Phases, Answers, Committed, Path,
       Stored, WriteReply
  <2> QED
    BY <2>1, OnlyThreads, StepImplements
<1> QED
  BY <1>1, <1>2, RInvHolds, PTL DEF Spec, ImplementsCrudStore, Store!Spec
=============================================================================
