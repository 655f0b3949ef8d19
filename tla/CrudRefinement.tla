--------------------------- MODULE CrudRefinement ---------------------------
(***************************************************************************)
(* CrudHandler implements CrudStore while the clients keep to the          *)
(* discipline (Disciplined), no process ends and the requests are ones     *)
(* whose answers the two agree on.                                         *)
(*                                                                         *)
(* POST and PUT take effect once the entity's directory is known to exist, *)
(* before their file is opened: from then until it is closed the instance  *)
(* counts as holding the new body.  Everything else takes effect in the    *)
(* call whose outcome it answers.                                          *)
(***************************************************************************)
EXTENDS CrudHandler

Committed(t) == pc[t] \in {"w_open", "w_write"}

\* The body a file holds; torn contents are no body.
Body(c) == IF \E v \in Values : c = Fresh(v) THEN c.head ELSE c

\* What the instances hold, how far the requests are, and what they are answered,
\* as CrudStore sees it.
Stored(p) == IF link[p] = None THEN None ELSE Body(data[link[p]])
Bodies ==
  [p \in Paths |->
     IF \E t \in Threads : Committed(t) /\ Path(t) = p
     THEN req[CHOOSE t \in Threads : Committed(t) /\ Path(t) = p].value
     ELSE Stored(p)]
Phases ==
  [t \in Threads |-> IF Committed(t) THEN "served"
                     ELSE IF pc[t] = "idle" THEN "idle" ELSE "called"]
View(a) == [a EXCEPT !.body = Body(@)]
Answers ==
  [t \in Threads |-> View(IF Committed(t) THEN WriteReply(t)
                          ELSE IF pc[t] = "idle" THEN ans[t] ELSE Status(0))]

Store == INSTANCE CrudStore WITH
  Absent <- None, ents <- dirs, store <- Bodies, phase <- Phases, ans <- Answers

\* What the two agree on: PUT and GET of an instance the code takes for one, and
\* no deletion of an entity (the one with instances ends the process).
Agreed ==
  \A r \in Requests :
    /\ r.method \in {"PUT", "DELETE"} => r.form # "slash"
    /\ r.method = "GET" => r.id \notin LargeIds

\* Every request appears to run at one moment, as CrudStore says: the calls it
\* makes to the disk and those of the requests beside it do not show.
ImplementsCrudStore == Store!Spec
=============================================================================
