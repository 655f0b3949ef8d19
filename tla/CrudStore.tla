----------------------------- MODULE CrudStore -----------------------------
(***************************************************************************)
(* What the API handler promises its clients: the instances of an entity   *)
(* are bodies under numeric ids, and every request takes effect at one     *)
(* moment between its arrival and its response.  POST creates the instance *)
(* with the lowest free id, PUT replaces or creates the one it names, GET  *)
(* returns the last body written or the ids of the instances, DELETE       *)
(* removes an instance, or an entity without instances.                    *)
(***************************************************************************)
EXTENDS Naturals

CONSTANTS
  Threads, Entities, Ids, Requests, NoRequest,
  Absent,  \* no instance
  Empty    \* the body of no bytes, as of an answer that has none

VARIABLES
  ents,   \* entities that exist
  store,  \* the body of every instance, or Absent
  phase,  \* "idle", "called", or "served" with the response on its way
  req,    \* the request being served
  ans     \* its response

vars == <<ents, store, phase, req, ans>>

Status(code) == [code |-> code, id |-> 0, body |-> Empty, ids |-> {}]
Instances(e) == {i \in Ids : store[<<e, i>>] # Absent}
LowestFree(e) ==
  CHOOSE i \in Ids \ Instances(e) : \A j \in Ids \ Instances(e) : i <= j

\* POST names an entity, PUT an instance, DELETE either; /x names nothing.
Refused(r) ==
  \/ r.form = "flat"
  \/ r.method = "POST" /\ r.form # "name"
  \/ r.method = "PUT" /\ r.form # "id"
  \/ r.method = "DELETE" /\ r.form = "name"

Init ==
  /\ ents = {}
  /\ store = [p \in Entities \X Ids |-> Absent]
  /\ phase = [t \in Threads |-> "idle"]
  /\ req = [t \in Threads |-> NoRequest]
  /\ ans = [t \in Threads |-> Status(0)]

Call(t, r) ==
  /\ phase[t] = "idle"
  /\ phase' = [phase EXCEPT ![t] = "called"]
  /\ req' = [req EXCEPT ![t] = r]
  /\ ans' = [ans EXCEPT ![t] = Status(0)]
  /\ UNCHANGED <<ents, store>>

\* The request takes effect, answered a; the response may leave later.
Serves(t, a) ==
  /\ ans' = [ans EXCEPT ![t] = a]
  /\ \/ phase' = [phase EXCEPT ![t] = "served"] /\ UNCHANGED req
     \/ /\ phase' = [phase EXCEPT ![t] = "idle"]
        /\ req' = [req EXCEPT ![t] = NoRequest]

Asks(t, method) ==
  phase[t] = "called" /\ ~Refused(req[t]) /\ req[t].method = method

Refuse(t) ==
  /\ phase[t] = "called" /\ Refused(req[t])
  /\ Serves(t, Status(400))
  /\ UNCHANGED <<ents, store>>

Ignore(t) ==
  /\ Asks(t, "OTHER")
  /\ Serves(t, Status(200))
  /\ UNCHANGED <<ents, store>>

Post(t) ==
  /\ Asks(t, "POST")
  /\ LET e == req[t].entity
         i == LowestFree(e) IN
       /\ ents' = ents \cup {e}
       /\ store' = [store EXCEPT ![<<e, i>>] = req[t].value]
       /\ Serves(t, [Status(201) EXCEPT !.id = i])

Put(t) ==
  /\ Asks(t, "PUT")
  /\ LET p == <<req[t].entity, req[t].id>> IN
       /\ ents' = ents \cup {req[t].entity}
       /\ store' = [store EXCEPT ![p] = req[t].value]
       /\ Serves(t, Status(IF store[p] = Absent THEN 201 ELSE 200))

Get(t) ==
  /\ Asks(t, "GET") /\ req[t].form = "id"
  /\ LET c == store[<<req[t].entity, req[t].id>>] IN
       Serves(t, IF c = Absent THEN Status(404) ELSE [Status(200) EXCEPT !.body = c])
  /\ UNCHANGED <<ents, store>>

List(t) ==
  /\ Asks(t, "GET") /\ req[t].form # "id"
  /\ LET e == req[t].entity IN
       Serves(t, IF e \notin ents THEN Status(404)
                 ELSE [Status(200) EXCEPT !.ids = Instances(e)])
  /\ UNCHANGED <<ents, store>>

Delete(t) ==
  /\ Asks(t, "DELETE") /\ req[t].form = "id"
  /\ LET p == <<req[t].entity, req[t].id>> IN
       /\ store' = [store EXCEPT ![p] = Absent]
       /\ Serves(t, Status(IF store[p] = Absent THEN 404 ELSE 200))
  /\ UNCHANGED ents

DeleteEntity(t) ==
  /\ Asks(t, "DELETE") /\ req[t].form # "id"
  /\ LET e == req[t].entity IN
       /\ Instances(e) = {}
       /\ ents' = ents \ {e}
       /\ Serves(t, Status(IF e \in ents THEN 200 ELSE 404))
  /\ UNCHANGED store

Return(t) ==
  /\ phase[t] = "served"
  /\ phase' = [phase EXCEPT ![t] = "idle"]
  /\ req' = [req EXCEPT ![t] = NoRequest]
  /\ UNCHANGED <<ents, store, ans>>

Serve(t) ==
  \/ Refuse(t) \/ Ignore(t) \/ Post(t) \/ Put(t) \/ Get(t) \/ List(t)
  \/ Delete(t) \/ DeleteEntity(t)

Next ==
  \/ \E t \in Threads, r \in Requests : Call(t, r)
  \/ \E t \in Threads : Serve(t) \/ Return(t)

Spec == Init /\ [][Next]_vars
=============================================================================
