--------------------------- MODULE MCCrudHandler ---------------------------
(* Instances of CrudHandler for TLC: the sets of requests the runs send.   *)
EXTENDS CrudRefinement, TLC

CONSTANTS s, l   \* a short and a long body; Empty is the third

Rq(m, f, e, i, v) == [method |-> m, form |-> f, entity |-> e, id |-> i, value |-> v]

\* What a client can send on entity e.
Posts(e) == {Rq("POST", "name", e, 0, v) : v \in {s, Empty}}
Puts(e) == {Rq("PUT", "id", e, 1, v) : v \in Values \ {s}}
Lists(e) == {Rq("GET", "slash", e, 0, s)}
Deletes(e) == {Rq("DELETE", "id", e, 1, s)}
Refused(e) == {Rq("POST", "id", e, 1, s), Rq("PUT", "name", e, 0, s),
               Rq("OTHER", "name", e, 0, s), Rq("GET", "flat", e, 0, s)}

\* Every method on every form of target.  A short body comes from POST, a long and
\* an empty one from PUT.
FileRequests ==
  UNION {Puts(e) : e \in Entities}
  \cup {r \in RequestSet :
          /\ r.value = s
          /\ r.form = "id" <=> r.id # 0
          /\ r.method = "PUT" => r.form # "id"
          /\ r.form = "flat" \/ r.method = "OTHER" =>
               r.form # "id" /\ r.method \in {"GET", "OTHER"}}

\* Requests whose answers the clients may rely on, also on ids beyond an int.
AtomicRequests ==
  UNION {Posts(e) \cup Lists(e) \cup Deletes(e) \cup Puts(e) \cup Refused(e)
           \cup {Rq("PUT", "id", e, i, s) : i \in {1, 2}} \cup {Rq("GET", "id", e, 2, s)}
           \cup {Rq(m, "id", e, i, s) : m \in {"PUT", "DELETE"}, i \in LargeIds}
           : e \in Entities}

\* The requests that one documented expectation is about.
PostRequests == UNION {Posts(e) \cup Deletes(e) : e \in Entities}

Interchangeable == Permutations(Inodes) \cup Permutations(Threads)
=============================================================================
