------------------------------ MODULE Routing ------------------------------
(***************************************************************************)
(* How a request finds its handler: server::configMap fills the table of   *)
(* factories that every session copies, session::handle_read picks one of  *)
(* them, by the target for some handlers and by the type of the request    *)
(* for others.  operator[] of the table enters a null factory for a target *)
(* it does not have, so a session's table grows with what it is asked.     *)
(*                                                                         *)
(* Paths and targets are sequences of pieces of text, <<"/", "echo">> for  *)
(* "/echo"; a prefix of a text is a prefix of its pieces.                  *)
(***************************************************************************)
EXTENDS Naturals, SequencesExt

CONSTANTS
  Configs,  \* parsed configurations, as sequences of their locations
  Uris,     \* request targets, as far as they were parsed
  Null      \* the null factory

Handlers == <<"EchoHandler", "StaticHandler", "CrudHandler", "HealthHandler",
              "SleepHandler", "MarkdownHandler">>
Factories == Range(Handlers) \cup {"404Handler", "BadHandler"}

ASSUME NullAssumption == Null \notin Factories

\* A location: path, handler and, for StaticHandler, the names of its files.
Locations == [path : Seq(STRING), handler : STRING, roots : SUBSET STRING]
Location(path, handler, roots) == [path |-> path, handler |-> handler, roots |-> roots]

ASSUME ConfigsAssumption == (\A c \in Configs : c \in Seq(Locations)) /\ Uris \subseteq Seq(STRING)

VARIABLES
  config,   \* config_
  routes,   \* routes_ of a session
  uri,      \* req_.uri
  status,   \* parse_status
  complete, \* the parser has seen a whole request
  factory   \* the factory whose handler answers

vars == <<config, routes, uri, status, complete, factory>>

Empty == <<>>
Slash == <<"/">>
Bad == <<"bad">>

----------------------------------------------------------------------------
\* get_<handler>_path: the first location of the handler, but the last one of
\* CrudHandler; the empty string if there is none.
FirstPath(c, h) ==
  LET i == SelectInSeq(c, LAMBDA l : l.handler = h)
  IN  IF i = 0 THEN Empty ELSE c[i].path
LastPath(c, h) == FirstPath(Reverse(c), h)
PathOf(c, h) == IF h = "CrudHandler" THEN LastPath(c, h) ELSE FirstPath(c, h)

\* get_static_file_path: the files of the first StaticHandler location.
StaticUris(c) ==
  LET i == SelectInSeq(c, LAMBDA l : l.handler = "StaticHandler")
  IN  IF i = 0 THEN {} ELSE {c[i].path \o <<"/", f>> : f \in c[i].roots}

\* routes[key] = f
Enter(r, key, f) == [k \in DOMAIN r \cup {key} |-> IF k = key THEN f ELSE r[k]]

\* configMap; of several entries for a path the one entered last stays.
ConfigMap(c) ==
  LET static == [u \in StaticUris(c) |-> "StaticHandler"]
      with(r, h) == Enter(r, PathOf(c, h), h)
      own(r) == Enter(Enter(r, Slash, "404Handler"), Bad, "BadHandler")
  IN  with(with(with(own(with(with(static, "EchoHandler"), "HealthHandler")),
        "CrudHandler"), "SleepHandler"), "MarkdownHandler")

\* A handler without a location has the empty path.
EvenEmpty(p, u) == IsPrefix(p, u)
Begins(p, u) == p # Empty /\ IsPrefix(p, u)

\* get_request_type: the first handler, in this order, whose path begins u.
RequestType(c, u) ==
  LET i == SelectInSeq(Handlers, LAMBDA h : Begins(PathOf(c, h), u))
  IN  IF i = 0 THEN "404Handler" ELSE Handlers[i]

\* routes_[key], and the table after it.
Entry(key) == IF key \in DOMAIN routes THEN routes[key] ELSE Null
WithEntry(key) == IF key \in DOMAIN routes THEN routes ELSE Enter(routes, key, Null)

NoFallback(key) == Entry(key)
Fallback(key) == IF Entry(key) = Null THEN routes[Slash] ELSE Entry(key)

----------------------------------------------------------------------------
(* handle_read, by the status of the parse.                                *)

\* StaticHandler is made anew for the file found, the others come from the table.
Good(u) ==
  /\ LET type == RequestType(config, u) IN
       factory' = IF type \in {"CrudHandler", "MarkdownHandler"} THEN Entry(PathOf(config, type))
                  ELSE IF type # "StaticHandler" THEN Fallback(u)
                  ELSE IF u \in StaticUris(config) THEN "StaticHandler" ELSE routes[Slash]
  /\ routes' = WithEntry(u)
  /\ complete' = TRUE

Invalid ==
  /\ factory' = Fallback(Bad)
  /\ routes' = WithEntry(Bad)
  /\ UNCHANGED complete

Indeterminate(u) ==
  /\ factory' = Fallback(u)
  /\ routes' = WithEntry(u)
  /\ UNCHANGED complete

\* The parser only ever appends to the target, and not after a whole request.
Read(u) ==
  /\ IF complete THEN u = uri ELSE IsPrefix(uri, u)
  /\ uri' = u
  /\ \/ status' = "good" /\ Good(u)
     \/ status' = "bad" /\ Invalid
     \/ status' = "indeterminate" /\ ~complete /\ Indeterminate(u)
  /\ UNCHANGED config

\* start_accept makes the table anew for every session.
NewSession ==
  /\ routes' = ConfigMap(config)
  /\ uri' = Empty /\ status' = "none" /\ complete' = FALSE /\ factory' = Null
  /\ UNCHANGED config

Init ==
  /\ config \in Configs
  /\ routes = ConfigMap(config)
  /\ uri = Empty /\ status = "none" /\ complete = FALSE /\ factory = Null

Next == NewSession \/ \E u \in Uris : Read(u)

Spec == Init /\ [][Next]_vars

----------------------------------------------------------------------------
(* Properties                                                              *)

\* A configuration whose locations cannot be confused: one of each handler, none
\* of them inside another or at a path the table uses itself.
Clear(c) ==
  \A i \in DOMAIN c :
    /\ c[i].handler \in Range(Handlers)
    /\ c[i].path \notin {Empty, Slash, Bad}
    /\ \A j \in DOMAIN c \ {i} :
         c[i].handler # c[j].handler /\ ~IsPrefix(c[i].path, c[j].path)

\* What a location says of target u.  README.md, "Config file format", has it of
\* the first kinds; of CrudHandler and MarkdownHandler it says nothing: they get, as
\* in the code, every target that begins with their path (/apis, too, for /api).
Claims(l, u) ==
  IF l.handler = "StaticHandler" THEN \E f \in l.roots : u = l.path \o <<"/", f>>
  ELSE IF l.handler \in {"CrudHandler", "MarkdownHandler"} THEN IsPrefix(l.path, u)
  ELSE u = l.path

Claimants(u) == {config[i].handler : i \in {j \in DOMAIN config : Claims(config[j], u)}}

\* Whatever a session was asked before, and whatever null entries that left in
\* its table, a whole request is answered by the one location that claims its
\* target and by the 404 handler when none does.  (Two targets are the table's own:
\* the empty one and "bad".)
RoutedAsConfigured ==
  Clear(config) /\ status = "good" /\ uri \notin {Empty, Bad} =>
    factory = IF Claimants(uri) = {} THEN "404Handler"
              ELSE CHOOSE h \in Claimants(uri) : TRUE

\* In any configuration, for any request, good or not, a factory is found: the
\* null entries are never used.
FactoryFound == status # "none" => factory # Null
=============================================================================
