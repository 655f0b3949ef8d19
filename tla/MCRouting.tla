----------------------------- MODULE MCRouting -----------------------------
(* Instances of Routing for TLC.                                           *)
EXTENDS Routing

At(p, h) == Location(Slash \o <<p>>, h, {})

\* One location for each handler, as in conf/sample.conf.
Sample ==
  {At("echo", "EchoHandler"), At("api", "CrudHandler"), At("health", "HealthHandler"),
   At("sleep", "SleepHandler"), At("markdown", "MarkdownHandler"),
   Location(<<"/", "static">>, "StaticHandler", {"page", "image"})}

\* Any of them left out.
ClearConfigs == {SetToSeq(c) : c \in SUBSET Sample}

\* Locations at the root, inside another, or given twice.
OddConfigs ==
  {<<Location(Slash, h, {}), At("api", "CrudHandler")>> : h \in {"EchoHandler", "SleepHandler"}}
  \cup {<<At("api", "EchoHandler"), Location(<<"/", "api", "/", "notes">>, "CrudHandler", {})>>,
        <<At("echo", "EchoHandler"), At("again", "EchoHandler")>>,
        <<At("api", "CrudHandler"), At("notes", "CrudHandler")>>,
        <<At("echo", "EchoHandler"), Location(Bad, "CrudHandler", {})>>}

AnyConfigs == ClearConfigs \cup OddConfigs

Words == {"echo", "api", "health", "sleep", "markdown", "static"}

\* Nothing, the root, each location's path, what is below it, and what only
\* begins like it.
AnyUris ==
  {Empty, Slash, Bad, <<"/", "other">>, <<"/", "static", "/", "page">>}
  \cup {<<"/", w>> : w \in Words}
  \cup {<<"/", w, "/", "1">> : w \in Words}
  \cup {<<"/", w, "s">> : w \in Words}
=============================================================================
