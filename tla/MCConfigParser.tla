--------------------------- MODULE MCConfigParser ---------------------------
(* Instances of ConfigParser for TLC.                                      *)
EXTENDS ConfigParser

Special == {"SP", "LF", "CR", "{", "}", ";", "#", "'", "\""}
Pieces == Special \cup {"port", "8000", "70000", "-8000", "location", "CrudHandler",
                        "StaticHandler", "root"}

\* Every text of up to five pieces.
Short == UNION {[1 .. n -> Special \cup {"port", "8000"}] : n \in 0 .. 5}

Words(w) == FlattenSeq([i \in DOMAIN w |-> <<w[i], "SP">>])
Port(n) == <<"port", "SP", n, ";">>
Block(w, inner) == Words(w) \o <<"{">> \o inner \o <<"}">>
Location(h, inner) == Block(<<"location", "root", h>>, inner)

\* Configurations like those in conf and tests/test_configs.
Samples == {
  Port("8000") \o <<"LF">> \o Location("CrudHandler", <<"root", "SP", "port", ";">>),
  Block(<<"root">>, Location("root", Port("8000"))) \o Location("MarkdownHandler", <<>>),
  Location("StaticHandler", <<"root", "SP", "port", ";">>) \o <<"#", "root", "LF">> \o Port("70000"),
  Block(<<"root">>, Port("70000")) \o Port("8000"),
  <<"root", "SP", "'", "\"", "\\", "'", ";", "CR", "LF">> \o Port("8000") \o <<"#">>}

\* Each of them with one piece replaced, left out, or put in.
Changed(w) == {[w EXCEPT ![i] = c] : i \in DOMAIN w, c \in Pieces}
Dropped(w) == {RemoveAt(w, i) : i \in DOMAIN w}
Inserted(w) == {InsertAt(w, i, c) : i \in 1 .. Len(w) + 1, c \in Pieces}

TestedTexts == Short \cup UNION {Changed(w) \cup Dropped(w) \cup Inserted(w) : w \in Samples}
=============================================================================
