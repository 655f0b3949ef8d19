--------------------------- MODULE MCRequestParser ---------------------------
(* Instances of RequestParser for TLC.                                     *)
EXTENDS RequestParser

Version == <<"H", "T", "T", "P", "/", "DIGIT", ".", "DIGIT">>
Line(m, u, v) == m \o <<"SP">> \o u \o <<"SP">> \o v \o <<"CR", "LF">>
Plain == Line(<<"CHAR">>, <<"/">>, Version)
Field == <<"CHAR", ":", "SP", "CHAR", "CR", "LF">>
Empty == <<"H", ":", "SP", "CR", "LF">>
Folded == <<"SP", "TAB", "HIGH", "CR", "LF">>
End == <<"CR", "LF">>

\* Requests that use every part of the grammar.
Requests == {
  Plain \o End,
  Line(<<"T", "DIGIT">>, <<>>, Version) \o Empty \o End,
  Line(<<"P">>, <<"CHAR", ":">>, Version) \o Field \o Folded \o End,
  Plain \o Field \o Empty \o End \o <<"LF">>}

\* Each of them with one character replaced by any other.
OneChanged ==
  UNION {{[w EXCEPT ![i] = c] : i \in 1 .. Len(w), c \in Chars} : w \in Requests}

\* Each with one character left out.
OneDropped ==
  UNION {{SubSeq(w, 1, i - 1) \o SubSeq(w, i + 1, Len(w)) : i \in 1 .. Len(w)} : w \in Requests}

\* Each with one character put in.
OneInserted ==
  UNION {{SubSeq(w, 1, i) \o <<c>> \o SubSeq(w, i + 1, Len(w)) : i \in 0 .. Len(w), c \in Chars}
           : w \in Requests}

TestedInputs == OneChanged \cup OneDropped \cup OneInserted
=============================================================================
