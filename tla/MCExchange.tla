----------------------------- MODULE MCExchange -----------------------------
(* Instances of Exchange for TLC.                                          *)
EXTENDS Exchange

\* A request line longer than two characters for each of three reads before a path
\* of the table can match its target.
Headers == <<"M", "M", "M", "M", "M", "M", "U", "U">> \o Blank

\* With a body that fits the buffer and one that does not, that begins with a
\* newline or holds an empty line; two requests in a row; headers that never end.
TestedTexts == {
  Headers, Headers \o <<"LF", "a">>, Headers \o <<"a", "b", "c">>, Headers \o Blank,
  Headers \o <<"U">> \o Blank,
  <<"M", "M", "M", "M", "M", "M", "U", "H", "CR", "LF", "CR", "a", "LF">>}

OneBody == {Headers \o <<"a", "b">>}

Zeros(n) == [i \in 1 .. n |-> Zero]
Leftovers(n) == [i \in 1 .. n |-> Junk]
MemoryZero == {Zeros(MaxLength)}
AnyMemory == MemoryZero \cup {Leftovers(MaxLength)}

Posts == {"post"}
Shallow == {FALSE}
=============================================================================
