------------------------------ MODULE MCServer ------------------------------
(* Instances of Server for TLC.                                            *)
EXTENDS Server, TLC

\* A request in one piece or two, with a body behind it, and no request at all.
AnyScripts == {<<"start", "end", "nl">>, <<"text">>, <<"start", "end">>}

Interchangeable == Permutations(Threads) \cup Permutations(Sessions)
=============================================================================
