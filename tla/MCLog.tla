------------------------------- MODULE MCLog -------------------------------
(* Finite instances of Log for TLC. *)
EXTENDS Log

\* Nothing, and a string that leaves room for one byte in the buffer of the runs.
SomeStrings == {<<>>, <<"a", "b", "c">>}
ShortStrings == {<<"a">>, <<"a", "b">>}
=============================================================================
