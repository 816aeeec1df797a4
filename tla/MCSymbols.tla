----------------------------- MODULE MCSymbols -----------------------------
(***************************************************************************)
(* Instance of Symbols: three names in two buckets.                        *)
(***************************************************************************)
EXTENDS Symbols

MCName == {"a", "b", "c"}
\* "a" and "c" share a bucket
MCHash == [a |-> 2, b |-> 5, c |-> 4]
MCDeclared == UNION {[1 .. n -> Entry] : n \in 0 .. 3}
MCUsed == {<<>>, <<"a">>, <<"c", "b">>}
MCFailures == BOOLEAN
============================================================================
