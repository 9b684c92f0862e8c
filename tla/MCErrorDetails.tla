-------------------------- MODULE MCErrorDetails --------------------------
(* Query strings and leaves for the run of ErrorDetails.                     *)
EXTENDS ErrorDetails

Pair(name, encoded) ==
    [key |-> [name |-> name, encoded |-> encoded, broken |-> FALSE],
     hasEq |-> TRUE, lost |-> FALSE, value |-> <<"leaf", 1>>]
Broken(name) == [Pair(name, 0) EXCEPT !.key.broken = TRUE]
Lost(name) == [Pair(name, 0) EXCEPT !.lost = TRUE]
KeyOnly(name) == [Pair(name, 0) EXCEPT !.hasEq = FALSE, !.value = Nil]

\* A key to redact in capitals and encoded, and one that no longer is a key to
\* redact; pairs that have no value or that the handler loses.
MCQueries == {<<Pair("PASSWORD", 1), Pair("Code", 2)>>,
              <<Broken("Code"), Lost("code"), KeyOnly("code"), Pair("code", 1)>>}
MCKeys == {"code"}
MCLeaves == {<<"leaf", 2>>}
MCTypedValues == {<<"typed", "ids">>}
===========================================================================
