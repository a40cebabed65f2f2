--------------------------- MODULE SerializationMC ---------------------------
(***************************************************************************)
(* Short strings, and buffers and numbers that are as short.               *)
(***************************************************************************)
EXTENDS Serialization

Strings(chars, n) == UNION {[1 .. k -> chars] : k \in 0 .. n}

MCChars == {"a", "@", "p", "c", "n"}
MCUsers == Strings({"a", "@"}, 4)
MCPasswords == Strings({"p"}, 3) \cup {<<"@", "p">>}
MCAccounts == {<<"a">>}
MCGarbage == {<<>>, <<"a">>}
MCComputerName == <<"c", "n">>
MCLabels == {NULL, <<"l">>}
=============================================================================
