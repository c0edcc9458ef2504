---------------------------- MODULE MCLoadedDicts ----------------------------
(* Three dictionaries, the last of which may be imported again; scores that  *)
(* tie within a dictionary and interleave between them.                      *)
EXTENDS LoadedDicts
TitlesApart == [p \in Paths |-> p]
MCRows == [p \in Paths |-> CASE p = "a" -> <<1, 3, 1>> [] p = "b" -> <<2>> [] OTHER -> <<3, 0>>]
MCOrders == {<<>>, <<"c">>, <<"b", "a">>, <<"c", "a", "b">>, <<"b", "c", "b">>}
MCImports == [p \in Paths |-> IF p = "c" THEN 2 ELSE 1]
=============================================================================
