-------------------------- MODULE MCConsoleHistory --------------------------
(* Values of the constants of ConsoleHistory for TLC: the lines are empty, *)
(* blank, x, the same with spaces around it, y, and one that holds both.   *)
EXTENDS ConsoleHistory

CONSTANTS empty, blank, x, xspace, y, xy

TrimSpaces == [l \in Line |-> IF l = blank THEN empty ELSE IF l = xspace THEN x ELSE l]
Substrings == {<<l, l>> : l \in Line} \cup {<<x, xspace>>, <<x, xy>>, <<y, xy>>}
OldHistory == {<< >>, <<x, xy, x>>}
=============================================================================
