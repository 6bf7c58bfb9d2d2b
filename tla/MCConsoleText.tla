--------------------------- MODULE MCConsoleText ---------------------------
(* Values of the constants of ConsoleText for TLC: a line of output, and a *)
(* part of one.                                                            *)
EXTENDS ConsoleText

PartsOfOutput == {<<"output">>, <<"part">>}
=============================================================================
