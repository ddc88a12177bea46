----------------------------- MODULE MCUserTests -----------------------------
(* Instance of UserTests for TLC.                                          *)
EXTENDS UserTests

\* map[][] of dfstest.c: the places that are no wall, dfs_test's, and '+'.
MCCells == {<<1, 1>>, <<1, 2>>, <<1, 3>>, <<2, 2>>, <<2, 3>>}
MCStart == <<1, 1>>
MCDest == <<1, 3>>
=============================================================================
