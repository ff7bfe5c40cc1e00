-------------------------- MODULE MCPinnedSnapshot --------------------------
(***************************************************************************)
(* Two roots, a directory below them and two files; a file of one block or *)
(* of two that agree, so that a mixture shows, and one that is too large.  *)
(***************************************************************************)
EXTENDS PinnedSnapshot, TLC

MCContents == {<<1>>, <<1, 1>>, <<2, 2>>, <<2, 2, 2>>}
Symmetry == Permutations(Dirs) \cup Permutations(Files)
=============================================================================
