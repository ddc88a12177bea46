---------------------------- MODULE MCBlockCache ----------------------------
(* Instance of BlockCache for TLC.                                         *)
EXTENDS BlockCache

\* One word, a range across the border of the sectors, one that is too long.
MCRanges == {<<0, 1>>, <<1, 2>>, <<3, 2>>}
=============================================================================
