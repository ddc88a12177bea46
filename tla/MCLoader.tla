------------------------------ MODULE MCLoader ------------------------------
(***************************************************************************)
(* Images of two files out of a complete ELF file with and without a       *)
(* loadable segment, some whose header or table is cut off, one with an    *)
(* empty table, a text file and an empty file.                             *)
(***************************************************************************)
EXTENDS Loader

MCDevNames == <<"/dev/serial", "/dev/null">>

MCFileData == {
  <<3, 4, 2, 2, 0, 2, 1, 2>>, <<3, 4, 2, 2, 0, 2, 2, 2>>, <<3, 5, 1, 2, 0, 1, 2>>,
  <<3, 4, 2, 2, 0, 2, 1>>, <<3, 4, 2, 2, 0>>, <<3, 5, 2, 2, 0>>, <<3, 4, 1>>, <<3, 4, 0, 2>>,
  <<3>>, <<2, 4, 1, 2, 1, 2>>, <<>>}
=============================================================================
