------------------------------ MODULE MCEasyFS ------------------------------
(***************************************************************************)
(* Every image of up to MAX_FILE files with names from Names and lengths   *)
(* from 0 to two sectors and a byte, then every sequence of iopen and      *)
(* iread.  Neighbouring bytes of a file differ, and so do files of         *)
(* different lengths.                                                      *)
(***************************************************************************)
EXTENDS EasyFS

CONSTANT MaxData   \* bound: length of a file

MCDevNames == <<"/dev/serial", "/dev/null">>
MCFileData == {[k \in 1 .. n |-> 1 + ((n + k) % 3)] : n \in 0 .. MaxData}
=============================================================================
