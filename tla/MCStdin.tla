------------------------------ MODULE MCStdin -------------------------------
(* Every input of up to MaxInput characters.                                  *)
EXTENDS Stdin, SequencesExt

CONSTANT MaxInput

MCInputs == BoundedSeq(Char, MaxInput)
=============================================================================
