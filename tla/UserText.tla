------------------------------ MODULE UserText ------------------------------
(***************************************************************************)
(* The string functions and the filters as parts of the sequential code of *)
(* user space: prog is the part that runs, st its state.  UserPrograms has *)
(* the other parts; these reach no recursive operator and are proved       *)
(* about.                                                                  *)
(***************************************************************************)
EXTENDS Integers, Sequences

CONSTANTS
  MemSize, Chars,              \* StringCalls
  BUFSIZE, LINES, FileLists    \* Filters

ASSUME StringsAssumption == MemSize \in Nat \ {0} /\ Chars \subseteq Nat
ASSUME FiltersAssumption ==
  /\ BUFSIZE \in Nat \ {0} /\ LINES \in Nat \ {0}
  /\ FileLists \subseteq Seq([there : BOOLEAN, text : Seq(Nat)])

VARIABLES prog, st

Strs == INSTANCE StringCalls WITH s <- st
Filt == INSTANCE Filters WITH s <- st, Inputs <- FileLists

StringsInit == prog = "strings" /\ Strs!Init
strings == prog = "strings" /\ Strs!Next /\ UNCHANGED prog
StringsSpec == StringsInit /\ [][strings]_<<prog, st>>

FiltersInit == prog = "filters" /\ Filt!Init
filters == prog = "filters" /\ Filt!Next /\ UNCHANGED prog
FiltersSpec == FiltersInit /\ [][filters]_<<prog, st>>

\* StringCalls: the string functions find, compare and write what they promise,
\* memmove also when source and target overlap.
Strings_KeepPromises == prog = "strings" => Strs!FindsRight /\ Strs!WritesRight
\* Filters: cat, wc and head do not depend on how read() cuts the files up.
Filters_Cuts == prog = "filters" => Filt!CutsDoNotMatter

=============================================================================
