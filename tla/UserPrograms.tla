---------------------------- MODULE UserPrograms ----------------------------
(***************************************************************************)
(* The sequential code of user space, one part at a time: prog is the part *)
(* that runs and st its state (UserText).  The parser of the shell has     *)
(* its own variables (ShellParse); the others are instances with st for    *)
(* their s.  Below are the calls, texts and lines they are tried on.       *)
(***************************************************************************)
EXTENDS ShellParse, UserText

CONSTANTS
  WIDTH, NumberChars, MaxStr, Bases,    \* Numbers, Printf
  SIZE,                       \* Grep
  SBUFSIZE, MAXARG,           \* Xargs
  MAX_ARGS_NUM                \* Shell1

allvars == <<vars, prog, st>>

\* Texts of up to n characters; 10 is the newline, 32 the blank, 97 and 98 letters.
Text(n, chars) == UNION {[1 .. k -> chars] : k \in 0 .. n}
There(t) == [there |-> TRUE, text |-> t]
Missing == [there |-> FALSE, text |-> <<>>]

\* Directives of printf: every conversion with pairs of flags, widths and
\* precisions of each kind.  An address comes with what it ought to look like.
Address ==
  [bytes |-> <<0, 9, 10, 255, 100, 171>>,
   mac |-> <<"0", "0", ":", "0", "9", ":", "0", "a", ":", "f", "f", ":", "6", "4", ":", "a", "b">>,
   ip |-> <<"0", ".", "9", ".", "1", "0", ".", "2", "5", "5">>]
Given(c) ==
  CASE c \in {"d", "u", "x", "X", "o", "p"} -> {0, 9, 16, 31} [] c = "c" -> {"y"}
    [] c = "s" -> {<<>>, <<"a", "b", "c", "d">>, <<"NULL">>} [] c = "a" -> {Address} [] OTHER -> {0}
FlagLists == {<<>>} \cup {<<a>> : a \in {"-", "+", " ", "#", "0"}} \cup {<<a, b>> : a, b \in {"-", "+", "#", "0"}}
Amt(kind, n) == [kind |-> kind, n |-> n]
Directives ==
  {d \in UNION {[flags : FlagLists,
                 width : {Amt("none", 0), Amt("digits", 1), Amt("digits", 20), Amt("star", 5), Amt("star", -5)},
                 prec : {Amt("none", 0), Amt("bare", 0), Amt("digits", 3), Amt("star", -1)},
                 qual : BOOLEAN, conv : {c}, arg : Given(c)] :
                   c \in {"d", "u", "x", "X", "o", "p", "c", "s", "a", "%", "q"}} :
     d.qual => d.conv \in {"d", "a"}}

\* Argument lists of the filters, calls of grep, inputs of xargs, typed lines.
FilterInputs ==
  {<<There(t)>> : t \in Text(5, {10, 97}) \cup Text(4, {10, 32, 97}) \cup Text(3, {0, 10, 97})}
    \cup {<<There(t), There(u)>> : t, u \in Text(2, {10, 97})} \cup {<<There(<<97>>), Missing>>}
GrepCalls ==
  {[pattern |-> p, files |-> <<There(<<10, 97, 10, 98, 97, 10, 97, 98, 97, 10>>)>>] : p \in Text(3, {97, 46, 42, 94, 36})}
    \cup {[pattern |-> <<46>>, files |-> <<There(t)>>] : t \in Text(7, {97, 10})}
    \cup {[pattern |-> <<97>>, files |-> <<There(<<98, 10, 98>>), f>>] : f \in {There(<<97, 10>>), Missing}}
XargsTexts == Text(5, {97, 32, 10}) \cup Text(7, {97, 10})
TypedLines == {<<l \o <<10>>, k \o <<10>>>> : l \in Text(5, {97, 32}), k \in Text(3, {98, 32})}

Nums == INSTANCE Numbers WITH s <- st, Alphabet <- NumberChars
Prin == INSTANCE Printf WITH s <- st
Grp == INSTANCE Grep WITH s <- st, Calls <- GrepCalls
Xrg == INSTANCE Xargs WITH s <- st, Command <- << <<99>> >>, Texts <- XargsTexts, Garbage <- {<<>>, <<97>>, <<10, 97>>}
Sh1 == INSTANCE Shell1 WITH s <- st, Typed <- TypedLines, Litter <- {0, Xrg!NULL}

InitAll ==
  /\ Init
  /\ \/ prog = "parse" /\ st = <<>>
     \/ StringsInit
     \/ prog = "numbers" /\ Nums!Init
     \/ prog = "printf" /\ Prin!Init
     \/ FiltersInit
     \/ prog = "grep" /\ Grp!Init
     \/ prog = "xargs" /\ Xrg!Init
     \/ prog = "shell1" /\ Sh1!Init

parse == prog = "parse" /\ Next /\ UNCHANGED <<prog, st>>
numbers == prog = "numbers" /\ Nums!Next /\ UNCHANGED <<vars, prog>>
printf == prog = "printf" /\ Prin!Next /\ UNCHANGED <<vars, prog>>
grep == prog = "grep" /\ Grp!Next /\ UNCHANGED <<vars, prog>>
xargs == prog = "xargs" /\ Xrg!Next /\ UNCHANGED <<vars, prog>>
shell1 == prog = "shell1" /\ Sh1!Next /\ UNCHANGED <<vars, prog>>

NextAll == parse \/ (strings /\ UNCHANGED vars) \/ numbers \/ printf \/ (filters /\ UNCHANGED vars) \/ grep \/ xargs \/ shell1
SpecAll == InitAll /\ [][NextAll]_allvars

-----------------------------------------------------------------------------
(* The properties of the parts.                                            *)

\* ShellParse: the parser accepts exactly its grammar, and the words it keeps end
\* where they were typed to end.
Parse_Grammar == prog = "parse" => ParsesGrammar /\ WordsEnd
\* Numbers: numbers are read up to the limits of their width, and read back as
\* they were written.
Numbers_RoundTrip == prog = "numbers" => Nums!ReadsNumber /\ Nums!WritesBack
\* Printf: every directive prints its field and takes its own arguments.
Printf_Fields == prog = "printf" => Prin!PrintsFields
\* Grep: the lines shown are those that match, however read() cuts the text up.
Grep_Matches == prog = "grep" => Grp!ShowsMatches
\* Xargs: one run for each line, with the words of that line.
Xargs_Lines == prog = "xargs" => Xrg!RunsLines
\* Shell1: a command gets the words of its line.
Shell1_Words == prog = "shell1" => Sh1!GetsItsWords

=============================================================================
