------------------------------- MODULE Shell1 -------------------------------
(***************************************************************************)
(* The shells of the early phases: user/src/phase2/sh1.c, which turns      *)
(* itself into the command, and user/src/phase3/sh.c, which forks.  Both   *)
(* cut a line in place with strtok into argv, an array on the stack that   *)
(* main fills anew for every line; pointers are addresses of args.         *)
(***************************************************************************)
EXTENDS Integers, Sequences, SequencesExt, Strings

CONSTANTS
  MAX_ARGS_NUM,
  Typed,       \* what may be typed: sequences of lines, as getline leaves them
  Litter       \* what the stack may hold where argv lies: addresses and NULL

VARIABLE s

DELIM == {32, 9, 10}
AsString(l) == LET b == l \o <<0>> IN [a \in 0 .. (Len(b) - 1) |-> b[a + 1]]
\* getline overwrites the start of args and ends it with a zero.
Overwritten(args, l) ==
  [a \in DOMAIN args |-> IF a <= Len(l) THEN AsString(l)[a] ELSE args[a]]

-----------------------------------------------------------------------------
(* Variants of the definitions below, each with one plausible mistake.     *)

\* The end of the list is not marked.
Unmarked(argv, argc) == argv

-----------------------------------------------------------------------------

Longest(lines) == CHOOSE n \in {Len(lines[i]) : i \in DOMAIN lines} : \A i \in DOMAIN lines : Len(lines[i]) <= n
Init ==
  \E prog \in {"sh1", "sh"} : \E lines \in Typed : \E x \in Litter :
    s = [prog |-> prog, lines |-> lines, n |-> 0, pc |-> "prompt", argc |-> 0, lasts |-> NULL,
         args |-> [a \in 0 .. Longest(lines) |-> 0], argv |-> [i \in 0 .. MAX_ARGS_NUM |-> x]]

\* The prompt, and getline.
getline ==
  /\ s.pc = "prompt" /\ s.n < Len(s.lines)
  /\ LET args == Overwritten(s.args, s.lines[s.n + 1])
         r == strtok(args, 0, DELIM, s.lasts)
     IN  s' = [s EXCEPT !.n = @ + 1, !.argc = 0, !.args = r.m, !.lasts = r.lasts,
                        !.pc = IF r.tok = NULL THEN "prompt" ELSE "words",
                        !.argv = IF r.tok = NULL THEN @ ELSE [@ EXCEPT ![0] = r.tok]]

\* for (c = strtok(args, ...); c; c = strtok(NULL, ...)): the word before is
\* counted, the next one found and, if there is room, stored.
Marked(argv, argc) == [argv EXCEPT ![argc] = NULL]
next_word ==
  /\ s.pc = "words"
  /\ LET r == strtok(s.args, NULL, DELIM, s.lasts)
         argc == s.argc + 1
         more == r.tok # NULL /\ argc < MAX_ARGS_NUM
     IN  s' = [s EXCEPT !.args = r.m, !.lasts = r.lasts, !.argc = argc,
                        !.pc = IF more THEN "words" ELSE "exec",
                        !.argv = IF more THEN [@ EXCEPT ![argc] = r.tok]
                                 ELSE IF s.prog = "sh" THEN Marked(@, argc) ELSE @]

\* exec, in sh1 itself or in the child of sh.
exec(ok) ==
  /\ s.pc = "exec"
  /\ s' = [s EXCEPT !.pc = IF s.prog = "sh1" /\ ok THEN "gone" ELSE "prompt"]

Next == getline \/ next_word \/ \E ok \in BOOLEAN : exec(ok)

-----------------------------------------------------------------------------
(* Properties.                                                             *)

\* The words of a line, by where they start and end.
InWords(l) == {i \in DOMAIN l : l[i] \notin DELIM}
Starts(l) == SetToSortSeq({i \in InWords(l) : i - 1 \notin InWords(l)}, <)
Words(l) ==
  LET ends == SetToSortSeq({i \in InWords(l) : i + 1 \notin InWords(l)}, <)
  IN  [k \in DOMAIN ends |-> SubSeq(l, Starts(l)[k], ends[k])]
\* What exec makes of argv: the strings in front of the first NULL.
Passed ==
  LET n == First({i \in DOMAIN s.argv : s.argv[i] = NULL} \cup {MAX_ARGS_NUM + 1})
  IN  [i \in 1 .. n |-> LET p == s.argv[i - 1] IN [k \in 1 .. strlen(s.args, p) |-> s.args[p + k - 1]]]

\* What sh1 leaves in argv[i]: a pointer to where the word of that place started in
\* the last line that had one, whatever args holds there by now, and before there
\* was such a line what the stack held; the place behind the last is never written.
Remains(i) ==
  LET had == {j \in 1 .. s.n : Len(Starts(s.lines[j])) > i}
  IN  IF had = {} THEN s.argv[MAX_ARGS_NUM] ELSE Starts(s.lines[Max(had)])[i + 1] - 1

\* When a command is run, it gets the words of the line, up to MAX_ARGS_NUM of
\* them, and nothing of a line before.  sh1 does not mark the end of argv: its
\* command gets the words of the line first and, behind them, what older lines or
\* the stack left in the places that follow, each of them as the last line that
\* reached it left it.
GetsItsWords ==
  s.pc = "exec" =>
    LET ws == Words(s.lines[s.n])
        due == SubSeq(ws, 1, s.argc)
    IN  /\ s.argc = (IF Len(ws) < MAX_ARGS_NUM THEN Len(ws) ELSE MAX_ARGS_NUM)
        /\ s.prog = "sh" => Passed = due
        /\ s.prog = "sh1" =>
             /\ IsPrefix(due, Passed)
             /\ \A i \in 0 .. (MAX_ARGS_NUM - 1) : s.argv[i] = Remains(i)

=============================================================================
