------------------------------- MODULE Xargs -------------------------------
(***************************************************************************)
(* user/src/phase6/xargs.c: xargs reads its input into a buffer that       *)
(* doubles as long as a read fills it, cuts the buffer into lines and each *)
(* line into words, both with strtok and its one static pointer, and runs  *)
(* the command of its arguments with the words of each line.               *)
(*                                                                         *)
(* Pointers are addresses of the buffer.  The first buffer is static and   *)
(* zero behind what was read; a buffer from malloc holds whatever was      *)
(* there before (Garbage).                                                 *)
(***************************************************************************)
EXTENDS Integers, Sequences, SequencesExt, Strings

CONSTANTS
  SBUFSIZE,
  MAXARG,
  Command,    \* argv[1 ..]: the command and its own arguments
  Texts,      \* what there is to read
  Garbage     \* what may lie in the heap behind the bytes that were read

VARIABLE s

NEWLINE == 10
BLANKS == {32, 9}

Init ==
  \E text \in Texts :
    s = [text |-> text, off |-> 0, size |-> SBUFSIZE, m |-> <<>>, behind |-> <<>>, short |-> FALSE,
         pc |-> "read", lasts |-> NULL, line |-> NULL, end |-> NULL, next |-> NULL, ran |-> <<>>]

-----------------------------------------------------------------------------
(* Reading: main.                                                          *)

Left == Len(s.text) - s.off
\* The buffer as memory, with what lies behind the bytes that were read and a
\* zero after that.
Buffer(n, behind) ==
  LET b == SubSeq(s.text, 1, s.off + n) \o behind \o <<0>> IN [a \in 0 .. (Len(b) - 1) |-> b[a + 1]]
\* How much the next read asks for: at first all of static_buf, then half.
Asked == IF s.size = SBUFSIZE THEN SBUFSIZE ELSE s.size \div 2

read_full ==
  /\ s.pc = "read" /\ Left >= Asked
  /\ s' = [s EXCEPT !.off = @ + Asked, !.size = @ * 2]
\* A read that does not fill its part, or fails (n = 0), is the last.
read_last(n, g) ==
  /\ s.pc = "read" /\ n < Asked /\ n <= Left
  /\ s.size = SBUFSIZE => g = <<>>
  /\ s' = [s EXCEPT !.off = @ + n, !.m = Buffer(n, g), !.behind = g, !.short = n < Left,
                    !.pc = "lines"]
\* The first malloc is checked; a later one that fails ends in a fault.
malloc_failed ==
  /\ s.pc = "read" /\ s.size > SBUFSIZE
  /\ s' = [s EXCEPT !.pc = "failed"]

-----------------------------------------------------------------------------
(* Variants of the definitions below, each with one plausible mistake.     *)

\* strtok goes on with the lines from where it left off, in the words.
GoesOn(m, line, end) == NULL

-----------------------------------------------------------------------------
(* exec_by_args.                                                           *)

\* next_line, behind a line that is a string by now.
NextLine(m, line, end) ==
  LET next == line + strlen(m, line) + 1 IN IF next > end THEN NULL ELSE next
\* this_line = strtok(from, "\n")
Cut(from, end) ==
  LET r == strtok(s.m, from, {NEWLINE}, s.lasts)
  IN  s' = [s EXCEPT !.m = r.m, !.lasts = r.lasts, !.line = r.tok, !.end = end,
                     !.pc = IF r.tok = NULL THEN "done" ELSE "run",
                     !.next = IF r.tok = NULL THEN NULL ELSE NextLine(r.m, r.tok, end)]
first_line ==
  /\ s.pc = "lines"
  /\ Cut(0, strlen(s.m, 0))
next_line ==
  /\ s.pc = "next"
  /\ Cut(s.next, s.end)

\* parse_arg: the loop, with the arguments so far, the pointer to the next one
\* and what strtok left; argv holds pointers behind the Command.
RECURSIVE Split(_, _, _)
Split(argv, args, r) ==
  IF Len(Command) + Len(argv) + 1 > MAXARG THEN [ok |-> FALSE, argv |-> argv, r |-> r]
  ELSE LET t == strtok(r.m, NULL, BLANKS, r.lasts)
       IN  IF t.tok = NULL THEN [ok |-> TRUE, argv |-> Append(argv, args), r |-> t]
           ELSE Split(Append(argv, args), t.tok, t)
\* The first argument starts where the line does, not where strtok found it.
parse_arg(args) == Split(<<>>, args, strtok(s.m, args, BLANKS, s.lasts))

Str(m, p) == [i \in 1 .. strlen(m, p) |-> m[p + i - 1]]
Run(p) ==
  IF p.ok
  THEN s' = [s EXCEPT !.m = p.r.m, !.lasts = p.r.lasts, !.pc = "next",
                      !.ran = Append(@, Command \o [i \in DOMAIN p.argv |-> Str(p.r.m, p.argv[i])])]
  ELSE s' = [s EXCEPT !.pc = "failed"]
\* exec_another: the child runs the command, or fails to; xargs waits for it.
run_line ==
  /\ s.pc = "run"
  /\ Run(parse_arg(s.line))
fork_failed ==
  /\ s.pc = "run"
  /\ s' = [s EXCEPT !.pc = "failed"]

Next ==
  \/ read_full \/ malloc_failed \/ first_line \/ next_line \/ run_line \/ fork_failed
  \/ \E n \in 0 .. Asked : \E g \in Garbage : read_last(n, g)

-----------------------------------------------------------------------------
(* Properties.                                                             *)

\* The pieces of t between its separators, none of them empty.
Pieces(t, seps) ==
  LET in == {i \in DOMAIN t : t[i] \notin seps}
      starts == SetToSortSeq({i \in in : i - 1 \notin in}, <)
      ends == SetToSortSeq({i \in in : i + 1 \notin in}, <)
  IN  [k \in DOMAIN starts |-> SubSeq(t, starts[k], ends[k])]
\* The words of a line; blanks in front stay with the first.
Words(l) ==
  LET ws == Pieces(l, BLANKS)
      lead == {i \in DOMAIN l : \A j \in 1 .. i : l[j] \in BLANKS}
      blanks == SubSeq(l, 1, Cardinality(lead))
  IN  IF ws = <<>> THEN <<l>> ELSE <<blanks \o ws[1]>> \o Tail(ws)
Runs(t) ==
  LET ls == Pieces(t, {NEWLINE}) IN [k \in DOMAIN ls |-> Command \o Words(ls[k])]

\* Each line that is not empty becomes one run, with the words of that line and of
\* no other, in the order of the lines, although cutting the words uses the static
\* pointer that cuts the lines.  What lies in the heap behind the input adds to its
\* last line or stands for lines of its own; the lines that were read to their end
\* are run as they are.  When no read was short of what was there, those are all
\* the lines there are.
RunsLines ==
  LET runs == Runs(SubSeq(s.text, 1, s.off) \o s.behind)
      ends == {i \in 1 .. s.off : s.text[i] = NEWLINE}
      read == Runs(SubSeq(s.text, 1, Max({0} \cup ends)))
  IN  /\ s.pc \in {"run", "next", "failed"} => IsPrefix(s.ran, runs)
      /\ s.pc = "done" => s.ran = runs /\ IsPrefix(read, s.ran)
      /\ s.pc = "done" /\ ~s.short => s.off = Len(s.text)
      /\ \A k \in DOMAIN s.ran : Len(s.ran[k]) <= MAXARG

=============================================================================
