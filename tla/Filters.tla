------------------------------ MODULE Filters ------------------------------
(***************************************************************************)
(* user/src/phase6: cat, wc and head, over the files of their arguments    *)
(* (standard input is a file that is always there).  They share a shape:   *)
(* main opens file after file, and a function reads it through buf, which  *)
(* is static and is never cleared between reads or files.                  *)
(*                                                                         *)
(* read() gives any number of bytes up to what is left, or fails; a write  *)
(* may fail or come out short.  Behind buf lies a zero: the rest of .bss,  *)
(* which none of the three writes.  out is what comes out for each file.   *)
(***************************************************************************)
EXTENDS Integers, Sequences, FiniteSets, Strings

CONSTANTS
  BUFSIZE,    \* bytes of buf
  LINES,      \* the lines that head shows
  Inputs      \* argument lists: sequences of files [there, text]

VARIABLE s

NEWLINE == 10
\* strchr(" \r\t\n\v", c): the zero that ends the list is found as well.
Space(c) == c \in {32, 13, 9, 10, 11, 0}

-----------------------------------------------------------------------------
(* Variants of the definitions below, each with one plausible mistake.     *)

\* Every read starts outside of a word.
ForgetsWord(count) == [count EXCEPT !.inword = FALSE]

-----------------------------------------------------------------------------

Zero == [l |-> 0, w |-> 0, c |-> 0, inword |-> FALSE]
Init ==
  \E prog \in {"cat", "wc", "head"}, files \in Inputs :
    s = [prog |-> prog, files |-> files, f |-> 1, off |-> 0, pc |-> "open",
         buf |-> [a \in 0 .. BUFSIZE |-> 0], n |-> 0, p |-> 0, line |-> 0, count |-> Zero,
         out |-> [i \in DOMAIN files |-> <<>>], longest |-> 0, stale |-> FALSE]

Text == s.files[s.f].text
Left == Len(Text) - s.off
Filled(n) == [a \in 0 .. BUFSIZE |-> IF a < n THEN Text[s.off + a + 1] ELSE s.buf[a]]
\* What write() is given: k bytes of b from p on.
Piece(b, p, k) == [i \in 1 .. k |-> b[p + i - 1]]

\* main, with the variables of the function it calls.
open ==
  /\ s.pc = "open" /\ s.f <= Len(s.files)
  /\ s' = [s EXCEPT !.pc = IF s.files[s.f].there THEN "read" ELSE "failed",
                    !.off = 0, !.line = 0, !.count = Zero]
exit0 ==
  /\ s.pc = "open" /\ s.f > Len(s.files)
  /\ s' = [s EXCEPT !.pc = "done"]

\* What read() leaves; longest and stale remember whether a read was shorter than
\* an earlier one, so that buf holds old bytes behind the new ones.
Got(n, t) ==
  [t EXCEPT !.off = @ + n, !.buf = Filled(n), !.n = n, !.p = 0,
            !.longest = IF n > @ THEN n ELSE @, !.stale = @ \/ n < s.longest]

\* A read of n bytes.  cat writes them at once, of which k come out; wc goes on with
\* what it knows, head with the line it is in.
Carried(count) == count
cat(n, k) ==
  /\ s.prog = "cat"
  /\ s' = Got(n, [s EXCEPT !.out[s.f] = @ \o Piece(Filled(n), 0, k), !.pc = IF k < n THEN "failed" ELSE @])
wc(n) ==
  /\ s.prog = "wc"
  /\ s' = Got(n, [s EXCEPT !.pc = "bytes", !.count = Carried(@)])
head(n) ==
  /\ s.prog = "head"
  /\ s' = Got(n, [s EXCEPT !.pc = "lines"])
read ==
  /\ s.pc = "read" /\ (s.prog = "head" => s.line < LINES)
  /\ \E n \in 1 .. BUFSIZE :
       /\ n <= Left
       /\ wc(n) \/ head(n) \/ \E k \in 0 .. n : cat(n, k)

\* The loop of wc over the bytes of a read.
Counted(k, c) ==
  [l |-> IF c = NEWLINE THEN k.l + 1 ELSE k.l,
   w |-> IF ~Space(c) /\ ~k.inword THEN k.w + 1 ELSE k.w,
   c |-> k.c + 1, inword |-> ~Space(c)]
wc_byte ==
  /\ s.pc = "bytes" /\ s.p < s.n
  /\ s' = [s EXCEPT !.count = Counted(@, s.buf[s.p]), !.p = @ + 1]
wc_end ==
  /\ s.pc = "bytes" /\ s.p = s.n
  /\ s' = [s EXCEPT !.pc = "read"]

\* The inner loop of head: a line that ends in buf, or the rest of buf; k bytes
\* of it come out.
head_line(k) ==
  LET e == strchr(s.buf, s.p, NEWLINE)
      n == IF e = NULL THEN strlen(s.buf, s.p) ELSE e - s.p + 1
  IN
  /\ s.pc = "lines" /\ s.line < LINES
  /\ k <= n
  /\ s' = [s EXCEPT !.out[s.f] = @ \o Piece(s.buf, s.p, k),
                    !.line = IF e = NULL THEN @ ELSE @ + 1, !.p = @ + n,
                    !.pc = IF k < n THEN "failed" ELSE IF e = NULL THEN "read" ELSE @]
head_enough ==
  /\ s.pc = "lines" /\ s.line = LINES
  /\ s' = [s EXCEPT !.pc = "read"]

\* The function returns at the end of the file, or when head has its lines; wc
\* prints what it counted.  close, and the next file.
close ==
  /\ s.pc = "read" /\ (Left = 0 \/ s.line = LINES)
  /\ s' = [s EXCEPT !.pc = "open", !.f = @ + 1,
                    !.out[s.f] = IF s.prog = "wc" THEN << <<s.count.l, s.count.w, s.count.c>> >> ELSE @]
read_error ==
  /\ s.pc = "read" /\ s.line < LINES
  /\ s' = [s EXCEPT !.pc = "failed"]

Next ==
  \/ open \/ exit0 \/ read \/ close \/ read_error \/ wc_byte \/ wc_end \/ head_enough
  \/ \E k \in 0 .. BUFSIZE : head_line(k)

-----------------------------------------------------------------------------
(* Properties.                                                             *)

\* What a file should give, from its text alone.
Newlines(t) == {i \in DOMAIN t : t[i] = NEWLINE}
WordStarts(t) == {i \in DOMAIN t : ~Space(t[i]) /\ (i = 1 \/ Space(t[i - 1]))}
FirstLines(t) ==
  LET ends == {i \in Newlines(t) : Cardinality({j \in Newlines(t) : j <= i}) = LINES}
  IN  IF ends = {} THEN t ELSE SubSeq(t, 1, CHOOSE i \in ends : TRUE)
Promise(t) ==
  CASE s.prog = "cat" -> t
    [] s.prog = "wc" -> << <<Cardinality(Newlines(t)), Cardinality(WordStarts(t)), Len(t)>> >>
    [] s.prog = "head" -> FirstLines(t)

\* However read() cuts the files up, cat prints them, wc counts lines, words that
\* run over the cuts and bytes, head shows the first lines of each; what is out of
\* the file under way, or of the last one after an error, is the beginning of that,
\* and of the files behind it nothing.  For head this holds of text, without zeros,
\* and as long as no read is shorter than an earlier one: it looks for the end of
\* the line in bytes that the read did not write.
IsText == \A i \in DOMAIN s.files : \A j \in DOMAIN s.files[i].text : s.files[i].text[j] # 0
CutsDoNotMatter ==
  (s.prog = "head" => IsText /\ ~s.stale) =>
  \A i \in DOMAIN s.files :
    LET due == Promise(s.files[i].text)
    IN  /\ i < s.f \/ s.pc = "done" => s.out[i] = due
        /\ i = s.f => \E k \in 0 .. Len(due) : s.out[i] = SubSeq(due, 1, k)
        /\ i > s.f /\ s.pc # "done" => s.out[i] = <<>>

=============================================================================
