-------------------------------- MODULE Grep --------------------------------
(***************************************************************************)
(* user/src/phase6/grep.c: the loop that cuts what read() gives into lines *)
(* and carries the rest of a line over to the next read, and the matcher.  *)
(* A pattern is a sequence of characters; read() gives any number of bytes *)
(* up to what it is asked for, or fails.  out is what write() was given    *)
(* for each file: grep does not look at what write() returns.              *)
(***************************************************************************)
EXTENDS Integers, Sequences, SequencesExt, Strings

CONSTANTS
  SIZE,    \* bytes of buf
  Calls    \* calls: [pattern, files], a file being [there, text]

VARIABLE s

NEWLINE == 10
HAT == 94
DOT == 46
STAR == 42
DOLLAR == 36

-----------------------------------------------------------------------------
(* Variants of the definitions below, each with one plausible mistake.     *)

\* The rest of a line is counted but stays where it is.
StaysPut(b, p, n) == b

-----------------------------------------------------------------------------
(* match, matchhere and matchstar.                                         *)

Re0(re) == IF re = <<>> THEN 0 ELSE re[1]
Re1(re) == IF Len(re) < 2 THEN 0 ELSE re[2]

RECURSIVE matchhere(_, _)
RECURSIVE matchstar(_, _, _)
matchhere(re, text) ==
  IF re = <<>> THEN TRUE
  ELSE IF Re1(re) = STAR THEN matchstar(re[1], Tail(Tail(re)), text)
  ELSE IF re = <<DOLLAR>> THEN text = <<>>
  ELSE /\ text # <<>> /\ re[1] \in {DOT, text[1]}
       /\ matchhere(Tail(re), Tail(text))
matchstar(c, re, text) ==
  \/ matchhere(re, text)
  \/ text # <<>> /\ c \in {text[1], DOT} /\ matchstar(c, re, Tail(text))

match(re, text) ==
  IF Re0(re) = HAT THEN matchhere(Tail(re), text)
  ELSE \E i \in 1 .. (Len(text) + 1) : matchhere(re, SubSeq(text, i, Len(text)))

-----------------------------------------------------------------------------
(* grep and main.                                                          *)

Init ==
  \E call \in Calls :
    s = [pattern |-> call.pattern, files |-> call.files, f |-> 1, off |-> 0, pc |-> "open",
         buf |-> [a \in 0 .. (SIZE - 1) |-> 0], m |-> 0, p |-> 0,
         out |-> [i \in DOMAIN call.files |-> <<>>], lost |-> FALSE]

Text == s.files[s.f].text
open ==
  /\ s.pc = "open" /\ s.f <= Len(s.files)
  /\ s' = [s EXCEPT !.pc = IF s.files[s.f].there THEN "read" ELSE "failed", !.off = 0, !.m = 0]
exit0 ==
  /\ s.pc = "open" /\ s.f > Len(s.files)
  /\ s' = [s EXCEPT !.pc = "done"]

\* n = read(fd, buf + m, sizeof(buf) - m - 1) > 0
read(n) ==
  /\ s.pc = "read" /\ n <= Len(Text) - s.off /\ n <= SIZE - s.m - 1
  /\ s' = [s EXCEPT !.off = @ + n, !.m = @ + n, !.p = 0, !.pc = "lines",
                    !.buf = [a \in DOMAIN @ |->
                               IF a \in s.m .. (s.m + n - 1) THEN Text[s.off + a - s.m + 1]
                               ELSE IF a = s.m + n THEN 0 ELSE @[a]]]

line ==
  LET q == strchr(s.buf, s.p, NEWLINE)
      text == [i \in 1 .. (q - s.p) |-> s.buf[s.p + i - 1]]
  IN
  /\ s.pc = "lines" /\ q # NULL
  /\ s' = [s EXCEPT !.out[s.f] = IF match(s.pattern, text) THEN @ \o text \o <<NEWLINE>> ELSE @,
                    !.buf = IF match(s.pattern, text) THEN @ ELSE [@ EXCEPT ![q] = 0],
                    !.p = q + 1]

\* The rest of a line goes to the front.
Moved(b, p, n) == memmove(b, 0, p, n)
carry ==
  /\ s.pc = "lines" /\ strchr(s.buf, s.p, NEWLINE) = NULL
  /\ s' = [s EXCEPT !.m = @ - s.p, !.pc = "read", !.buf = Moved(@, s.p, s.m - s.p)]

\* read() returns 0, at the end of the file or when there is no room to read, or
\* -1, which grep takes for the end as well (lost remembers it).
Nothing == s.off = Len(Text) \/ s.m = SIZE - 1
close ==
  /\ s.pc = "read"
  /\ s' = [s EXCEPT !.pc = "open", !.f = @ + 1, !.lost = @ \/ ~Nothing]

Next == open \/ exit0 \/ line \/ carry \/ close \/ \E n \in 1 .. SIZE : read(n)

-----------------------------------------------------------------------------
(* Properties.                                                             *)

\* A pattern as items, each one character or any number of it.
Plain(re) ==
  LET a == IF Re0(re) = HAT THEN Tail(re) ELSE re
  IN  IF a # <<>> /\ Last(a) = DOLLAR THEN Front(a) ELSE a
RECURSIVE Items(_)
Items(re) ==
  IF re = <<>> THEN <<>>
  ELSE IF Re1(re) = STAR THEN <<[c |-> re[1], star |-> TRUE]>> \o Items(Tail(Tail(re)))
  ELSE <<[c |-> re[1], star |-> FALSE]>> \o Items(Tail(re))
\* A text matches when it can be cut so that every item stands for its piece, with
\* the first cut at the start after ^ and the last at the end before $.
Matches(re, t) ==
  LET items == Items(Plain(re))
      k == Len(items)
  IN  \E cut \in [0 .. k -> 0 .. Len(t)] :
        /\ \A i \in 1 .. k :
             /\ IF items[i].star THEN cut[i - 1] <= cut[i] ELSE cut[i - 1] + 1 = cut[i]
             /\ \A j \in (cut[i - 1] + 1) .. cut[i] : items[i].c \in {DOT, t[j]}
        /\ Re0(re) = HAT => cut[0] = 0
        /\ Len(Plain(re)) < Len(re) /\ Last(re) = DOLLAR => cut[k] = Len(t)

\* The lines of a text that end, each with its newline.
Lines(t) ==
  LET ends == SetToSortSeq({i \in DOMAIN t : t[i] = NEWLINE}, <)
  IN  [i \in DOMAIN ends |-> SubSeq(t, IF i = 1 THEN 1 ELSE ends[i - 1] + 1, ends[i])]
\* Those before the first that does not fit into buf.
Seen(t) ==
  LET ls == Lines(t)
      long == {i \in DOMAIN ls : Len(ls[i]) > SIZE - 1}
  IN  IF long = {} THEN ls ELSE SubSeq(ls, 1, (CHOOSE i \in long : \A j \in long : i <= j) - 1)
Shown(t) == FlattenSeq(SelectSeq(Seen(t), LAMBDA l : Matches(s.pattern, Front(l))))

\* However read() cuts the texts up, grep shows the lines that match its pattern,
\* whole, in order and once, up to the first line that does not fit into buf; only
\* an open or a read that fails cuts this short.
ShowsMatches ==
  \A i \in DOMAIN s.files :
    /\ IsPrefix(s.out[i], Shown(s.files[i].text))
    /\ s.pc = "done" /\ ~s.lost => s.out[i] = Shown(s.files[i].text)

=============================================================================
