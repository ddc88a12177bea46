------------------------------ MODULE Numbers ------------------------------
(***************************************************************************)
(* lib/src/stdlib: strtol, strtoul, itoa, utoa and atoi, with a long of    *)
(* WIDTH bits.  A string is a sequence of characters without its zero.  s  *)
(* is one call: a string read in a base, or a number written.              *)
(***************************************************************************)
EXTENDS Integers, Sequences, SequencesExt

CONSTANTS
  WIDTH,      \* bits of int and long
  Alphabet,   \* characters of the strings that are read
  MaxStr,     \* bound: their length
  Bases       \* the bases tried

VARIABLE s

LONG_MAX == 2 ^ (WIDTH - 1) - 1
LONG_MIN == -(2 ^ (WIDTH - 1))
ULONG_MAX == 2 ^ WIDTH - 1
Unsigned(n) == n % 2 ^ WIDTH
Signed(n) == IF Unsigned(n) > LONG_MAX THEN Unsigned(n) - 2 ^ WIDTH ELSE Unsigned(n)

digits == <<"0", "1", "2", "3", "4", "5", "6", "7", "8", "9", "a", "b", "c", "d", "e", "f">>
\* A character that is no digit counts as one that no base has.
Value(c) == IF c \in Range(digits) THEN (CHOOSE i \in DOMAIN digits : digits[i] = c) - 1 ELSE 99

-----------------------------------------------------------------------------
(* Variants of the definitions below, each with one plausible mistake.     *)

\* The last digit is not compared with the limit.
TooBigLate(acc, c, max, base) == acc > max \div base

-----------------------------------------------------------------------------
(* Reading.                                                                *)

At(str, i) == IF i <= Len(str) THEN str[i] ELSE "NUL"

\* The place of the first digit, the sign and the base, as both functions find
\* them: blanks, a sign, and 0x where the base allows it.
Prefix(str, base) ==
  LET b == CHOOSE i \in 1 .. (Len(str) + 1) : At(str, i) # " " /\ \A j \in 1 .. (i - 1) : str[j] = " "
      d == IF At(str, b) \in {"-", "+"} THEN b + 1 ELSE b
      hex == base \in {0, 16} /\ At(str, d) = "0" /\ At(str, d + 1) = "x"
  IN  [at |-> IF hex THEN d + 2 ELSE d, neg |-> At(str, b) = "-",
       base |-> IF hex THEN 16 ELSE IF base = 0 THEN (IF At(str, d) = "0" THEN 8 ELSE 10) ELSE base]

TooBig(acc, c, max, base) == acc > max \div base \/ (acc = max \div base /\ c > max % base)

\* The loop over the digits from p on: acc, any (-1 after an overflow) and where
\* it stopped.
Loop(str, p, max) ==
  LET stop == CHOOSE i \in p.at .. (Len(str) + 1) :
                Value(At(str, i)) >= p.base /\ \A j \in p.at .. (i - 1) : Value(str[j]) < p.base
      Turn(a, c) ==
        IF a.any < 0 \/ TooBig(a.acc, Value(c), max, p.base) THEN [a EXCEPT !.any = -1]
        ELSE [any |-> 1, acc |-> a.acc * p.base + Value(c)]
  IN  FoldLeft(Turn, [any |-> 0, acc |-> 0], SubSeq(str, p.at, stop - 1)) @@ [stop |-> stop]

\* What is returned and where endptr points, 1 being the start of the string.
NotSet == 0
Ends(a) == IF a.any # 0 THEN a.stop ELSE 1
strtol(str, base) ==
  LET p == Prefix(str, base)
      a == Loop(str, p, IF p.neg THEN -LONG_MIN ELSE LONG_MAX)
  IN  IF base = 1 \/ base > 36 THEN [end |-> NotSet, ret |-> 0]
      ELSE
      [end |-> Ends(a),
       ret |-> IF a.any < 0 THEN (IF p.neg THEN LONG_MIN ELSE LONG_MAX)
               ELSE IF p.neg THEN -a.acc ELSE a.acc]
strtoul(str, base) ==
  LET p == Prefix(str, base)
      a == Loop(str, p, ULONG_MAX)
  IN  [end |-> Ends(a),
       ret |-> IF a.any < 0 THEN ULONG_MAX ELSE IF p.neg THEN Unsigned(-a.acc) ELSE a.acc]
atoi(str) == strtol(str, 10).ret

-----------------------------------------------------------------------------
(* Writing.                                                                *)

\* The digits, last one first, and then turned round.
utoa(value, base) ==
  LET rev[v \in 0 .. ULONG_MAX] ==
        <<digits[(v % base) + 1]>> \o (IF v \div base = 0 THEN <<>> ELSE rev[v \div base])
  IN  IF base < 2 \/ base > 36 THEN <<>> ELSE Reverse(rev[value])
itoa(value, base) ==
  IF base = 10 /\ value < 0 THEN <<"-">> \o utoa(Unsigned(-value), base) ELSE utoa(Unsigned(value), base)

-----------------------------------------------------------------------------

Init == s = [f |-> "none", str |-> <<>>, base |-> 10, value |-> 0, ret |-> 0, end |-> 1]

\* The string to read grows by a character.
type(c) == s.f = "none" /\ Len(s.str) < MaxStr /\ s' = [s EXCEPT !.str = Append(@, c)]
Read(f, base, r) == s.f = "none" /\ s' = [s EXCEPT !.f = f, !.base = base, !.ret = r.ret, !.end = r.end]
read(base) == Read("strtol", base, strtol(s.str, base)) \/ Read("strtoul", base, strtoul(s.str, base))
Write(f, value, base, str) ==
  s.f = "none" /\ s.str = <<>> /\ s' = [s EXCEPT !.f = f, !.value = value, !.base = base, !.str = str]
write(value, base) ==
  \/ value >= 0 /\ Write("utoa", value, base, utoa(value, base))
  \/ value <= LONG_MAX /\ Write("itoa", value, base, itoa(value, base))

Next ==
  \/ \E c \in Alphabet : type(c)
  \/ \E b \in Bases : read(b) \/ \E v \in LONG_MIN .. ULONG_MAX : write(v, b)

-----------------------------------------------------------------------------
(* Properties.                                                             *)

\* The number that the digits of t stand for, as large as it may be.
Number(t, base) == FoldLeft(LAMBDA n, c : n * base + Value(c), 0, t)
Clamp(n, lo, hi) == IF n < lo THEN lo ELSE IF n > hi THEN hi ELSE n

\* Reading gives the number that is written, or the nearest limit when it has no
\* place in WIDTH bits, and the end of its digits; without digits 0 and the
\* start.  strtoul counts a negative number from the top.
ReadsNumber ==
  s.f \in {"strtol", "strtoul"} =>
    LET p == Prefix(s.str, s.base)
        after == {i \in p.at .. Len(s.str) : \A j \in p.at .. i : Value(s.str[j]) < p.base}
        last == IF after = {} THEN 0 ELSE CHOOSE i \in after : \A j \in after : j <= i
        n == Number(SubSeq(s.str, p.at, last), p.base)
    IN  /\ s.base # 1 => s.end = IF after = {} THEN 1 ELSE last + 1
        /\ s.f = "strtol" /\ s.base # 1 => s.ret = Clamp(IF p.neg THEN -n ELSE n, LONG_MIN, LONG_MAX)
        /\ s.f = "strtoul" =>
             s.ret = IF n > ULONG_MAX THEN ULONG_MAX ELSE IF p.neg THEN Unsigned(-n) ELSE n

\* What itoa and utoa write, the smallest number too, reads back as it was, with
\* no digit too many.
WritesBack ==
  /\ s.f = "utoa" /\ s.base > 1 => strtoul(s.str, s.base).ret = s.value /\ (Len(s.str) > 1 => s.str[1] # "0")
  /\ s.f = "itoa" /\ s.base > 1 => (IF s.base = 10 THEN atoi(s.str) ELSE Signed(strtoul(s.str, s.base).ret)) = s.value

=============================================================================
