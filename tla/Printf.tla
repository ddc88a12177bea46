------------------------------- MODULE Printf -------------------------------
(***************************************************************************)
(* lib/src/stdio.c: vsprintf, with a long of WIDTH bits.  A format is a    *)
(* sequence of characters; the arguments are numbers, strings, addresses   *)
(* (bytes) and NULL.  s is one call: the format is made from               *)
(* directives, and a step copies a character or converts a directive.      *)
(* printf, sprintf, fprintf and cprintf hand their arguments on.           *)
(***************************************************************************)
EXTENDS Integers, Sequences, SequencesExt

CONSTANTS
  WIDTH,        \* bits of int and long
  Directives    \* the directives that formats are made from (see Spelled)

VARIABLE s

digits == <<"0", "1", "2", "3", "4", "5", "6", "7", "8", "9", "a", "b", "c", "d", "e", "f">>
upper_digits == <<"0", "1", "2", "3", "4", "5", "6", "7", "8", "9", "A", "B", "C", "D", "E", "F">>
Digit(c) == (CHOOSE i \in 1 .. 10 : digits[i] = c) - 1
is_digit(c) == \E i \in 1 .. 10 : digits[i] = c

\* while (n-- > 0) *str++ = c; and what is left of n after it.
Pad(n, c) == [i \in 1 .. (IF n > 0 THEN n ELSE 0) |-> c]
After(n) == (IF n > 0 THEN 0 ELSE n) - 1

-----------------------------------------------------------------------------
(* Variants of the definitions below, each with one plausible mistake.     *)

\* The width still counts characters that are out.
SizeWithPrefix(size, sign, prefix, precision) == size - Len(sign) - precision

-----------------------------------------------------------------------------
(* number, eaddr and iaddr.                                                *)

Dig(type) == IF "UPPERCASE" \in type THEN upper_digits ELSE digits
\* The digits of num, with one for 0.
Digits(num, base, dig) ==
  LET rev[n \in 0 .. (2 ^ WIDTH - 1)] ==
        IF n = 0 THEN <<>> ELSE Append(rev[n \div base], dig[(n % base) + 1])
  IN  IF num = 0 THEN <<"0">> ELSE rev[num]

\* What is left of the width for padding.
SizeLeft(size, sign, prefix, precision) == size - Len(sign) - Len(prefix) - precision

\* num is the unsigned value of the argument.
number(num, base, size, precision0, type) ==
  LET left == "LEFT" \in type
      zero == "ZEROPAD" \in type /\ ~left
      neg == "SIGN" \in type /\ num >= 2 ^ (WIDTH - 1)
      sign == IF neg THEN <<"-">>
              ELSE IF "SIGN" \notin type THEN <<>>
              ELSE IF "PLUS" \in type THEN <<"+">>
              ELSE IF "SPACE" \in type THEN <<" ">> ELSE <<>>
      prefix == IF "HEX_PREP" \notin type THEN <<>>
                ELSE IF base = 16 THEN <<"0", "x">> ELSE IF base = 8 THEN <<"0">> ELSE <<>>
      tmp == Digits(IF neg THEN 2 ^ WIDTH - num ELSE num, base, Dig(type))
      precision == IF Len(tmp) > precision0 THEN Len(tmp) ELSE precision0
      size1 == SizeLeft(size, sign, prefix, precision)
      size2 == IF zero \/ left THEN size1 ELSE After(size1)
      size3 == IF left THEN size2 ELSE After(size2)
  IN  (IF zero \/ left THEN <<>> ELSE Pad(size1, " ")) \o sign \o prefix
        \o (IF left THEN <<>> ELSE Pad(size2, IF zero THEN "0" ELSE " "))
        \o Pad(precision - Len(tmp), "0") \o tmp \o Pad(size3, " ")

\* A text of fixed length in its field: while (len < size--).
Justified(text, size, type) ==
  LET pad == size - Len(text)
  IN  IF "LEFT" \in type THEN text \o Pad(pad, " ") ELSE Pad(pad, " ") \o text \o Pad(After(pad), " ")

Joined(parts, sep) == Tail(FoldLeft(LAMBDA t, p : t \o <<sep>> \o p, <<>>, parts))
eaddr(addr, size, type) ==
  LET Pair(b) == <<Dig(type)[(b \div 16) + 1], Dig(type)[(b % 16) + 1]>>
  IN  Justified(Joined([i \in 1 .. 6 |-> Pair(addr.bytes[i])], ":"), size, type)
iaddr(addr, size, type) ==
  LET Three(n) == <<digits[(n \div 100) + 1], digits[((n % 100) \div 10) + 1], digits[(n % 10) + 1]>>
      Byte(n) == IF n >= 100 THEN Three(n) ELSE IF n >= 10 THEN Tail(Three(n)) ELSE <<digits[n + 1]>>
  IN  Justified(Joined([i \in 1 .. 4 |-> Byte(addr.bytes[i])], "."), size, type)

-----------------------------------------------------------------------------
(* vsprintf.                                                               *)

At(i) == IF i <= Len(s.fmt) THEN s.fmt[i] ELSE "NUL"
FlagOf == [c \in {"-", "+", " ", "#", "0"} |->
             CASE c = "-" -> "LEFT" [] c = "+" -> "PLUS" [] c = " " -> "SPACE"
               [] c = "#" -> "HEX_PREP" [] c = "0" -> "ZEROPAD"]
\* The first place from i on that is not in a set of characters.
Past(i, set) == CHOOSE j \in i .. (Len(s.fmt) + 1) : At(j) \notin set /\ \A k \in i .. (j - 1) : At(k) \in set
skip_atoi(i, j) == FoldLeft(LAMBDA n, c : n * 10 + Digit(c), 0, SubSeq(s.fmt, i, j - 1))

\* A width or precision at i: a number, a star or neither.  [n, at, args]
Amount(i, args, none) ==
  IF is_digit(At(i)) THEN [n |-> skip_atoi(i, Past(i, ToSet(SubSeq(digits, 1, 10)))),
                           at |-> Past(i, ToSet(SubSeq(digits, 1, 10))), args |-> args]
  ELSE IF At(i) = "*" THEN [n |-> Head(args), at |-> i + 1, args |-> Tail(args)]
  ELSE [n |-> none, at |-> i, args |-> args]
StarWidth(w) == IF w < 0 THEN -w ELSE w

NullString == <<"NULL">>
\* What the conversion c appends: field_width w, precision p, qualifier l.
Converted(c, flags, w, p, l, arg) ==
  CASE c = "c" -> Justified(<<arg>>, w, flags)
    [] c = "s" -> LET str == IF arg = NullString THEN <<"<", "N", "U", "L", "L", ">">> ELSE arg
                  IN  Justified(SubSeq(str, 1, IF p >= 0 /\ p < Len(str) THEN p ELSE Len(str)), w, flags)
    [] c = "p" -> IF w = -1 THEN number(arg, 16, 8, p, flags \cup {"ZEROPAD"})
                  ELSE number(arg, 16, w, p, flags)
    [] c \in {"A", "a"} ->
         LET f == IF c = "A" THEN flags \cup {"UPPERCASE"} ELSE flags
         IN  IF l THEN eaddr(arg, w, f) ELSE iaddr(arg, w, f)
    [] c = "o" -> number(arg, 8, w, p, flags)
    [] c = "X" -> number(arg, 16, w, p, flags \cup {"UPPERCASE"})
    [] c = "x" -> number(arg, 16, w, p, flags)
    [] c \in {"d", "i"} -> number(arg, 10, w, p, flags \cup {"SIGN"})
    [] c = "u" -> number(arg, 10, w, p, flags)
    [] c = "%" -> <<"%">>
    [] c = "NUL" -> <<"%">>
    [] OTHER -> <<"%", c>>
Takes(c) == c \in {"c", "s", "p", "A", "a", "o", "X", "x", "d", "i", "u"}

copy ==
  /\ s.state = "scan" /\ s.i <= Len(s.fmt) /\ At(s.i) # "%"
  /\ s' = [s EXCEPT !.out = Append(@, At(s.i)), !.i = @ + 1]

convert ==
  /\ s.state = "scan" /\ At(s.i) = "%"
  /\ LET i1 == Past(s.i + 1, DOMAIN FlagOf)
         star == At(i1) = "*"
         w == Amount(i1, s.args, -1)
         flags == {FlagOf[At(k)] : k \in (s.i + 1) .. (i1 - 1)} \cup (IF star /\ w.n < 0 THEN {"LEFT"} ELSE {})
         dot == At(w.at) = "."
         p == IF dot THEN Amount(w.at + 1, w.args, 0) ELSE [n |-> -1, at |-> w.at, args |-> w.args]
         qual == At(p.at) \in {"l", "L"}
         at == IF qual THEN p.at + 1 ELSE p.at
         c == At(at)
     IN  s' = [s EXCEPT
                 !.out = @ \o Converted(c, flags, IF star THEN StarWidth(w.n) ELSE w.n,
                                        IF dot /\ p.n < 0 THEN 0 ELSE p.n, At(p.at) = "l",
                                        IF Takes(c) THEN Head(p.args) ELSE 0),
                 !.args = IF Takes(c) THEN Tail(p.args) ELSE p.args,
                 \* at the end of the format, --fmt
                 !.i = IF c = "NUL" THEN at ELSE at + 1]

finish ==
  /\ s.state = "scan" /\ s.i > Len(s.fmt)
  /\ s' = [s EXCEPT !.state = "done"]

-----------------------------------------------------------------------------
(* Calls: a directive, a character and a plain %d.                         *)

\* The digits of n, place by place.
Places(n, base, dig) ==
  LET k == CHOOSE j \in 1 .. (WIDTH + 1) : n < base ^ j /\ (j > 1 => n >= base ^ (j - 1))
  IN  [i \in 1 .. k |-> dig[((n \div base ^ (k - i)) % base) + 1]]

\* How a directive is spelled, and the arguments it stands for: an amount is
\* [kind, n], of kind "none", "bare" (a dot alone), "digits" or "star".
Amounts(a) ==
  CASE a.kind \in {"none", "bare"} -> <<>> [] a.kind = "star" -> <<"*">> [] a.kind = "digits" -> Places(a.n, 10, digits)
Spelled(d) ==
  <<"%">> \o d.flags \o Amounts(d.width) \o (IF d.prec.kind = "none" THEN <<>> ELSE <<".">> \o Amounts(d.prec))
    \o (IF d.qual THEN <<"l">> ELSE <<>>) \o <<d.conv>>
Star(a) == IF a.kind = "star" THEN <<a.n>> ELSE <<>>
Arguments(d) == Star(d.width) \o Star(d.prec) \o (IF Takes(d.conv) THEN <<d.arg>> ELSE <<>>)

Init ==
  \E d \in Directives :
    s = [d |-> d, fmt |-> Spelled(d) \o <<"z", "%", "d", "%">>, args |-> Arguments(d) \o <<5>>,
         i |-> 1, out |-> <<>>, state |-> "scan"]

Next == copy \/ convert \/ finish

-----------------------------------------------------------------------------
(* Properties.                                                             *)

Has(d, c) == \E i \in DOMAIN d.flags : d.flags[i] = c
Larger(a, b) == IF a > b THEN a ELSE b
\* A body put into a field of at least w characters.
Field(body, w, left) ==
  LET fill == [i \in 1 .. Larger(w - Len(body), 0) |-> " "] IN IF left THEN body \o fill ELSE fill \o body

\* What a directive ought to print, part by part: a body of sign, prefix and
\* digits, zeros between them for the precision or the flag 0, blanks on the one
\* side or the other up to the width.
Promised(d) ==
  LET fixed == d.conv = "p" /\ d.width.kind = "none"
      w == IF fixed THEN 8 ELSE IF d.width.kind = "none" THEN 0 ELSE Larger(d.width.n, -d.width.n)
      left == Has(d, "-") \/ (d.width.kind = "star" /\ d.width.n < 0)
      prec == IF d.prec.kind \in {"digits", "star"} THEN Larger(d.prec.n, 0) ELSE 0
      base == CASE d.conv \in {"x", "X", "p"} -> 16 [] d.conv = "o" -> 8 [] OTHER -> 10
      neg == d.conv = "d" /\ d.arg >= 2 ^ (WIDTH - 1)
      sign == IF neg THEN <<"-">>
              ELSE IF d.conv = "d" /\ Has(d, "+") THEN <<"+">>
              ELSE IF d.conv = "d" /\ Has(d, " ") THEN <<" ">> ELSE <<>>
      prefix == IF ~Has(d, "#") THEN <<>>
                ELSE CASE base = 16 -> <<"0", "x">> [] base = 8 -> <<"0">> [] OTHER -> <<>>
      ds == Places(IF neg THEN 2 ^ WIDTH - d.arg ELSE d.arg, base, IF d.conv = "X" THEN upper_digits ELSE digits)
      wide == (Has(d, "0") \/ fixed) /\ ~left
      least == Larger(prec, IF wide THEN w - Len(sign \o prefix) ELSE 0)
      zeros == [i \in 1 .. Larger(least - Len(ds), 0) |-> "0"]
      text == IF d.arg = NullString THEN <<"<", "N", "U", "L", "L", ">">> ELSE d.arg
      cut == IF d.prec.kind # "none" /\ prec < Len(text) THEN prec ELSE Len(text)
  IN  CASE d.conv \in {"d", "u", "x", "X", "o", "p"} -> Field(sign \o prefix \o zeros \o ds, w, left)
        [] d.conv = "c" -> Field(<<d.arg>>, w, left)
        [] d.conv = "s" -> Field(SubSeq(text, 1, cut), w, left)
        [] d.conv = "a" -> Field(IF d.qual THEN d.arg.mac ELSE d.arg.ip, w, left)
        [] d.conv = "%" -> <<"%">>
        [] d.conv = "q" -> <<"%", "q">>

\* Every directive prints its field and takes its arguments, no more, so that the
\* rest of the format comes out right; a % at the end is printed as it is.
PrintsFields == s.state = "done" => s.out = Promised(s.d) \o <<"z", "5", "%">> /\ s.args = <<>>

=============================================================================
