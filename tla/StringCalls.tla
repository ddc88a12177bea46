---------------------------- MODULE StringCalls ----------------------------
(***************************************************************************)
(* One call of a string function on any small memory, with arguments that  *)
(* keep to the function's contract: strings end, ranges lie inside the     *)
(* memory, and only memmove is given source and target that overlap.       *)
(***************************************************************************)
EXTENDS Strings, Sequences

CONSTANTS
  MemSize,   \* bound: bytes of memory
  Chars      \* characters, with 0

VARIABLE s   \* the memory, the call and what it returned

Addr == 0 .. (MemSize - 1)
Ended(m, p) == \E q \in Addr : q >= p /\ m[q] = 0
Inside(p, n) == p + n <= MemSize
Apart(p, n, q, k) == p + n <= q \/ q + k <= p

Init ==
  \E m \in [Addr -> Chars] :
    m[MemSize - 1] = 0 /\ s = [old |-> m, m |-> m, f |-> "none", p |-> 0, q |-> 0, n |-> 0, ret |-> 0]

\* A call of f with the pointers p and q (or the character q) and the count n.
Called(f, p, q, n, m, ret) ==
  s' = [s EXCEPT !.f = f, !.p = p, !.q = q, !.n = n, !.m = m, !.ret = ret]
Finds(f, p, q, n, ret) == Called(f, p, q, n, s.m, ret)
Writes(f, p, q, n, m) == Called(f, p, q, n, m, p)

in_string(p, c) ==
  /\ s.f = "none" /\ Ended(s.m, p)
  /\ \/ Finds("strchr", p, c, 0, strchr(s.m, p, c))
     \/ Finds("strrchr", p, c, 0, strrchr(s.m, p, c))
     \/ \E n \in Addr : Inside(p, n) /\ Finds("memchr", p, c, n, memchr(s.m, p, c, n))
     \/ \E n \in Addr : Inside(p, n) /\ Finds("memrchr", p, c, n, memrchr(s.m, p, c, n))
two_strings(p, q) ==
  /\ s.f = "none" /\ Ended(s.m, p) /\ Ended(s.m, q)
  /\ \/ Finds("strspn", p, q, 0, strspn(s.m, p, q))
     \/ Finds("strcspn", p, q, 0, strcspn(s.m, p, q))
     \/ Finds("strpbrk", p, q, 0, strpbrk(s.m, p, q))
     \/ Finds("strstr", p, q, 0, strstr(s.m, p, q))
     \/ Finds("strcmp", p, q, 0, strcmp(s.m, p, q))
     \/ \E n \in Addr : Finds("strncmp", p, q, n, strncmp(s.m, p, q, n))
     \/ \E n \in Addr : Inside(p, n) /\ Inside(q, n) /\ Finds("memcmp", p, q, n, memcmp(s.m, p, q, n))
     \/ \E n \in Addr : Inside(p, n) /\ Finds("strnstr", p, q, n, strnstr(s.m, p, q, n))
writes(p, q) ==
  LET k == strlen(s.m, q)
      end == p + strlen(s.m, p)
  IN
  /\ s.f = "none" /\ Ended(s.m, p) /\ Ended(s.m, q)
  /\ \/ /\ Inside(p, k + 1) /\ Apart(p, k + 1, q, k + 1)
        /\ Writes("strcpy", p, q, 0, strcpy(s.m, p, q))
     \/ /\ Inside(end, k + 1) /\ Apart(p, end + k + 1 - p, q, k + 1)
        /\ Writes("strcat", p, q, 0, strcat(s.m, p, q))
     \/ \E n \in Addr :
          \/ Inside(p, n) /\ Inside(q, n) /\ Writes("memmove", p, q, n, memmove(s.m, p, q, n))
          \/ Inside(p, n) /\ Writes("memset", p, q, n, memset(s.m, p, 1, n))
          \/ /\ Inside(p, n) /\ Apart(p, n, q, k + 1)
             /\ Writes("strncpy", p, q, n, strncpy(s.m, p, q, n))
          \/ /\ Inside(end, n + 1) /\ Apart(p, end + n + 1 - p, q, k + 1)
             /\ Writes("strncat", p, q, n, strncat(s.m, p, q, n))
          \/ /\ Inside(p, n) /\ Inside(q, n) /\ Apart(p, n, q, n)
             /\ LET r == memccpy(s.m, p, q, 0, n) IN Called("memccpy", p, q, n, r.m, r.ret)

Next ==
  \/ \E p \in Addr : \E c \in Chars : in_string(p, c)
  \/ \E p, q \in Addr : two_strings(p, q) \/ writes(p, q)

-----------------------------------------------------------------------------
(* What the functions promise, over strings as sequences.                  *)

Piece(m, p, n) == [i \in 1 .. n |-> m[p + i - 1]]
Str(m, p) == Piece(m, p, strlen(m, p))
Least(P) == IF P = {} THEN NULL ELSE CHOOSE x \in P : \A y \in P : x <= y
Most(P) == IF P = {} THEN NULL ELSE CHOOSE x \in P : \A y \in P : x >= y
Starts(t, u) == Len(u) <= Len(t) /\ SubSeq(t, 1, Len(u)) = u
Cut(t, n) == SubSeq(t, 1, IF n < Len(t) THEN n ELSE Len(t))
\* The order of strings, as a sign: the first difference decides, a prefix is smaller.
Sign(t, u) ==
  LET at == Least({i \in 1 .. Len(t) : i <= Len(u) /\ t[i] # u[i]})
  IN  IF at # NULL THEN t[at] > u[at] ELSE Len(t) > Len(u)
Agrees(ret, t, u) ==
  /\ ret = 0 <=> t = u
  /\ ret > 0 <=> t # u /\ Sign(t, u)

\* The looking functions find the first or the last place there is and say so
\* when there is none; comparisons have the sign of the order of the strings, cut
\* to n characters where a count is given.
FindsRight ==
  LET m == s.old  p == s.p  q == s.q  n == s.n
      sp == Str(m, p)
      set == {m[a] : a \in q .. (q + strlen(m, q) - 1)}
      hits == {a \in p .. (p + Len(sp)) : Starts(Str(m, a), Str(m, q))}
  IN
  /\ s.f = "strchr" => s.ret = Least({a \in p .. (p + Len(sp)) : m[a] = q})
  /\ s.f = "strrchr" => s.ret = Most({a \in p .. (p + Len(sp)) : m[a] = q})
  /\ s.f = "memchr" => s.ret = Least({a \in p .. (p + n - 1) : m[a] = q})
  /\ s.f = "memrchr" => s.ret = Most({a \in p .. (p + n - 1) : m[a] = q})
  /\ s.f = "strspn" => s.ret = Most({k \in 0 .. Len(sp) : \A i \in 1 .. k : sp[i] \in set})
  /\ s.f = "strcspn" => s.ret = Most({k \in 0 .. Len(sp) : \A i \in 1 .. k : sp[i] \notin set})
  /\ s.f = "strpbrk" => s.ret = Least({a \in p .. (p + Len(sp) - 1) : m[a] \in set})
  /\ s.f = "strstr" => s.ret = Least(hits)
  /\ s.f = "strnstr" => s.ret = Least({a \in hits : a + strlen(m, q) <= p + n})
  /\ s.f = "strcmp" => Agrees(s.ret, sp, Str(m, q))
  /\ s.f = "strncmp" => Agrees(s.ret, Cut(sp, n), Cut(Str(m, q), n))
  /\ s.f = "memcmp" => Agrees(s.ret, Piece(m, p, n), Piece(m, q, n))

\* The writing functions leave the promised string, or for memmove the bytes the
\* source had before, at the target, and every other byte as it was.
Rest(a, k) == \A b \in Addr : b \notin a .. (a + k - 1) => s.m[b] = s.old[b]
WritesRight ==
  LET m == s.old  p == s.p  q == s.q  n == s.n
      sp == Str(m, p)
      sq == Str(m, q)
  IN
  /\ s.f = "memmove" => Piece(s.m, p, n) = Piece(m, q, n) /\ Rest(p, n)
  /\ s.f = "memset" => Piece(s.m, p, n) = [i \in 1 .. n |-> 1] /\ Rest(p, n)
  /\ s.f = "strcpy" => Str(s.m, p) = sq /\ Rest(p, Len(sq) + 1)
  /\ s.f = "strcat" => Str(s.m, p) = sp \o sq /\ Rest(p, Len(sp \o sq) + 1)
  /\ s.f = "strncat" => Str(s.m, p) = sp \o Cut(sq, n) /\ Rest(p, Len(sp) + n + 1)
  /\ s.f = "strncpy" => Piece(s.m, p, n) = Cut(sq, n) \o [i \in 1 .. (n - Len(Cut(sq, n))) |-> 0] /\ Rest(p, n)
  /\ s.f = "memccpy" =>
       LET k == Len(Cut(sq, n))
       IN  /\ Piece(s.m, p, k) = Cut(sq, n) /\ Rest(p, IF k < n THEN k + 1 ELSE k)
           /\ IF k < n THEN s.ret = p + k + 1 /\ s.m[p + k] = 0 ELSE s.ret = NULL

=============================================================================
