------------------------------ MODULE Strings ------------------------------
(***************************************************************************)
(* lib/src/string: the functions on memory and strings.  m is the memory,  *)
(* a function from the addresses 0 .. n to characters; a pointer is an     *)
(* address, and a string ends at the first 0.  A function that writes is   *)
(* given by the memory it leaves.  Loops that look for a place are First,  *)
(* loops that copy keep their order (Forward, Backward), which shows when  *)
(* source and target overlap.                                              *)
(***************************************************************************)
EXTENDS Integers

NULL == -1

\* while (...) p++; stops at the first of the places where it may stop.
First(stops) == CHOOSE q \in stops : \A r \in stops : q <= r
From(m, p) == {q \in DOMAIN m : q >= p}

-----------------------------------------------------------------------------
(* Variants of the definitions below, each with one plausible mistake.     *)

\* memmove without the copy from behind.
NeverOverlaps(d, s, n) == FALSE

-----------------------------------------------------------------------------
(* Looking.                                                                *)

strlen(m, p) == First({q \in From(m, p) : m[q] = 0}) - p
\* A count of -1 is the largest size_t.
strnlen(m, p, n) == First({p + n} \cup {q \in From(m, p) : m[q] = 0}) - p

strchr(m, p, c) ==
  LET q == First({r \in From(m, p) : m[r] \in {0, c}}) IN IF m[q] = c THEN q ELSE NULL
\* strchr again and again, behind the last hit.
strrchr(m, p, c) ==
  LET last[q \in DOMAIN m] ==
        LET hit == strchr(m, q, c)
        IN  IF hit = NULL THEN NULL
            ELSE IF last[hit + 1] = NULL THEN hit ELSE last[hit + 1]
  IN  IF c = 0 THEN strchr(m, p, c) ELSE last[p]

\* for (c = s2; *c; c++) if (*s1 == *c) break;
Among(m, ch, s2) == \E c \in s2 .. (s2 + strlen(m, s2) - 1) : m[c] = ch
strspn(m, s1, s2) == First({q \in From(m, s1) : m[q] = 0 \/ ~Among(m, m[q], s2)}) - s1
strcspn(m, s1, s2) == First({q \in From(m, s1) : m[q] = 0 \/ Among(m, m[q], s2)}) - s1
strpbrk(m, s1, s2) ==
  LET q == First({r \in From(m, s1) : m[r] = 0 \/ Among(m, m[r], s2)})
  IN  IF Among(m, m[q], s2) THEN q ELSE NULL

\* Where two pieces of memory differ, of those the loop looks at.
Differ(m, s1, s2) == {r \in From(m, s1) : s2 + r - s1 \in DOMAIN m /\ m[r] # m[s2 + r - s1]}
strcmp(m, s1, s2) ==
  LET q == First({s1 + strlen(m, s1)} \cup Differ(m, s1, s2)) IN m[q] - m[s2 + q - s1]
\* The loop stops on the last of n characters, behind none.
strncmp(m, s1, s2, n) ==
  LET q == First({s1 + n - 1, s1 + strlen(m, s1)} \cup Differ(m, s1, s2))
  IN  IF n = 0 THEN 0 ELSE m[q] - m[s2 + q - s1]
memcmp(m, s1, s2, n) ==
  LET q == First({s1 + n} \cup Differ(m, s1, s2))
  IN  IF q = s1 + n THEN 0 ELSE m[q] - m[s2 + q - s1]

memchr(m, p, c, n) ==
  LET q == First({p + n} \cup {r \in From(m, p) : m[r] = c}) IN IF q = p + n THEN NULL ELSE q
memrchr(m, p, c, n) ==
  LET hits == {r \in p .. (p + n - 1) : m[r] = c}
  IN  IF hits = {} THEN NULL ELSE CHOOSE r \in hits : \A q \in hits : q <= r

\* The first n characters of the needle stand at q.
Stands(m, q, ne, n) == \A i \in 0 .. (n - 1) : m[q + i] = m[ne + i]
memmem(m, hs, hs_len, ne, ne_len) ==
  LET end == hs + hs_len - ne_len
      q == First({end + 1} \cup {r \in hs .. end : Stands(m, r, ne, ne_len)})
  IN  IF ne_len = 0 THEN hs ELSE IF q > end THEN NULL ELSE q
strstr(m, hs, ne) ==
  LET end == hs + strlen(m, hs)
      q == First({end} \cup {r \in hs .. (end - 1) : Stands(m, r, ne, strlen(m, ne))})
  IN  IF m[ne] = 0 THEN hs ELSE IF m[q] = 0 THEN NULL ELSE q
strnstr(m, hs, ne, n) ==
  LET len == strnlen(m, ne, n)
      x == memmem(m, hs, n, ne, len)
  IN  IF (len < n \/ m[ne + len] = 0) /\ x # NULL /\ memchr(m, hs, 0, x - hs) = NULL
      THEN x ELSE NULL

-----------------------------------------------------------------------------
(* Writing.                                                                *)

Forward(m, d, s, n) ==
  LET after[k \in 0 .. n] ==
        IF k = 0 THEN m ELSE [after[k - 1] EXCEPT ![d + k - 1] = after[k - 1][s + k - 1]]
  IN  after[n]
Backward(m, d, s, n) ==
  LET after[k \in 0 .. n] ==
        IF k = 0 THEN m ELSE [after[k - 1] EXCEPT ![d + n - k] = after[k - 1][s + n - k]]
  IN  after[n]

CopiesBack(d, s, n) == s < d /\ d < s + n
memmove(m, d, s, n) == IF CopiesBack(d, s, n) THEN Backward(m, d, s, n) ELSE Forward(m, d, s, n)
memcpy(m, d, s, n) == Forward(m, d, s, n)
memset(m, p, c, n) == [q \in DOMAIN m |-> IF q \in p .. (p + n - 1) THEN c ELSE m[q]]
\* The bytes up to and with the end character, and the pointer behind it.
memccpy(m, d, s, c, n) ==
  LET q == memchr(m, s, c, n)
  IN  [m |-> Forward(m, d, s, IF q = NULL THEN n ELSE q - s + 1),
       ret |-> IF q = NULL THEN NULL ELSE d + q - s + 1]

strcpy(m, d, s) == Forward(m, d, s, strlen(m, s) + 1)
strncpy(m, d, s, n) ==
  LET k == strnlen(m, s, n) IN memset(Forward(m, d, s, k), d + k, 0, n - k)
strcat(m, d, s) == strcpy(m, d + strlen(m, d), s)
strncat(m, d, s, n) ==
  LET end == d + strlen(m, d)
      k == strnlen(m, s, n)
  IN  IF n = 0 THEN m ELSE [Forward(m, end, s, k) EXCEPT ![end + k] = 0]

-----------------------------------------------------------------------------
(* strtok, with its static pointer; the delimiters are a set.              *)

\* What lasts becomes when a token ends at q.
Lasts(m, q) == IF m[q] = 0 THEN NULL ELSE q + 1
strtok(m, s0, delim, lasts) ==
  LET s == IF s0 = NULL THEN lasts ELSE s0
      tok == First({r \in From(m, s) : m[r] \notin delim})
      end == First({r \in From(m, tok) : m[r] \in delim \cup {0}})
  IN  IF s = NULL THEN [tok |-> NULL, m |-> m, lasts |-> NULL]
      ELSE IF m[tok] = 0 THEN [tok |-> NULL, m |-> m, lasts |-> NULL]
      ELSE [tok |-> tok, m |-> [m EXCEPT ![end] = 0], lasts |-> Lasts(m, end)]

=============================================================================
