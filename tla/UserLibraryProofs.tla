------------------------- MODULE UserLibraryProofs -------------------------
(***************************************************************************)
(* Proofs about the user library.  First the buffered standard input, for  *)
(* every buffer, every input and every way read() may cut it; then the     *)
(* functions on memory and strings, for every memory and every call that   *)
(* keeps to the contract; then cat, wc and head, for every list of files   *)
(* and every way read() may cut them.                                      *)
(***************************************************************************)
EXTENDS Stdin, UserText, FiniteSetTheorems, SequenceTheorems, WellFoundedInduction, TLAPS

Loop ==
  {o \in [kind : {"getc", "literal", "space", "gets"}, size : Int, delim : SUBSET Space,
          throw : BOOLEAN, contain : BOOLEAN] :
     o.kind = "gets" => (o.size = Inf \/ o.size > 0) /\ ~(o.throw /\ o.contain)}

\* The characters that a loop takes without ending.
Wants(o) ==
  IF o.kind = "space" THEN Space
  ELSE IF o.kind = "gets" THEN Char \ (o.delim \cup {NUL}) ELSE {}

STypes ==
  /\ pending \in Seq(Char) /\ buf \in [Idx -> Char] /\ todo \in Seq(Loop) /\ i \in Nat
  /\ dropping \in BOOLEAN /\ out \in Seq(Char) /\ ok \in BOOLEAN /\ before \in Seq(Char)
Buffer == ok => head \in Nat /\ tail \in Nat /\ head <= tail /\ tail <= BUF_SIZE
\* What the running loop has stored: nothing but in gets, and never too much.
StoreOK ==
  IF todo # <<>> /\ op.kind = "gets"
  THEN Len(out) = i /\ (op.size # Inf => i <= op.size - 1) /\ (dropping => op.throw /\ Full(op))
  ELSE i = 0 /\ out = <<>> /\ ~dropping
\* The running loop has taken e characters.
Taken(e) ==
  /\ Unread = Rest(before, e)
  /\ \A k \in 1 .. e : before[k] \in Wants(op)
  /\ op.kind = "gets" => i <= e /\ out = Firsts(before, i) /\ (dropping \/ i = e)
Progress == ok /\ todo # <<>> => \E e \in 0 .. Len(before) : Taken(e)
LastOK ==
  ok /\ last # Done =>
    /\ last.after = Rest(last.before, Ate(last.op, last.before))
    /\ last.out = Gave(last.op, last.before)

SInv == STypes /\ Buffer /\ StoreOK /\ Progress /\ LastOK

-----------------------------------------------------------------------------
(* Runs and suffixes.                                                      *)

LEMMA Smallest ==
  ASSUME NEW S \in SUBSET Nat, S # {}
  PROVE  \E x \in S : \A y \in S : x <= y
<1>1. \E x \in S : \A y \in S : ~ (<<y, x>> \in OpToRel(<, Nat))
  BY WFMin, NatLessThanWellFounded
<1>2. \A x, y \in Nat : <<y, x>> \in OpToRel(<, Nat) <=> y < x
  BY Zenon DEF OpToRel
<1>3. \E x \in S : \A y \in S : ~(y < x)
  BY <1>1, <1>2, Zenon
<1> QED BY <1>3

\* n characters at the front of s are in the set, and no more.
IsRun(s, set, n) ==
  /\ n \in 0 .. Len(s)
  /\ \A k \in 1 .. n : s[k] \in set
  /\ n < Len(s) => s[n + 1] \notin set

LEMMA RunExists ==
  ASSUME NEW s \in Seq(Char), NEW set
  PROVE  IsRun(s, set, Run(s, set))
<1> DEFINE Ends == {n \in 0 .. Len(s) : n < Len(s) => s[n + 1] \notin set}
<1>1. Len(s) \in Nat
  BY LenProperties
<1>2. PICK n \in Ends : \A y \in Ends : n <= y
  <2>1. Ends \in SUBSET Nat /\ Len(s) \in Ends
    BY <1>1
  <2> HIDE DEF Ends
  <2> QED BY <2>1, Smallest
<1>3. ASSUME NEW k \in 1 .. n PROVE s[k] \in set
  <2>1. n \in 0 .. Len(s) /\ k - 1 \in 0 .. Len(s) /\ k - 1 < Len(s) /\ ~(n <= k - 1) /\ (k - 1) + 1 = k
    BY <1>1, <1>2
  <2>2. k - 1 \notin Ends
    BY <1>2, <2>1
  <2> QED BY <2>1, <2>2
<1>4. IsRun(s, set, n)
  BY <1>2, <1>3 DEF IsRun
<1>5. \E m \in 0 .. Len(s) : (\A k \in 1 .. m : s[k] \in set) /\ (m < Len(s) => s[m + 1] \notin set)
  BY <1>4 DEF IsRun
<1> QED BY <1>5 DEF Run, IsRun

LEMMA RunIs ==
  ASSUME NEW s \in Seq(Char), NEW set, NEW n, IsRun(s, set, n)
  PROVE  Run(s, set) = n
<1> DEFINE r == Run(s, set)
<1>1. IsRun(s, set, r)
  BY RunExists
<1>2. Len(s) \in Nat
  BY LenProperties
<1> HIDE DEF r
<1>3. n \in Nat /\ r \in Nat /\ n <= Len(s) /\ r <= Len(s)
  BY <1>1, <1>2 DEF IsRun
<1>4. ~(r < n)
  <2>1. ASSUME r < n PROVE r + 1 \in 1 .. n /\ r < Len(s)
    BY <1>2, <1>3, <2>1
  <2> QED BY <1>1, <2>1 DEF IsRun
<1>5. ~(n < r)
  <2>1. ASSUME n < r PROVE n + 1 \in 1 .. r /\ n < Len(s)
    BY <1>2, <1>3, <2>1
  <2> QED BY <1>1, <2>1 DEF IsRun
<1>6. r = n
  BY <1>3, <1>4, <1>5
<1> QED BY <1>6 DEF r

\* A run is at least as long as a part of it.
LEMMA RunAtLeast ==
  ASSUME NEW s \in Seq(Char), NEW set, NEW e \in 0 .. Len(s), \A k \in 1 .. e : s[k] \in set
  PROVE  Run(s, set) \in Nat /\ Run(s, set) >= e
<1> DEFINE r == Run(s, set)
<1>1. IsRun(s, set, r)
  BY RunExists
<1>2. Len(s) \in Nat
  BY LenProperties
<1> HIDE DEF r
<1>3. r \in Nat /\ r <= Len(s) /\ e \in Nat
  BY <1>1, <1>2 DEF IsRun
<1>4. ~(r < e)
  <2>1. ASSUME r < e PROVE r + 1 \in 1 .. e /\ r < Len(s)
    BY <1>2, <1>3, <2>1
  <2> QED BY <1>1, <2>1 DEF IsRun
<1>5. r \in Nat /\ r >= e
  BY <1>3, <1>4
<1> QED BY <1>5 DEF r

LEMMA RestIs ==
  ASSUME NEW s \in Seq(Char), NEW e \in 0 .. Len(s)
  PROVE  /\ Rest(s, e) \in Seq(Char) /\ Len(Rest(s, e)) = Len(s) - e
         /\ \A k \in 1 .. (Len(s) - e) : Rest(s, e)[k] = s[e + k]
<1>1. Len(s) \in Nat /\ e \in Nat /\ e <= Len(s)
  BY LenProperties
<1>2. \A k \in (e + 1) .. Len(s) : s[k] \in Char
  <2>1. \A k \in (e + 1) .. Len(s) : k \in 1 .. Len(s)
    BY <1>1
  <2> QED BY <2>1, ElementOfSeq
<1>3. /\ Rest(s, e) \in Seq(Char)
      /\ Len(Rest(s, e)) = IF e + 1 <= Len(s) THEN Len(s) - (e + 1) + 1 ELSE 0
      /\ \A k \in 1 .. (Len(s) - (e + 1) + 1) : Rest(s, e)[k] = s[(e + 1) + k - 1]
  BY <1>1, <1>2, SubSeqProperties DEF Rest
<1>4. ASSUME NEW k \in 1 .. (Len(s) - e) PROVE Rest(s, e)[k] = s[e + k]
  <2>1. k \in 1 .. (Len(s) - (e + 1) + 1) /\ (e + 1) + k - 1 = e + k
    BY <1>1
  <2> QED BY <1>3, <2>1
<1>5. Len(Rest(s, e)) = Len(s) - e
  BY <1>1, <1>3
<1> QED BY <1>3, <1>4, <1>5

LEMMA FirstsIs ==
  ASSUME NEW s \in Seq(Char), NEW e \in 0 .. Len(s)
  PROVE  /\ Firsts(s, e) \in Seq(Char) /\ Len(Firsts(s, e)) = e
         /\ \A k \in 1 .. e : Firsts(s, e)[k] = s[k]
<1>1. Len(s) \in Nat /\ e \in Nat /\ e <= Len(s)
  BY LenProperties
<1>2. \A k \in 1 .. e : s[k] \in Char
  <2>1. \A k \in 1 .. e : k \in 1 .. Len(s)
    BY <1>1
  <2> QED BY <2>1, ElementOfSeq
<1>3. /\ Firsts(s, e) \in Seq(Char)
      /\ Len(Firsts(s, e)) = IF 1 <= e THEN e - 1 + 1 ELSE 0
      /\ \A k \in 1 .. (e - 1 + 1) : Firsts(s, e)[k] = s[1 + k - 1]
  BY <1>1, <1>2, SubSeqProperties DEF Firsts
<1>4. ASSUME NEW k \in 1 .. e PROVE Firsts(s, e)[k] = s[k]
  <2>1. k \in 1 .. (e - 1 + 1) /\ 1 + k - 1 = k
    BY <1>1
  <2> QED BY <1>3, <2>1
<1>5. Len(Firsts(s, e)) = e
  BY <1>1, <1>3
<1> QED BY <1>3, <1>4, <1>5

\* One character more.
LEMMA RestRest ==
  ASSUME NEW s \in Seq(Char), NEW e \in 0 .. Len(s), e < Len(s)
  PROVE  Rest(Rest(s, e), 1) = Rest(s, e + 1)
<1> DEFINE u == Rest(s, e)
<1>1. Len(s) \in Nat /\ e \in Nat /\ e + 1 \in 0 .. Len(s)
  BY LenProperties
<1>2. u \in Seq(Char) /\ Len(u) = Len(s) - e /\ \A k \in 1 .. (Len(s) - e) : u[k] = s[e + k]
  BY RestIs
<1>3. 1 \in 0 .. Len(u)
  BY <1>1, <1>2
<1> HIDE DEF u
<1>4. /\ Rest(u, 1) \in Seq(Char) /\ Len(Rest(u, 1)) = Len(u) - 1
      /\ \A k \in 1 .. (Len(u) - 1) : Rest(u, 1)[k] = u[1 + k]
  BY <1>2, <1>3, RestIs
<1>5. /\ Rest(s, e + 1) \in Seq(Char) /\ Len(Rest(s, e + 1)) = Len(s) - (e + 1)
      /\ \A k \in 1 .. (Len(s) - (e + 1)) : Rest(s, e + 1)[k] = s[(e + 1) + k]
  BY <1>1, RestIs
<1>6. Len(Rest(u, 1)) = Len(Rest(s, e + 1))
  BY <1>1, <1>2, <1>4, <1>5
<1>7. ASSUME NEW k \in 1 .. Len(Rest(u, 1)) PROVE Rest(u, 1)[k] = Rest(s, e + 1)[k]
  <2>1. /\ k \in 1 .. (Len(u) - 1) /\ k \in 1 .. (Len(s) - (e + 1)) /\ 1 + k \in 1 .. (Len(s) - e)
        /\ e + (1 + k) = (e + 1) + k
    BY <1>1, <1>2, <1>4
  <2>2. Rest(u, 1)[k] = s[e + (1 + k)]
    BY <1>2, <1>4, <2>1
  <2>3. Rest(s, e + 1)[k] = s[(e + 1) + k]
    BY <1>5, <2>1
  <2> QED BY <2>1, <2>2, <2>3
<1>8. Rest(u, 1) = Rest(s, e + 1)
  BY <1>4, <1>5, <1>6, <1>7, SeqEqual
<1> QED BY <1>8 DEF u

LEMMA FirstsAppend ==
  ASSUME NEW s \in Seq(Char), NEW e \in 0 .. Len(s), e < Len(s), NEW c, c = s[e + 1]
  PROVE  Append(Firsts(s, e), c) = Firsts(s, e + 1)
<1> DEFINE f == Firsts(s, e)
<1>1. Len(s) \in Nat /\ e \in Nat /\ e + 1 \in 0 .. Len(s) /\ e + 1 \in 1 .. Len(s)
  BY LenProperties
<1>2. f \in Seq(Char) /\ Len(f) = e /\ \A k \in 1 .. e : f[k] = s[k]
  BY FirstsIs
<1>3. c \in Char
  BY <1>1, ElementOfSeq
<1> HIDE DEF f
<1>4. /\ Append(f, c) \in Seq(Char) /\ Len(Append(f, c)) = e + 1
      /\ \A k \in 1 .. e : Append(f, c)[k] = f[k]
      /\ Append(f, c)[e + 1] = c
  BY <1>2, <1>3, AppendProperties
<1>5. /\ Firsts(s, e + 1) \in Seq(Char) /\ Len(Firsts(s, e + 1)) = e + 1
      /\ \A k \in 1 .. (e + 1) : Firsts(s, e + 1)[k] = s[k]
  BY <1>1, FirstsIs
<1>6. ASSUME NEW k \in 1 .. (e + 1) PROVE Append(f, c)[k] = Firsts(s, e + 1)[k]
  <2>1. CASE k = e + 1
    BY <1>4, <1>5, <2>1
  <2>2. CASE k # e + 1
    <3>1. k \in 1 .. e
      BY <1>1, <2>2
    <3> QED BY <1>2, <1>4, <1>5, <3>1
  <2> QED BY <2>1, <2>2
<1>7. Append(f, c) = Firsts(s, e + 1)
  BY <1>4, <1>5, <1>6, SeqEqual
<1> QED BY <1>7 DEF f

LEMMA Nothing ==
  ASSUME NEW s \in Seq(Char)
  PROVE  Rest(s, 0) = s /\ Firsts(s, 0) = <<>>
<1>1. Len(s) \in Nat /\ 0 \in 0 .. Len(s)
  BY LenProperties
<1>2. /\ Rest(s, 0) \in Seq(Char) /\ Len(Rest(s, 0)) = Len(s) - 0
      /\ \A k \in 1 .. (Len(s) - 0) : Rest(s, 0)[k] = s[0 + k]
  BY <1>1, RestIs
<1>3. Len(Rest(s, 0)) = Len(s) /\ \A k \in 1 .. Len(s) : Rest(s, 0)[k] = s[k]
  <2>1. \A k \in 1 .. Len(s) : k \in 1 .. (Len(s) - 0) /\ 0 + k = k
    BY <1>1
  <2> QED BY <1>1, <1>2, <2>1
<1>4. Rest(s, 0) = s
  BY <1>2, <1>3, SeqEqual
<1>5. Firsts(s, 0) \in Seq(Char) /\ Len(Firsts(s, 0)) = 0
  BY <1>1, FirstsIs
<1> QED BY <1>4, <1>5, EmptySeq

LEMMA AllOfIt ==
  ASSUME NEW s \in Seq(Char)
  PROVE  Rest(s, Len(s)) = <<>>
<1>1. Len(s) \in Nat /\ Len(s) \in 0 .. Len(s)
  BY LenProperties
<1>2. Rest(s, Len(s)) \in Seq(Char) /\ Len(Rest(s, Len(s))) = Len(s) - Len(s)
  BY <1>1, RestIs
<1> QED BY <1>1, <1>2, EmptySeq

-----------------------------------------------------------------------------
(* The buffer.                                                             *)

Window(b, h, t) == [k \in 1 .. (t - h) |-> b[h + k - 1]]

Stream(b, h, t, q) == Window(b, h, t) \o q
Reads(u, b, h, t, q) ==
  /\ u \in Seq(Char) /\ Len(u) = (t - h) + Len(q) /\ Len(u) \in Nat
  /\ \A k \in 1 .. (t - h) : u[k] = b[h + k - 1]
  /\ \A k \in 1 .. Len(q) : u[(t - h) + k] = q[k]

LEMMA StreamIs ==
  ASSUME NEW b \in [Idx -> Char], NEW h \in Nat, NEW t \in Nat, h <= t, t <= BUF_SIZE,
         NEW q \in Seq(Char)
  PROVE  Reads(Stream(b, h, t, q), b, h, t, q)
<1> DEFINE w == Window(b, h, t)
           u == Stream(b, h, t, q)
<1>1. BUF_SIZE \in Nat /\ Len(q) \in Nat /\ t - h \in Nat
  BY StdinAssumption, LenProperties
<1>2. \A k \in 1 .. (t - h) : h + k - 1 \in Idx
  BY <1>1 DEF Idx
<1>3. w \in Seq(Char) /\ Len(w) = t - h /\ \A k \in 1 .. (t - h) : w[k] = b[h + k - 1]
  <2>1. \A k \in 1 .. (t - h) : b[h + k - 1] \in Char
    BY <1>2
  <2>2. w \in [1 .. (t - h) -> Char]
    BY <2>1 DEF Window
  <2>3. w \in Seq(Char)
    BY <1>1, <2>2, IsASeq
  <2>4. Len(w) = t - h
    <3>1. DOMAIN w = 1 .. (t - h)
      BY <2>2
    <3> HIDE DEF w
    <3>2. Len(w) \in Nat /\ DOMAIN w = 1 .. Len(w)
      BY <2>3, LenProperties
    <3> QED BY <1>1, <3>1, <3>2
  <2> QED BY <2>3, <2>4 DEF Window
<1> HIDE DEF w
<1>4. u = w \o q
  BY DEF w, Stream
<1> HIDE DEF u
<1>5. /\ u \in Seq(Char) /\ Len(u) = Len(w) + Len(q)
      /\ \A k \in 1 .. (Len(w) + Len(q)) : u[k] = IF k <= Len(w) THEN w[k] ELSE q[k - Len(w)]
  <2>1. /\ w \o q \in Seq(Char) /\ Len(w \o q) = Len(w) + Len(q)
        /\ \A k \in 1 .. Len(w) + Len(q) : (w \o q)[k] = IF k <= Len(w) THEN w[k] ELSE q[k - Len(w)]
    BY <1>3, ConcatProperties, Zenon
  <2> QED BY <1>4, <2>1, Zenon
<1>6. ASSUME NEW k \in 1 .. (t - h) PROVE u[k] = b[h + k - 1]
  <2>1. k \in 1 .. (Len(w) + Len(q)) /\ k <= Len(w)
    BY <1>1, <1>3
  <2> QED BY <1>3, <1>5, <2>1
<1>7. ASSUME NEW k \in 1 .. Len(q) PROVE u[(t - h) + k] = q[k]
  <2>1. (t - h) + k \in 1 .. (Len(w) + Len(q)) /\ ~((t - h) + k <= Len(w)) /\ ((t - h) + k) - Len(w) = k
    BY <1>1, <1>3
  <2> QED BY <1>5, <2>1
<1>8. Reads(u, b, h, t, q)
  BY <1>1, <1>3, <1>5, <1>6, <1>7 DEF Reads
<1> QED BY <1>8 DEF u

\* The next character, and the stream behind it.
LEMMA AdvanceOK ==
  ASSUME NEW b \in [Idx -> Char], NEW h \in Nat, NEW t \in Nat, h < t, t <= BUF_SIZE,
         NEW q \in Seq(Char)
  PROVE  /\ Stream(b, h + 1, t, q) = Rest(Stream(b, h, t, q), 1)
         /\ Stream(b, h, t, q)[1] = b[h] /\ Len(Stream(b, h, t, q)) > 0 /\ h \in Idx
<1> DEFINE u == Stream(b, h, t, q)
           v == Stream(b, h + 1, t, q)
<1>0. BUF_SIZE \in Nat /\ Len(q) \in Nat /\ h + 1 \in Nat /\ h + 1 <= t /\ h <= t
  BY StdinAssumption, LenProperties
<1>1. /\ u \in Seq(Char) /\ Len(u) = (t - h) + Len(q) /\ Len(u) \in Nat
      /\ \A k \in 1 .. (t - h) : u[k] = b[h + k - 1]
      /\ \A k \in 1 .. Len(q) : u[(t - h) + k] = q[k]
  BY <1>0, StreamIs, ZenonT(60) DEF Reads
<1>2. /\ v \in Seq(Char) /\ Len(v) = (t - (h + 1)) + Len(q) /\ Len(v) \in Nat
      /\ \A k \in 1 .. (t - (h + 1)) : v[k] = b[(h + 1) + k - 1]
      /\ \A k \in 1 .. Len(q) : v[(t - (h + 1)) + k] = q[k]
  BY <1>0, StreamIs DEF Reads
<1> HIDE DEF u, v
<1>3. 1 \in 0 .. Len(u) /\ 1 \in 1 .. (t - h) /\ h + 1 - 1 = h
  BY <1>0, <1>1
<1>4. /\ Rest(u, 1) \in Seq(Char) /\ Len(Rest(u, 1)) = Len(u) - 1
      /\ \A k \in 1 .. (Len(u) - 1) : Rest(u, 1)[k] = u[1 + k]
  BY <1>1, <1>3, RestIs
<1>5. Len(v) = Len(Rest(u, 1))
  BY <1>0, <1>1, <1>2, <1>4
<1>6. ASSUME NEW k \in 1 .. Len(v) PROVE v[k] = Rest(u, 1)[k]
  <2>1. k \in 1 .. (Len(u) - 1) /\ Rest(u, 1)[k] = u[1 + k]
    BY <1>0, <1>1, <1>2, <1>4
  <2>2. CASE k <= t - (h + 1)
    <3>1. k \in 1 .. (t - (h + 1)) /\ 1 + k \in 1 .. (t - h) /\ h + (1 + k) - 1 = (h + 1) + k - 1
      BY <1>0, <2>2
    <3> QED BY <1>1, <1>2, <2>1, <3>1
  <2>3. CASE ~(k <= t - (h + 1))
    <3> DEFINE j == k - (t - (h + 1))
    <3>1. j \in 1 .. Len(q) /\ (t - (h + 1)) + j = k /\ (t - h) + j = 1 + k
      BY <1>0, <1>2, <2>3
    <3> HIDE DEF j
    <3> QED BY <1>1, <1>2, <2>1, <3>1
  <2> QED BY <2>2, <2>3
<1>7. v = Rest(u, 1)
  BY <1>2, <1>4, <1>5, <1>6, SeqEqual
<1>8. u[1] = b[h] /\ Len(u) > 0 /\ h \in Idx
  BY <1>0, <1>1, <1>3 DEF Idx
<1> QED BY <1>7, <1>8 DEF u, v

\* read() moves characters from the kernel to the buffer.
Filled(b, q, n) == [k \in Idx |-> IF k < n THEN q[k + 1] ELSE b[k]]

LEMMA RefillSame ==
  ASSUME NEW b \in [Idx -> Char], NEW q \in Seq(Char), NEW n \in 0 .. BUF_SIZE, n <= Len(q)
  PROVE  /\ Filled(b, q, n) \in [Idx -> Char] /\ Rest(q, n) \in Seq(Char)
         /\ Stream(Filled(b, q, n), 0, n, Rest(q, n)) = q
<1> DEFINE c == Filled(b, q, n)
           r == Rest(q, n)
<1>0. BUF_SIZE \in Nat /\ Len(q) \in Nat /\ n \in Nat /\ n <= BUF_SIZE /\ n \in 0 .. Len(q)
  BY StdinAssumption, LenProperties
<1>1. \A k \in 1 .. Len(q) : q[k] \in Char
  BY ElementOfSeq
<1>2. c \in [Idx -> Char]
  <2>1. \A k \in Idx : k < n => k + 1 \in 1 .. Len(q)
    BY <1>0 DEF Idx
  <2> QED BY <1>1, <2>1 DEF Filled
<1>3. /\ r \in Seq(Char) /\ Len(r) = Len(q) - n
      /\ \A k \in 1 .. (Len(q) - n) : r[k] = q[n + k]
  BY <1>0, RestIs
<1>c. \A k \in Idx : k < n => c[k] = q[k + 1]
  BY DEF Filled
<1> HIDE DEF c, r
<1> DEFINE u == Stream(c, 0, n, r)
<1>4. /\ u \in Seq(Char) /\ Len(u) = (n - 0) + Len(r)
      /\ \A k \in 1 .. (n - 0) : u[k] = c[0 + k - 1]
      /\ \A k \in 1 .. Len(r) : u[(n - 0) + k] = r[k]
  <2>1. 0 \in Nat /\ 0 <= n
    BY <1>0
  <2>2. Reads(Stream(c, 0, n, r), c, 0, n, r)
    BY <1>0, <1>2, <1>3, <2>1, StreamIs
  <2> HIDE DEF u
  <2>3. Reads(u, c, 0, n, r)
    BY <2>2 DEF u
  <2> QED BY <2>3 DEF Reads
<1> HIDE DEF u
<1>5. Len(u) = Len(q)
  BY <1>0, <1>3, <1>4
<1>6. ASSUME NEW k \in 1 .. Len(u) PROVE u[k] = q[k]
  <2>1. CASE k <= n
    <3>1. k \in 1 .. (n - 0) /\ 0 + k - 1 \in Idx /\ 0 + k - 1 < n /\ (0 + k - 1) + 1 = k
      BY <1>0, <2>1 DEF Idx
    <3>2. c[0 + k - 1] = q[(0 + k - 1) + 1]
      BY <1>c, <3>1
    <3> QED BY <1>4, <3>1, <3>2
  <2>2. CASE ~(k <= n)
    <3>1. k - n \in 1 .. Len(r) /\ k - n \in 1 .. (Len(q) - n) /\ (n - 0) + (k - n) = k /\ n + (k - n) = k
      BY <1>0, <1>3, <1>5, <2>2
    <3> QED BY <1>3, <1>4, <3>1, ZenonT(60)
  <2> QED BY <2>1, <2>2
<1>7. u = q
  BY <1>4, <1>5, <1>6, SeqEqual
<1> QED BY <1>2, <1>3, <1>7 DEF u, c, r

-----------------------------------------------------------------------------
(* What the stream alone determines.                                       *)

LEMMA SpaceIs ==
  ASSUME NEW s \in Seq(Char), NEW o \in Loop, o.kind = "space", NEW e, IsRun(s, Wants(o), e)
  PROVE  Ate(o, s) = e /\ Gave(o, s) = <<>>
<1>1. Run(s, Space) = e
  BY RunIs DEF Wants
<1> QED BY <1>1 DEF Ate, Gave

LEMMA GetsAte ==
  ASSUME NEW s, NEW o \in Loop, o.kind = "gets"
  PROVE  Ate(o, s) = Eaten(o, s) /\ Gave(o, s) = Firsts(s, Stored(o, s))
BY DEF Ate, Gave

\* gets without room for another character.
LEMMA GetsCut ==
  ASSUME NEW s \in Seq(Char), NEW o \in Loop, o.kind = "gets", NEW e \in 0 .. Len(s),
         \A k \in 1 .. e : s[k] \in Wants(o), NEW m \in Nat, m <= e, o.size # Inf, m = o.size - 1
  PROVE  Stored(o, s) = m
<1> DEFINE set == Char \ (o.delim \cup {NUL})
<1>1. Wants(o) = set
  BY DEF Wants
<1>2. Run(s, set) \in Nat /\ Run(s, set) >= e
  <2> HIDE DEF set
  <2> QED BY <1>1, RunAtLeast
<1>3. e \in Nat
  BY LenProperties
<1> DEFINE r == Run(s, set)
<1>4. r \in Nat /\ r >= e
  BY <1>2
<1>5. Stored(o, s) = IF o.size # Inf /\ r >= o.size - 1 THEN o.size - 1
                     ELSE IF o.contain /\ At(s, r + 1) # NUL THEN r + 1 ELSE r
  BY DEF Stored
<1> HIDE DEF r, set
<1> QED BY <1>3, <1>4, <1>5

\* gets that met its delimiter, a zero or the end of the input.
LEMMA GetsEnd ==
  ASSUME NEW s \in Seq(Char), NEW o \in Loop, o.kind = "gets", NEW e, IsRun(s, Wants(o), e)
  PROVE  /\ o.throw => Eaten(o, s) = e
         /\ (o.size = Inf \/ e < o.size - 1) =>
              Stored(o, s) = IF o.contain /\ At(s, e + 1) # NUL THEN e + 1 ELSE e
         /\ ~o.throw => Eaten(o, s) = Stored(o, s)
<1> DEFINE set == Char \ (o.delim \cup {NUL})
           r == Run(s, set)
<1>1. r = e
  <2>1. IsRun(s, set, e)
    BY DEF Wants
  <2> HIDE DEF set
  <2> QED BY <2>1, RunIs
<1>2. Stored(o, s) = IF o.size # Inf /\ r >= o.size - 1 THEN o.size - 1
                     ELSE IF o.contain /\ At(s, r + 1) # NUL THEN r + 1 ELSE r
  BY DEF Stored
<1>3. Eaten(o, s) = IF o.throw THEN r ELSE Stored(o, s)
  BY DEF Eaten
<1>4. e \in Nat /\ o.size \in Int
  BY LenProperties DEF IsRun, Loop
<1> HIDE DEF r, set
<1>5. (o.size = Inf \/ e < o.size - 1) => ~(o.size # Inf /\ e >= o.size - 1)
  BY <1>4
<1>6. (o.size = Inf \/ e < o.size - 1) =>
         Stored(o, s) = IF o.contain /\ At(s, e + 1) # NUL THEN e + 1 ELSE e
  BY <1>1, <1>2, <1>5, Zenon
<1> QED BY <1>1, <1>3, <1>6, Zenon

-----------------------------------------------------------------------------
(* The parts of a step.                                                    *)

LEMMA EmptyWindow ==
  ASSUME NEW b \in [Idx -> Char], NEW h \in Nat, h <= BUF_SIZE, NEW q \in Seq(Char)
  PROVE  Stream(b, h, h, q) = q
<1> DEFINE u == Stream(b, h, h, q)
<1>1. Reads(u, b, h, h, q)
  BY StreamIs
<1> HIDE DEF u
<1>2. u \in Seq(Char) /\ Len(u) = (h - h) + Len(q) /\ \A k \in 1 .. Len(q) : u[(h - h) + k] = q[k]
  BY <1>1 DEF Reads
<1>3. Len(q) \in Nat
  BY LenProperties
<1>4. Len(u) = Len(q) /\ \A k \in 1 .. Len(u) : u[k] = q[k]
  <2>1. \A k \in 1 .. Len(q) : (h - h) + k = k
    BY <1>3
  <2> QED BY <1>2, <1>3, <2>1
<1>5. u = q
  BY <1>2, <1>4, SeqEqual
<1> QED BY <1>5 DEF u

LEMMA UnreadIs ==
  ASSUME STypes, Buffer
  PROVE  /\ Unread \in Seq(Char)
         /\ ok => Unread = Stream(buf, head, tail, pending)
<1>1. ok => Unread = Stream(buf, head, tail, pending)
  BY DEF Unread, Left, Stream, Window
<1>2. CASE ok
  <2>1. Reads(Stream(buf, head, tail, pending), buf, head, tail, pending)
    BY <1>2, StreamIs DEF STypes, Buffer
  <2> QED BY <1>1, <1>2, <2>1 DEF Reads
<1>3. CASE ~ok
  BY <1>3 DEF Unread
<1> QED BY <1>1, <1>2, <1>3

LEMMA LoopIs ==
  ASSUME STypes, todo # <<>>
  PROVE  /\ op \in Loop /\ Tail(todo) \in Seq(Loop)
         /\ op.kind \in {"getc", "literal", "space", "gets"}
         /\ op.kind = "gets" => (op.size = Inf \/ op.size > 0) /\ ~(op.throw /\ op.contain)
         /\ op.size \in Int
<1>1. todo \in Seq(Loop)
  BY DEF STypes
<1>2. op \in Loop /\ Tail(todo) \in Seq(Loop)
  BY <1>1 DEF op
<1> HIDE DEF op
<1> QED BY <1>2 DEF Loop

\* The loop ends as the stream demands; the next one starts from what is left.
Ended(result, left) ==
  /\ left \in Seq(Char)
  /\ ok' => /\ Unread' = left
            /\ left = Rest(before, Ate(op, before)) /\ result = Gave(op, before)

LEMMA FinishOK ==
  ASSUME STypes, todo # <<>>, NEW result, NEW left, Finish(result, left), Ended(result, left)
  PROVE  /\ todo' \in Seq(Loop) /\ before' \in Seq(Char) /\ i' = 0 /\ out' = <<>> /\ dropping' = FALSE
         /\ StoreOK' /\ Progress' /\ LastOK'
<1>1. /\ todo' \in Seq(Loop) /\ i' = 0 /\ dropping' = FALSE /\ out' = <<>>
      /\ before' = IF todo' = <<>> THEN <<>> ELSE left
  BY LoopIs DEF Finish
<1>2. before' \in Seq(Char)
  BY <1>1 DEF Ended
<1>3. StoreOK'
  <2>1. ASSUME todo' # <<>> PROVE op' \in Loop
    BY <1>1, <2>1 DEF op
  <2>2. ASSUME todo' # <<>>, op'.kind = "gets", op'.size # Inf PROVE 0 <= op'.size - 1
    <3> HIDE DEF op
    <3> QED BY <2>1, <2>2 DEF Loop
  <2>3. Len(out') = 0
    BY <1>1
  <2> HIDE DEF op
  <2> QED BY <1>1, <2>2, <2>3 DEF StoreOK
<1>4. Progress'
  <2>1. SUFFICES ASSUME ok', todo' # <<>> PROVE \E e \in 0 .. Len(before') : Taken(e)'
    BY DEF Progress
  <2>2. before' = left /\ Unread' = left /\ left \in Seq(Char)
    BY <1>1, <2>1 DEF Ended
  <2>3. Rest(left, 0) = left /\ Firsts(left, 0) = <<>>
    BY <2>2, Nothing
  <2>4. 0 \in 0 .. Len(before')
    BY <2>2, LenProperties
  <2>5. Taken(0)'
    <3>1. Unread' = Rest(before', 0) /\ out' = Firsts(before', i') /\ i' <= 0 /\ i' = 0
      BY <1>1, <2>2, <2>3
    <3>2. \A k \in 1 .. 0 : before'[k] \in Wants(op)'
      OBVIOUS
    <3> HIDE DEF op
    <3> QED BY <3>1, <3>2 DEF Taken
  <2> QED BY <2>4, <2>5
<1>5. LastOK'
  <2>1. last' = [op |-> op, before |-> before, out |-> result, after |-> left]
    BY DEF Finish
  <2>2. /\ last'.op = op /\ last'.before = before /\ last'.out = result /\ last'.after = left
    BY <2>1
  <2> HIDE DEF op
  <2> QED BY <2>2 DEF LastOK, Ended
<1> QED BY <1>1, <1>2, <1>3, <1>4, <1>5

\* What the loop is looking at.
LEMMA NextChar ==
  ASSUME STypes, Buffer, ok, todo # <<>>, head # tail, NEW ch \in Peeked,
         NEW e \in 0 .. Len(before), Taken(e)
  PROVE  /\ head \in Nat /\ head < tail /\ ch \in Char
         /\ e < Len(before) /\ before[e + 1] = ch
         /\ Stream(buf, head, tail, pending) = Rest(before, e)
         /\ Stream(buf, head + 1, tail, pending) = Rest(before, e + 1)
<1> DEFINE u == Stream(buf, head, tail, pending)
<1>1. BUF_SIZE \in Nat /\ head \in Nat /\ tail \in Nat /\ head < tail /\ tail <= BUF_SIZE
  BY StdinAssumption DEF Buffer
<1>2. /\ before \in Seq(Char) /\ buf \in [Idx -> Char] /\ pending \in Seq(Char)
  BY DEF STypes
<1>3. u = Rest(before, e)
  BY UnreadIs DEF Taken
<1>4. /\ Stream(buf, head + 1, tail, pending) = Rest(u, 1)
      /\ u[1] = buf[head] /\ Len(u) > 0 /\ head \in Idx
  BY <1>1, <1>2, AdvanceOK
<1>5. ch = buf[head] /\ ch \in Char
  BY <1>2, <1>4 DEF Peeked
<1> HIDE DEF u
<1>6. /\ Len(u) = Len(before) - e
      /\ \A k \in 1 .. (Len(before) - e) : u[k] = before[e + k]
  BY <1>2, <1>3, RestIs
<1>7. Len(before) \in Nat /\ e \in Nat
  BY <1>2, LenProperties
<1>8. e < Len(before) /\ 1 \in 1 .. (Len(before) - e)
  BY <1>4, <1>6, <1>7
<1>9. Rest(u, 1) = Rest(before, e + 1)
  BY <1>2, <1>3, <1>8, RestRest
<1> QED BY <1>1, <1>3, <1>4, <1>5, <1>6, <1>8, <1>9 DEF u

LEMMA ConsumesIs ==
  ASSUME STypes, todo # <<>>, NEW ch \in Char
  PROVE  Consumes(ch) <=> ch \in Wants(op)
BY LoopIs DEF Consumes, Wants

\* A loop that is neither remove_space nor gets wants nothing.
LEMMA NoneTaken ==
  ASSUME STypes, todo # <<>>, op.kind \in {"getc", "literal"}, NEW e \in 0 .. Len(before), Taken(e)
  PROVE  e = 0
<1>1. Len(before) \in Nat /\ Wants(op) = {}
  BY LenProperties DEF STypes, Wants
<1>2. \A k \in 1 .. e : k \notin 1 .. e
  BY <1>1 DEF Taken
<1> QED BY <1>1, <1>2

-----------------------------------------------------------------------------
(* The ends of the loops.                                                  *)

\* gets ends because its buffer is full.
LEMMA FullEnds ==
  ASSUME STypes, StoreOK, ok, todo # <<>>, op.kind = "gets", ~dropping, Full(op), ~op.throw,
         NEW e \in 0 .. Len(before), Taken(e)
  PROVE  Rest(before, e) = Rest(before, Ate(op, before)) /\ out = Gave(op, before)
<1>1. op \in Loop /\ op.size \in Int /\ before \in Seq(Char) /\ Len(before) \in Nat /\ i \in Nat
  BY LoopIs, LenProperties DEF STypes
<1>2. op.size # Inf /\ i = op.size - 1 /\ i = e /\ i <= e /\ out = Firsts(before, i)
  BY <1>1 DEF StoreOK, Full, Taken
<1>3. \A k \in 1 .. e : before[k] \in Wants(op)
  BY DEF Taken
<1> HIDE DEF op
<1>4. Stored(op, before) = i
  BY <1>1, <1>2, <1>3, GetsCut
<1>5. Eaten(op, before) = i
  BY <1>4 DEF Eaten
<1> QED BY <1>1, <1>2, <1>4, <1>5, GetsAte

\* gets ends at the end of its run, at a character it does not take.
LEMMA RunEnds ==
  ASSUME STypes, StoreOK, Looks, op.kind \in {"space", "gets"},
         NEW e \in 0 .. Len(before), Taken(e), IsRun(before, Wants(op), e),
         op.kind = "gets" => dropping \/ ~op.contain \/ At(before, e + 1) = NUL
  PROVE  Ate(op, before) = e /\ out = Gave(op, before)
<1>1. /\ todo # <<>> /\ op \in Loop /\ op.size \in Int /\ before \in Seq(Char)
      /\ Len(before) \in Nat /\ i \in Nat /\ e \in Nat
  BY LoopIs, LenProperties DEF STypes, Looks
<1>2. CASE op.kind = "space"
  <2>1. out = <<>>
    BY <1>1, <1>2 DEF StoreOK
  <2> QED BY <1>1, <1>2, <2>1, SpaceIs
<1>3. CASE op.kind = "gets" /\ dropping
  <2>1. op.throw /\ op.size # Inf /\ i = op.size - 1 /\ i <= e /\ out = Firsts(before, i)
    BY <1>1, <1>3 DEF StoreOK, Full, Taken
  <2>2. \A k \in 1 .. e : before[k] \in Wants(op)
    BY DEF Taken
  <2> HIDE DEF op
  <2>3. Stored(op, before) = i
    BY <1>1, <1>3, <2>1, <2>2, GetsCut
  <2>4. Eaten(op, before) = e
    BY <1>1, <1>3, <2>1, GetsEnd
  <2> QED BY <1>1, <1>3, <2>1, <2>3, <2>4, GetsAte
<1>4. CASE op.kind = "gets" /\ ~dropping
  <2>1. i = e /\ out = Firsts(before, e) /\ (op.size = Inf \/ e < op.size - 1)
    BY <1>1, <1>4 DEF Full, Taken, Looks
  <2>2. ~(op.contain /\ At(before, e + 1) # NUL)
    BY <1>4
  <2> HIDE DEF op
  <2>3. Stored(op, before) = e
    BY <1>1, <1>4, <2>1, <2>2, GetsEnd
  <2>4. Eaten(op, before) = e
    BY <1>1, <1>4, <2>1, <2>3, GetsEnd
  <2> QED BY <1>1, <1>4, <2>1, <2>3, <2>4, GetsAte
<1> QED BY <1>2, <1>3, <1>4

\* gets ends with the delimiter, which it keeps.
LEMMA DelimiterEnds ==
  ASSUME STypes, StoreOK, Looks, op.kind = "gets", ~dropping, op.contain,
         NEW e \in 0 .. Len(before), e < Len(before), Taken(e), IsRun(before, Wants(op), e),
         before[e + 1] # NUL
  PROVE  Ate(op, before) = e + 1 /\ Append(out, before[e + 1]) = Gave(op, before)
<1>1. /\ todo # <<>> /\ op \in Loop /\ op.size \in Int /\ before \in Seq(Char) /\ ~op.throw
      /\ Len(before) \in Nat /\ i \in Nat /\ e \in Nat
  BY LoopIs, LenProperties DEF STypes, Looks
<1>2. i = e /\ out = Firsts(before, e) /\ (op.size = Inf \/ e < op.size - 1)
  BY <1>1 DEF Full, Taken, Looks
<1>3. At(before, e + 1) # NUL
  BY <1>1 DEF At
<1> HIDE DEF op
<1>4. Stored(op, before) = e + 1
  BY <1>1, <1>2, <1>3, GetsEnd
<1>5. Eaten(op, before) = e + 1
  BY <1>1, <1>4, GetsEnd
<1>6. Append(out, before[e + 1]) = Firsts(before, e + 1)
  BY <1>1, <1>2, FirstsAppend
<1> QED BY <1>1, <1>4, <1>5, <1>6, GetsAte

\* The loops of one character.
LEMMA OneEnds ==
  ASSUME NEW s \in Seq(Char), NEW o \in Loop
  PROVE  /\ o.kind = "getc" /\ s = <<>> => Ate(o, s) = 0 /\ Gave(o, s) = <<NUL>>
         /\ o.kind = "getc" /\ Len(s) > 0 => Ate(o, s) = 1 /\ Gave(o, s) = <<s[1]>>
         /\ o.kind = "literal" /\ Len(s) > 0 /\ s[1] = Plain =>
              Ate(o, s) = 1 /\ Gave(o, s) = Append(<<>>, s[1])
         /\ o.kind = "literal" /\ s = <<>> => Ate(o, s) = 0 /\ Gave(o, s) = <<>>
         /\ o.kind = "literal" /\ Len(s) > 0 /\ s[1] # Plain => Ate(o, s) = 0 /\ Gave(o, s) = <<>>
<1>1. Len(s) \in Nat /\ 0 \in 0 .. Len(s) /\ (s = <<>> <=> Len(s) = 0)
  BY LenProperties, EmptySeq
<1>2. At(s, 1) = IF 1 <= Len(s) THEN s[1] ELSE NUL
  BY DEF At
<1>3. NUL # Plain
  BY StdinAssumption
<1>4. Firsts(s, 0) = <<>>
  BY Nothing
<1>5. Len(s) > 0 => Append(<<>>, s[1]) = Firsts(s, 1)
  <2>1. Len(s) > 0 => Append(Firsts(s, 0), s[0 + 1]) = Firsts(s, 0 + 1)
    BY <1>1, FirstsAppend
  <2>2. 0 + 1 = 1
    OBVIOUS
  <2> QED BY <1>4, <2>1, <2>2, Zenon
<1>6. ASSUME o.kind = "getc" PROVE Ate(o, s) = (IF s = <<>> THEN 0 ELSE 1) /\ Gave(o, s) = <<At(s, 1)>>
  BY <1>6 DEF Ate, Gave
<1>7. ASSUME o.kind = "literal"
      PROVE  Ate(o, s) = (IF At(s, 1) = Plain THEN 1 ELSE 0) /\ Gave(o, s) = Firsts(s, Ate(o, s))
  BY <1>7 DEF Ate, Gave
<1> QED BY <1>1, <1>2, <1>3, <1>4, <1>5, <1>6, <1>7

-----------------------------------------------------------------------------
(* The steps.                                                              *)

\* The types, when a loop ends.
LEMMA EndTypes ==
  ASSUME STypes, pending' \in Seq(Char), buf' \in [Idx -> Char], ok' = ok,
         todo' \in Seq(Loop), before' \in Seq(Char), i' = 0, out' = <<>>, dropping' = FALSE
  PROVE  STypes'
<1>1. i' \in Nat /\ out' \in Seq(Char)
  OBVIOUS
<1>2. dropping' \in BOOLEAN /\ ok' \in BOOLEAN
  BY DEF STypes
<1> QED BY <1>1, <1>2 DEF STypes

LEMMA InitOK ==
  ASSUME Init
  PROVE  SInv
<1>1. STypes
  <2>1. pending \in Seq(Char)
    BY StdinAssumption DEF Init
  <2>2. NUL \in Char
    BY DEF Char
  <2>3. buf \in [Idx -> Char]
    BY <2>2 DEF Init
  <2>4. todo \in Seq(Loop) /\ i \in Nat /\ out \in Seq(Char) /\ before \in Seq(Char)
    BY DEF Init
  <2>5. dropping \in BOOLEAN /\ ok \in BOOLEAN
    BY DEF Init
  <2> QED BY <2>1, <2>3, <2>4, <2>5 DEF STypes
<1>2. Buffer /\ StoreOK /\ Progress /\ LastOK
  BY StdinAssumption DEF Init, Buffer, StoreOK, Progress, LastOK
<1> QED BY <1>1, <1>2 DEF SInv

LEMMA CallsAreLoops ==
  ASSUME NEW loops \in Calls
  PROVE  loops \in Seq(Loop)
<1>1. Getc \in Loop /\ Literal \in Loop /\ RemoveSpace \in Loop
  <2> DEFINE R == [kind : {"getc", "literal", "space", "gets"}, size : Int, delim : SUBSET Space,
                   throw : BOOLEAN, contain : BOOLEAN]
  <2>1. Getc \in R /\ Getc \in Loop
    BY DEF Getc, Loop
  <2> HIDE DEF Getc
  <2>2. Literal \in R /\ Literal.kind = "literal"
    BY <2>1 DEF Literal
  <2>3. RemoveSpace \in R /\ RemoveSpace.kind = "space"
    BY <2>1 DEF RemoveSpace
  <2> HIDE DEF Literal, RemoveSpace
  <2>4. Literal \in Loop
    BY <2>2 DEF Loop
  <2>5. RemoveSpace \in Loop
    BY <2>3 DEF Loop
  <2> QED BY <2>1, <2>4, <2>5
<1>2. Gets(Inf, Space, TRUE, FALSE) \in Loop /\ Gets(NumBuf, Space, TRUE, FALSE) \in Loop
  BY StdinAssumption DEF Gets, Loop, Inf, Space
<1>3. ASSUME NEW size \in Sizes PROVE Gets(size, {"nl"}, FALSE, TRUE) \in Loop
  <2>1. size \in Nat \ {0}
    BY StdinAssumption
  <2> QED BY <2>1 DEF Gets, Loop, Space
<1> HIDE DEF Loop, Gets, Getc, Literal, RemoveSpace
<1>4. ASSUME NEW a \in Loop PROVE <<a>> \in Seq(Loop)
  OBVIOUS
<1>5. ASSUME NEW a \in Loop, NEW b \in Loop PROVE <<a, b>> \in Seq(Loop)
  OBVIOUS
<1>6. /\ getchar \in Seq(Loop) /\ scanf_c \in Seq(Loop)
      /\ scanf_space \in Seq(Loop) /\ scanf_literal \in Seq(Loop)
  BY <1>1, <1>4 DEF getchar, scanf_c, scanf_space, scanf_literal
<1>7. scanf_s \in Seq(Loop) /\ scanf_num \in Seq(Loop)
  BY <1>1, <1>2, <1>5 DEF scanf_s, scanf_num
<1>8. \A size \in Sizes : getline(size) \in Seq(Loop)
  BY <1>3, <1>4 DEF getline
<1> QED BY <1>6, <1>7, <1>8 DEF Calls

LEMMA CallOK ==
  ASSUME SInv, NEW loops \in Calls, call(loops)
  PROVE  SInv'
<1> USE DEF SInv
<1>1. /\ todo = <<>> /\ todo' = loops /\ loops # <<>> /\ before' = Unread /\ loops \in Seq(Loop)
      /\ UNCHANGED <<pending, buf, head, tail, ok, i, dropping, out, last>>
  BY CallsAreLoops DEF call, stream
<1>2. Unread' = Unread /\ Unread \in Seq(Char)
  <2>1. Unread' = Unread
    BY <1>1 DEF Unread, Left
  <2> QED BY <2>1, UnreadIs
<1>3. i = 0 /\ out = <<>> /\ dropping = FALSE
  BY <1>1 DEF StoreOK, STypes
<1>4. op' \in Loop
  BY <1>1 DEF op
<1> HIDE DEF op
<1>5. STypes'
  BY <1>1, <1>2 DEF STypes
<1>6. Buffer' /\ LastOK'
  BY <1>1 DEF Buffer, LastOK
<1>7. StoreOK'
  <2>1. op'.kind = "gets" /\ op'.size # Inf => 0 <= op'.size - 1
    BY <1>4 DEF Loop
  <2>2. Len(out') = 0 /\ i' = 0 /\ out' = <<>> /\ dropping' = FALSE
    BY <1>1, <1>3
  <2> QED BY <2>1, <2>2 DEF StoreOK
<1>8. Progress'
  <2>1. before' = Unread' /\ before' \in Seq(Char)
    BY <1>1, <1>2
  <2>2. Rest(before', 0) = before' /\ Firsts(before', 0) = <<>> /\ 0 \in 0 .. Len(before')
    BY <2>1, Nothing, LenProperties
  <2>3. i' = 0 /\ out' = <<>>
    BY <1>1, <1>3
  <2>4. \A k \in 1 .. 0 : before'[k] \in Wants(op)'
    OBVIOUS
  <2>5. Taken(0)'
    BY <2>1, <2>2, <2>3, <2>4 DEF Taken
  <2> QED BY <2>2, <2>5 DEF Progress
<1> QED BY <1>5, <1>6, <1>7, <1>8

LEMMA GetsFullOK ==
  ASSUME SInv, gets_full
  PROVE  SInv'
<1> USE DEF SInv
<1>1. /\ todo # <<>> /\ op.kind = "gets" /\ ~dropping /\ Full(op)
      /\ UNCHANGED <<pending, buf, head, tail, ok>>
  BY DEF gets_full, stream
<1>2. Unread' = Unread /\ Unread \in Seq(Char)
  <2>1. Unread' = Unread
    BY <1>1 DEF Unread, Left
  <2> QED BY <2>1, UnreadIs
<1>3. Buffer'
  BY <1>1 DEF Buffer
<1>4. CASE op.throw
  <2>1. /\ dropping' = TRUE /\ UNCHANGED <<i, out, todo, before, last>>
    BY <1>4 DEF gets_full, Goon
  <2>2. op' = op
    BY <2>1 DEF op
  <2> HIDE DEF op
  <2>3. STypes' /\ LastOK'
    BY <1>1, <2>1 DEF STypes, LastOK
  <2>4. StoreOK'
    BY <1>1, <1>4, <2>1, <2>2 DEF StoreOK, Full
  <2>5. Progress'
    <3>1. SUFFICES ASSUME ok PROVE \E e \in 0 .. Len(before) : Taken(e)'
      BY <1>1, <2>1 DEF Progress
    <3>2. PICK e \in 0 .. Len(before) : Taken(e)
      BY <1>1, <3>1 DEF Progress
    <3>3. Taken(e)'
      BY <1>2, <2>1, <2>2, <3>2 DEF Taken
    <3> QED BY <3>3
  <2> QED BY <1>3, <2>3, <2>4, <2>5
<1>5. CASE ~op.throw
  <2>1. Finish(out, Unread)
    BY <1>5 DEF gets_full
  <2>2. Ended(out, Unread)
    <3>1. ASSUME ok' PROVE Unread = Rest(before, Ate(op, before)) /\ out = Gave(op, before)
      <4>1. PICK e \in 0 .. Len(before) : Taken(e)
        BY <1>1, <3>1 DEF Progress
      <4>2. Unread = Rest(before, e)
        BY <4>1 DEF Taken
      <4>3. Rest(before, e) = Rest(before, Ate(op, before)) /\ out = Gave(op, before)
        BY <1>1, <1>5, <3>1, <4>1, FullEnds
      <4> QED BY <4>2, <4>3
    <3> QED BY <1>2, <3>1 DEF Ended
  <2>3. /\ todo' \in Seq(Loop) /\ before' \in Seq(Char) /\ i' = 0 /\ out' = <<>> /\ dropping' = FALSE
        /\ StoreOK' /\ Progress' /\ LastOK'
    BY <1>1, <2>1, <2>2, FinishOK
  <2>4. pending' \in Seq(Char) /\ buf' \in [Idx -> Char] /\ ok' = ok
    BY <1>1 DEF STypes
  <2>5. STypes'
    BY <2>3, <2>4, EndTypes
  <2> QED BY <1>3, <2>3, <2>5
<1> QED BY <1>4, <1>5

\* A loop that goes on without taking a character keeps its invariant.
LEMMA RefillFailsOK ==
  ASSUME SInv, refill_fails
  PROVE  SInv'
<1>1. /\ ok' = FALSE /\ UNCHANGED <<pending, buf, i, dropping, out, todo, before, last>>
  BY DEF refill_fails, Goon
<1>2. op' = op
  BY <1>1 DEF op
<1> HIDE DEF op
<1>3. STypes'
  BY <1>1 DEF SInv, STypes
<1>4. StoreOK'
  BY <1>1, <1>2 DEF SInv, StoreOK, Full
<1>5. Buffer' /\ Progress' /\ LastOK'
  BY <1>1 DEF Buffer, Progress, LastOK
<1> QED BY <1>3, <1>4, <1>5 DEF SInv

\* The end of the input ends every loop.
LEMMA EndOfInput ==
  ASSUME SInv, Looks, NEW e \in 0 .. Len(before), Taken(e), e = Len(before)
  PROVE  /\ Rest(before, Ate(op, before)) = <<>>
         /\ (IF op.kind = "getc" THEN <<NUL>> ELSE out) = Gave(op, before)
<1> USE DEF SInv
<1>1. /\ todo # <<>> /\ op \in Loop /\ before \in Seq(Char) /\ Len(before) \in Nat
      /\ op.kind \in {"getc", "literal", "space", "gets"}
  BY LoopIs, LenProperties DEF STypes, Looks
<1>2. Rest(before, e) = <<>>
  BY <1>1, AllOfIt
<1>3. CASE op.kind \in {"getc", "literal"}
  <2>1. e = 0
    BY <1>1, <1>3, NoneTaken
  <2>2. before = <<>> /\ Rest(before, 0) = <<>>
    BY <1>1, <1>2, <2>1, EmptySeq
  <2>3. out = <<>>
    BY <1>1, <1>3 DEF StoreOK
  <2> HIDE DEF op
  <2>4. /\ Ate(op, before) = 0
        /\ op.kind = "getc" => Gave(op, before) = <<NUL>>
        /\ op.kind # "getc" => Gave(op, before) = <<>>
    <3>1. CASE op.kind = "getc"
      BY <1>1, <2>2, <3>1, OneEnds, Zenon
    <3>2. CASE op.kind = "literal"
      <4>1. Ate(op, before) = 0 /\ Gave(op, before) = <<>>
        BY <1>1, <2>2, <3>2, OneEnds, Zenon
      <4> QED BY <3>2, <4>1
    <3> QED BY <1>3, <3>1, <3>2
  <2> QED BY <2>2, <2>3, <2>4
<1>4. CASE op.kind \in {"space", "gets"}
  <2>1. IsRun(before, Wants(op), e)
    BY <1>1 DEF IsRun, Taken
  <2>2. At(before, e + 1) = NUL
    BY <1>1 DEF At
  <2>3. Ate(op, before) = e /\ out = Gave(op, before)
    BY <1>4, <2>1, <2>2, RunEnds
  <2>4. op.kind # "getc"
    BY <1>4
  <2> HIDE DEF op
  <2> QED BY <1>2, <2>3, <2>4
<1> QED BY <1>1, <1>3, <1>4

LEMMA RefillOK ==
  ASSUME SInv, NEW n \in 0 .. BUF_SIZE, refill(n)
  PROVE  SInv'
<1> USE DEF SInv
<1>1. /\ Looks /\ head = tail /\ n <= Len(pending) /\ (n = 0 => pending = <<>>)
      /\ buf' = [k \in Idx |-> IF k < n THEN pending[k + 1] ELSE buf[k]]
      /\ pending' = SubSeq(pending, n + 1, Len(pending))
      /\ head' = 0 /\ tail' = n /\ ok' = ok
  BY DEF refill
<1>2. /\ pending \in Seq(Char) /\ buf \in [Idx -> Char] /\ BUF_SIZE \in Nat /\ todo # <<>>
  <2>1. todo # <<>>
    BY <1>1 DEF Looks
  <2> QED BY <2>1, StdinAssumption DEF STypes
<1>3. buf' \in [Idx -> Char] /\ pending' \in Seq(Char) /\ Stream(buf', 0, n, pending') = pending
  <2>1. buf' = Filled(buf, pending, n) /\ pending' = Rest(pending, n)
    BY <1>1, Zenon DEF Filled, Rest
  <2>2. /\ Filled(buf, pending, n) \in [Idx -> Char] /\ Rest(pending, n) \in Seq(Char)
        /\ Stream(Filled(buf, pending, n), 0, n, Rest(pending, n)) = pending
    <3>1. n <= Len(pending)
      BY <1>1
    <3> QED BY <1>2, <3>1, RefillSame
  <2> QED BY <2>1, <2>2, Zenon
<1>4. ok' => Unread' = pending
  BY <1>1, <1>3 DEF Unread, Left, Stream, Window
<1>5. ok => Unread = pending
  <2>1. SUFFICES ASSUME ok PROVE Unread = pending
    OBVIOUS
  <2>2. head \in Nat /\ head <= BUF_SIZE
    BY <1>1, <2>1 DEF Buffer
  <2>3. Stream(buf, head, head, pending) = pending
    BY <1>2, <2>2, EmptyWindow
  <2> QED BY <1>1, <2>1, <2>3, UnreadIs
<1>6. Buffer'
  BY <1>1, <1>2 DEF Buffer
<1>7. CASE n = 0
  <2> DEFINE result == IF op.kind = "getc" THEN <<NUL>> ELSE out
  <2>1. Finish(result, <<>>)
    BY <1>7 DEF refill, MeetsEnd
  <2>2. Ended(result, <<>>)
    <3>1. ASSUME ok PROVE Rest(before, Ate(op, before)) = <<>> /\ result = Gave(op, before)
      <4>1. PICK e \in 0 .. Len(before) : Taken(e)
        BY <1>2, <3>1 DEF Progress
      <4>2. Rest(before, e) = <<>> /\ before \in Seq(Char) /\ Len(before) \in Nat
        BY <1>1, <1>5, <1>7, <3>1, <4>1, LenProperties DEF Taken, STypes
      <4>3. e = Len(before)
        <5>1. Len(Rest(before, e)) = Len(before) - e
          BY <4>2, RestIs
        <5> QED BY <4>2, <5>1
      <4> QED BY <1>1, <4>1, <4>3, EndOfInput
    <3>2. ok' => Unread' = <<>>
      BY <1>1, <1>4, <1>7
    <3> HIDE DEF result
    <3> QED BY <1>1, <3>1, <3>2 DEF Ended
  <2> HIDE DEF result
  <2>3. /\ todo' \in Seq(Loop) /\ before' \in Seq(Char) /\ i' = 0 /\ out' = <<>> /\ dropping' = FALSE
        /\ StoreOK' /\ Progress' /\ LastOK'
    BY <1>2, <2>1, <2>2, FinishOK
  <2>4. STypes'
    BY <1>1, <1>3, <2>3, EndTypes
  <2> QED BY <1>6, <2>3, <2>4
<1>8. CASE n # 0
  <2>1. UNCHANGED <<i, dropping, out, todo, before, last>>
    BY <1>8 DEF refill, Goon
  <2>2. op' = op
    BY <2>1 DEF op
  <2> HIDE DEF op
  <2>3. STypes'
    BY <1>1, <1>3, <2>1 DEF STypes
  <2>4. LastOK'
    BY <1>1, <2>1 DEF LastOK
  <2>5. StoreOK'
    BY <2>1, <2>2 DEF StoreOK, Full
  <2>6. Progress'
    <3>1. SUFFICES ASSUME ok PROVE \E e \in 0 .. Len(before) : Taken(e)'
      BY <1>1, <2>1 DEF Progress
    <3>2. PICK e \in 0 .. Len(before) : Taken(e)
      BY <1>2, <3>1 DEF Progress
    <3>3. Unread' = Unread
      BY <1>1, <1>4, <1>5, <3>1
    <3>4. Taken(e)'
      BY <2>1, <2>2, <3>2, <3>3 DEF Taken
    <3> QED BY <3>4
  <2> QED BY <1>6, <2>3, <2>4, <2>5, <2>6
<1> QED BY <1>7, <1>8

\* A loop takes a character and goes on.
LEMMA GoesOnOK ==
  ASSUME SInv, NEW ch \in Char, char_goes_on(ch)
  PROVE  SInv'
<1> USE DEF SInv
<1>1. /\ Looks /\ head # tail /\ ch \in Peeked /\ Consumes(ch) /\ head' = head + 1
      /\ UNCHANGED <<pending, buf, tail, ok, dropping, todo, before, last>>
  BY DEF char_goes_on, Goon
<1>2. todo # <<>>
  BY <1>1 DEF Looks
<1>3. ch \in Wants(op) /\ op \in Loop /\ op.size \in Int
  BY <1>1, <1>2, ConsumesIs, LoopIs
<1>4. i \in Nat /\ out \in Seq(Char) /\ before \in Seq(Char) /\ Len(before) \in Nat
  BY LenProperties DEF STypes
<1>5. op' = op
  BY <1>1 DEF op
<1>6. /\ op.kind = "gets" /\ ~dropping => i' = i + 1 /\ out' = Append(out, ch)
      /\ ~(op.kind = "gets" /\ ~dropping) => i' = i /\ out' = out
  BY DEF char_goes_on
<1>7. op.kind = "gets" /\ ~dropping /\ op.size # Inf => i < op.size - 1
  BY <1>1, <1>3, <1>4 DEF Looks, Full
<1>8. op.kind = "gets" => Len(out) = i /\ (op.size # Inf => i <= op.size - 1) /\ (dropping => op.throw /\ Full(op))
  BY <1>2 DEF StoreOK
<1>9. op.kind # "gets" => i = 0 /\ out = <<>> /\ ~dropping
  BY <1>2 DEF StoreOK
<1> HIDE DEF op
<1>10. i' \in Nat /\ out' \in Seq(Char) /\ (op.kind = "gets" => Len(out') = i')
  <2>1. CASE op.kind = "gets" /\ ~dropping
    BY <1>4, <1>6, <1>8, <2>1, SMTT(40)
  <2>2. CASE ~(op.kind = "gets" /\ ~dropping)
    BY <1>4, <1>6, <1>8, <2>2
  <2> QED BY <2>1, <2>2
<1>11. STypes'
  BY <1>1, <1>10 DEF STypes
<1>12. StoreOK'
  <2>1. CASE op.kind = "gets" /\ ~dropping
    <3>1. op.size # Inf => i' <= op.size - 1
      BY <1>3, <1>4, <1>6, <1>7, <2>1
    <3> QED BY <1>1, <1>2, <1>5, <1>10, <2>1, <3>1 DEF StoreOK
  <2>2. CASE op.kind = "gets" /\ dropping
    BY <1>1, <1>2, <1>5, <1>6, <1>8, <2>2 DEF StoreOK, Full
  <2>3. CASE op.kind # "gets"
    BY <1>1, <1>5, <1>6, <1>9, <2>3 DEF StoreOK
  <2> QED BY <2>1, <2>2, <2>3
<1>13. LastOK'
  BY <1>1 DEF LastOK
<1>14. CASE ~ok
  BY <1>1, <1>11, <1>12, <1>13, <1>14 DEF Buffer, Progress
<1>15. CASE ok
  <2>1. PICK e \in 0 .. Len(before) : Taken(e)
    BY <1>2, <1>15 DEF Progress
  <2>2. /\ head \in Nat /\ head < tail /\ e < Len(before) /\ before[e + 1] = ch
        /\ Stream(buf, head + 1, tail, pending) = Rest(before, e + 1)
    BY <1>1, <1>2, <1>15, <2>1, NextChar
  <2>3. Buffer'
    BY <1>1, <1>15, <2>2 DEF Buffer
  <2>4. Unread' = Rest(before', e + 1)
    BY <1>1, <1>15, <2>2 DEF Unread, Left, Stream, Window
  <2>5. e \in Nat /\ e + 1 \in 0 .. Len(before)
    BY <1>4, <2>2
  <2>6. ASSUME NEW k \in 1 .. (e + 1) PROVE before'[k] \in Wants(op)'
    <3>1. k = e + 1 \/ k \in 1 .. e
      BY <2>5
    <3>2. Wants(op)' = Wants(op) /\ before' = before
      BY <1>1, <1>5 DEF Wants
    <3> QED BY <1>3, <2>1, <2>2, <3>1, <3>2 DEF Taken
  <2>7. ASSUME op.kind = "gets"
        PROVE  i' <= e + 1 /\ out' = Firsts(before', i') /\ (dropping' \/ i' = e + 1)
    <3>1. i <= e /\ out = Firsts(before, i) /\ (dropping \/ i = e)
      BY <2>1, <2>7 DEF Taken
    <3>2. CASE dropping
      BY <1>1, <1>4, <1>6, <2>5, <3>1, <3>2
    <3>3. CASE ~dropping
      <4>1. i = e /\ i' = e + 1 /\ out' = Append(Firsts(before, e), ch)
        BY <1>6, <2>7, <3>1, <3>3
      <4>2. Append(Firsts(before, e), ch) = Firsts(before, e + 1)
        BY <1>4, <2>2, FirstsAppend
      <4> QED BY <1>1, <2>5, <4>1, <4>2
    <3> QED BY <3>2, <3>3
  <2>8. Taken(e + 1)'
    BY <1>5, <2>4, <2>6, <2>7 DEF Taken
  <2>9. Progress'
    BY <1>1, <2>5, <2>8 DEF Progress
  <2> QED BY <1>11, <1>12, <1>13, <2>3, <2>9
<1> QED BY <1>14, <1>15

\* A loop meets a character that ends it.
LEMMA EndsOK ==
  ASSUME SInv, NEW ch \in Char, char_ends(ch)
  PROVE  SInv'
<1> USE DEF SInv
<1>1. /\ Looks /\ head # tail /\ ch \in Peeked /\ ~Consumes(ch)
      /\ UNCHANGED <<pending, buf, tail, ok>>
      /\ ConsumesLast(ch) => head' = head + 1 /\ Finish(Append(out, ch), After(head + 1))
      /\ ~ConsumesLast(ch) => head' = head /\ Finish(out, After(head))
  BY DEF char_ends
<1>2. todo # <<>>
  BY <1>1 DEF Looks
<1>3. ch \notin Wants(op) /\ op \in Loop /\ op.kind \in {"getc", "literal", "space", "gets"}
  BY <1>1, <1>2, ConsumesIs, LoopIs
<1>4. before \in Seq(Char) /\ Len(before) \in Nat
  BY LenProperties DEF STypes
<1>5. op.kind # "gets" => out = <<>>
  BY <1>2 DEF StoreOK
<1> DEFINE left == IF ConsumesLast(ch) THEN After(head + 1) ELSE After(head)
           result == IF ConsumesLast(ch) THEN Append(out, ch) ELSE out
<1>6. Finish(result, left) /\ head' = IF ConsumesLast(ch) THEN head + 1 ELSE head
  BY <1>1
<1>7. Buffer' /\ Ended(result, left)
  <2>1. CASE ~ok
    <3>1. left = <<>>
      BY <2>1 DEF After
    <3> HIDE DEF left, result
    <3> QED BY <1>1, <2>1, <3>1 DEF Ended, Buffer
  <2>2. CASE ok
    <3>1. PICK e \in 0 .. Len(before) : Taken(e)
      BY <1>2, <2>2 DEF Progress
    <3>2. /\ head \in Nat /\ head < tail /\ e < Len(before) /\ before[e + 1] = ch
          /\ Stream(buf, head, tail, pending) = Rest(before, e)
          /\ Stream(buf, head + 1, tail, pending) = Rest(before, e + 1)
      BY <1>1, <1>2, <2>2, <3>1, NextChar
    <3>3. e \in Nat /\ e + 1 \in 0 .. Len(before)
      BY <1>4, <3>2
    <3>4. Buffer'
      BY <1>1, <1>6, <2>2, <3>2 DEF Buffer
    <3>5. After(head) = Rest(before, e) /\ After(head + 1) = Rest(before, e + 1)
      BY <2>2, <3>2 DEF After, Left, Stream, Window
    <3>6. Unread' = left
      BY <1>1, <1>6, <2>2 DEF Unread, After, Left
    <3>7. left \in Seq(Char)
      BY <1>4, <3>3, <3>5, RestIs
    <3>8. IsRun(before, Wants(op), e)
      BY <1>3, <3>1, <3>2, <3>3 DEF IsRun, Taken
    <3>9. left = Rest(before, Ate(op, before)) /\ result = Gave(op, before)
      <4>1. CASE op.kind \in {"getc", "literal"}
        <5>1. e = 0
          BY <1>2, <3>1, <4>1, NoneTaken
        <5>2. Len(before) > 0 /\ before[1] = ch /\ out = <<>>
          BY <1>5, <3>2, <4>1, <5>1
        <5>3. After(head) = Rest(before, 0) /\ After(head + 1) = Rest(before, 1)
          BY <3>5, <5>1
        <5>4. CASE op.kind = "getc"
          <6>1. ConsumesLast(ch)
            BY <5>4 DEF ConsumesLast
          <6>2. Ate(op, before) = 1 /\ Gave(op, before) = <<before[1]>>
            BY <1>3, <1>4, <5>2, <5>4, OneEnds
          <6> QED BY <5>2, <5>3, <6>1, <6>2
        <5>5. CASE op.kind = "literal" /\ ch = Plain
          <6>1. ConsumesLast(ch)
            BY <5>5 DEF ConsumesLast
          <6>2. Ate(op, before) = 1 /\ Gave(op, before) = Append(<<>>, before[1])
            BY <1>3, <1>4, <5>2, <5>5, OneEnds
          <6> QED BY <5>2, <5>3, <6>1, <6>2
        <5>6. CASE op.kind = "literal" /\ ch # Plain
          <6>1. ~ConsumesLast(ch)
            BY <5>6 DEF ConsumesLast
          <6>2. Ate(op, before) = 0 /\ Gave(op, before) = <<>>
            BY <1>3, <1>4, <5>2, <5>6, OneEnds
          <6> QED BY <5>2, <5>3, <6>1, <6>2
        <5> QED BY <4>1, <5>4, <5>5, <5>6
      <4>2. CASE op.kind \in {"space", "gets"} /\ ~ConsumesLast(ch)
        <5>1. At(before, e + 1) = ch
          BY <1>4, <3>2, <3>3 DEF At
        <5>2. op.kind = "gets" => dropping \/ ~op.contain \/ At(before, e + 1) = NUL
          BY <1>1, <4>2, <5>1 DEF Consumes, ConsumesLast
        <5>3. Ate(op, before) = e /\ out = Gave(op, before)
          BY <1>1, <3>1, <3>8, <4>2, <5>2, RunEnds
        <5> QED BY <3>5, <4>2, <5>3
      <4>3. CASE op.kind \in {"space", "gets"} /\ ConsumesLast(ch)
        <5>1. op.kind = "gets" /\ ~dropping /\ op.contain /\ ch # NUL
          BY <4>3 DEF ConsumesLast
        <5>2. Ate(op, before) = e + 1 /\ Append(out, before[e + 1]) = Gave(op, before)
          BY <1>1, <3>1, <3>2, <3>8, <5>1, DelimiterEnds
        <5> QED BY <3>2, <3>5, <4>3, <5>2
      <4> QED BY <1>3, <4>1, <4>2, <4>3
    <3> HIDE DEF left, result
    <3> QED BY <3>4, <3>6, <3>7, <3>9 DEF Ended
  <2> QED BY <2>1, <2>2
<1> HIDE DEF left, result
<1>8. /\ todo' \in Seq(Loop) /\ before' \in Seq(Char) /\ i' = 0 /\ out' = <<>> /\ dropping' = FALSE
      /\ StoreOK' /\ Progress' /\ LastOK'
  BY <1>2, <1>6, <1>7, FinishOK
<1>9. pending' \in Seq(Char) /\ buf' \in [Idx -> Char] /\ ok' = ok
  BY <1>1 DEF STypes
<1>10. STypes'
  BY <1>8, <1>9, EndTypes
<1> QED BY <1>7, <1>8, <1>10

LEMMA StepOK ==
  ASSUME SInv, [Next]_vars
  PROVE  SInv'
<1>1. ASSUME NEW loops \in Calls, call(loops) PROVE SInv'
  BY <1>1, CallOK
<1>2. CASE Step
  <2>1. CASE gets_full
    BY <2>1, GetsFullOK
  <2>2. ASSUME NEW n \in 0 .. BUF_SIZE, refill(n) PROVE SInv'
    BY <2>2, RefillOK
  <2>3. ASSUME NEW ch \in Char, char_goes_on(ch) PROVE SInv'
    BY <2>3, GoesOnOK
  <2>4. ASSUME NEW ch \in Char, char_ends(ch) PROVE SInv'
    BY <2>4, EndsOK
  <2> QED BY <1>2, <2>1, <2>2, <2>3, <2>4 DEF Step
<1>3. CASE refill_fails
  BY <1>3, RefillFailsOK
<1>4. CASE UNCHANGED vars
  <2>1. UNCHANGED <<pending, buf, head, tail, ok, todo, i, dropping, out, before, last>>
    BY <1>4 DEF vars, stream
  <2>2. op' = op /\ Unread' = Unread
    BY <2>1 DEF op, Unread, Left
  <2>3. STypes' /\ Buffer' /\ LastOK'
    BY <2>1 DEF SInv, STypes, Buffer, LastOK
  <2> HIDE DEF op
  <2>4. StoreOK'
    BY <2>1, <2>2 DEF SInv, StoreOK, Full
  <2>5. ASSUME NEW e, Taken(e) PROVE Taken(e)'
    BY <2>1, <2>2, <2>5 DEF Taken
  <2>6. Progress'
    BY <2>1, <2>5 DEF SInv, Progress
  <2> QED BY <2>3, <2>4, <2>6 DEF SInv
<1> QED BY <1>1, <1>2, <1>3, <1>4 DEF Next

LEMMA SInvHolds == Spec => []SInv
<1>1. Init => SInv
  BY InitOK
<1>2. SInv /\ [Next]_vars => SInv'
  BY StepOK
<1> QED BY <1>1, <1>2, PTL DEF Spec

\* However read() cuts the input into chunks, and as long as it does not fail, every
\* finished getc, literal, remove_space and gets of scanf.c has returned and left
\* behind what the stream alone determines, inside its caller's buffer.
THEOREM ChunksNeverMatter == Spec => []ChunksDoNotMatter
<1>1. SInv => ChunksDoNotMatter
  <2>1. SUFFICES ASSUME SInv PROVE ChunksDoNotMatter
    OBVIOUS
  <2>2. ok => 0 <= head /\ head <= tail /\ tail <= BUF_SIZE
    BY <2>1 DEF SInv, Buffer
  <2>3. todo # <<>> /\ op.kind = "gets" /\ op.size # Inf => Len(out) <= op.size - 1
    BY <2>1 DEF SInv, StoreOK
  <2>4. TypeOK
    BY <2>1, <2>2, <2>3 DEF TypeOK, SInv, STypes
  <2> QED BY <2>1, <2>4 DEF ChunksDoNotMatter, SInv, LastOK
<1> QED BY <1>1, SInvHolds, PTL

-----------------------------------------------------------------------------
(* Memory and strings.                                                     *)

-----------------------------------------------------------------------------
(* The string functions.  A memory, and a string in it.                    *)

Addr == Strs!Addr
Mem == [Addr -> Nat]

LEMMA AddrIs ==
  /\ Addr = 0 .. (MemSize - 1) /\ MemSize \in Nat /\ MemSize >= 1 /\ Addr \subseteq Nat
  /\ \A m \in Mem : DOMAIN m = Addr /\ \A a \in Addr : m[a] \in Nat
BY StringsAssumption DEF Addr, Strs!Addr, Mem

\* The first of the places where a loop may stop.
LEMMA FirstIs ==
  ASSUME NEW S \in SUBSET Nat, S # {}
  PROVE  Strs!First(S) \in S /\ \A r \in S : Strs!First(S) <= r
<1>1. \E x \in S : \A y \in S : x <= y
  BY Smallest
<1> QED BY <1>1 DEF Strs!First

LEMMA LeastIs ==
  /\ \A P \in SUBSET Int : \A x \in P : (\A y \in P : x <= y) => Strs!Least(P) = x
  /\ Strs!Least({}) = Strs!NULL
<1>1. ASSUME NEW P \in SUBSET Int, NEW x \in P, \A y \in P : x <= y PROVE Strs!Least(P) = x
  <2>1. \A z \in P : (\A y \in P : z <= y) => z = x
    BY <1>1
  <2>2. Strs!Least(P) = CHOOSE z \in P : \A y \in P : z <= y
    BY <1>1 DEF Strs!Least
  <2> QED BY <1>1, <2>1, <2>2
<1> QED BY <1>1 DEF Strs!Least

LEMMA MostIs ==
  /\ \A P \in SUBSET Int : \A x \in P : (\A y \in P : x >= y) => Strs!Most(P) = x
  /\ Strs!Most({}) = Strs!NULL
<1>1. ASSUME NEW P \in SUBSET Int, NEW x \in P, \A y \in P : x >= y PROVE Strs!Most(P) = x
  <2>1. \A z \in P : (\A y \in P : z >= y) => z = x
    BY <1>1
  <2>2. Strs!Most(P) = CHOOSE z \in P : \A y \in P : z >= y
    BY <1>1 DEF Strs!Most
  <2> QED BY <1>1, <2>1, <2>2
<1> QED BY <1>1 DEF Strs!Most

LEMMA FromIs ==
  ASSUME NEW m \in Mem, NEW p \in Nat
  PROVE  Strs!From(m, p) \in SUBSET Nat /\ \A q : q \in Strs!From(m, p) <=> q \in Addr /\ q >= p
BY AddrIs DEF Strs!From

\* e is where the string at p ends.
EndIs(m, p, e) == p \in Addr /\ e \in Addr /\ p <= e /\ m[e] = 0 /\ \A a \in Addr : p <= a /\ a < e => m[a] # 0

LEMMA EndOnce ==
  ASSUME NEW m \in Mem, NEW p, NEW e, EndIs(m, p, e)
  PROVE  Strs!strlen(m, p) = e - p
<1> DEFINE S == {q \in Strs!From(m, p) : m[q] = 0}
<1>1. p \in Nat /\ e \in Nat
  BY AddrIs DEF EndIs
<1>2. S \in SUBSET Nat /\ e \in S /\ \A a \in S : a \in Addr /\ a >= p /\ m[a] = 0
  BY <1>1, FromIs DEF EndIs
<1>3. Strs!First(S) \in S /\ \A r \in S : Strs!First(S) <= r
  <2> HIDE DEF S
  <2> QED BY <1>2, FirstIs
<1>4. Strs!strlen(m, p) = Strs!First(S) - p
  BY DEF Strs!strlen
<1> HIDE DEF S
<1>5. Strs!First(S) <= e /\ ~(Strs!First(S) < e) /\ Strs!First(S) \in Nat
  BY <1>2, <1>3 DEF EndIs
<1>6. Strs!First(S) = e
  BY <1>1, <1>5
<1> QED BY <1>4, <1>6

LEMMA EndExists ==
  ASSUME NEW m \in Mem, NEW p \in Addr, Strs!Ended(m, p)
  PROVE  EndIs(m, p, p + Strs!strlen(m, p)) /\ Strs!strlen(m, p) \in Nat
<1> DEFINE S == {q \in Addr : q >= p /\ m[q] = 0}
<1>1. S \in SUBSET Nat /\ S # {} /\ p \in Nat
  BY AddrIs DEF Strs!Ended, Addr
<1>2. PICK e \in S : \A r \in S : e <= r
  <2> HIDE DEF S
  <2> QED BY <1>1, Smallest
<1>3. EndIs(m, p, e)
  BY <1>1, <1>2, AddrIs DEF EndIs
<1>4. Strs!strlen(m, p) = e - p /\ e \in Nat /\ p <= e
  BY <1>1, <1>2, <1>3, EndOnce DEF EndIs
<1>5. p + Strs!strlen(m, p) = e /\ Strs!strlen(m, p) \in Nat
  BY <1>1, <1>4
<1> QED BY <1>3, <1>5

\* The string at p as a sequence.
LEMMA PieceIs ==
  ASSUME NEW m, NEW p \in Nat, NEW n \in Nat, \A a \in p .. ((p + n) - 1) : m[a] \in Nat
  PROVE  /\ Strs!Piece(m, p, n) \in Seq(Nat) /\ Len(Strs!Piece(m, p, n)) = n
         /\ \A j \in 1 .. n : Strs!Piece(m, p, n)[j] = m[(p + j) - 1]
<1>1. Strs!Piece(m, p, n) = [j \in 1 .. n |-> m[(p + j) - 1]]
  BY DEF Strs!Piece
<1>2. \A j \in 1 .. n : (p + j) - 1 \in p .. ((p + n) - 1)
  OBVIOUS
<1> QED BY <1>1, <1>2

LEMMA StrIs ==
  ASSUME NEW m \in Mem, NEW p, NEW e, EndIs(m, p, e)
  PROVE  /\ Strs!strlen(m, p) = e - p /\ e - p \in Nat /\ p + (e - p) = e
         /\ Strs!Str(m, p) \in Seq(Nat) /\ Len(Strs!Str(m, p)) = e - p
         /\ \A j \in 1 .. (e - p) : /\ Strs!Str(m, p)[j] = m[(p + j) - 1] /\ (p + j) - 1 \in Addr
                                    /\ m[(p + j) - 1] # 0
<1>1. Strs!strlen(m, p) = e - p
  BY EndOnce
<1>2. p \in Nat /\ e \in Nat /\ p <= e /\ e \in Addr /\ e - p \in Nat
  BY AddrIs DEF EndIs
<1>3. \A a \in p .. ((p + (e - p)) - 1) : a \in Addr /\ m[a] \in Nat /\ m[a] # 0
  BY <1>2, AddrIs DEF EndIs
<1>4. \A j \in 1 .. (e - p) : (p + j) - 1 \in p .. ((p + (e - p)) - 1)
  BY <1>2
<1>5. Strs!Str(m, p) = Strs!Piece(m, p, e - p)
  BY <1>1 DEF Strs!Str
<1>6. /\ Strs!Piece(m, p, e - p) \in Seq(Nat) /\ Len(Strs!Piece(m, p, e - p)) = e - p
      /\ \A j \in 1 .. (e - p) : Strs!Piece(m, p, e - p)[j] = m[(p + j) - 1]
  BY <1>2, <1>3, PieceIs
<1> QED BY <1>1, <1>2, <1>3, <1>4, <1>5, <1>6

-----------------------------------------------------------------------------
(* Looking for a character.                                                *)

LEMMA StrchrIs ==
  ASSUME NEW m \in Mem, NEW p, NEW e, EndIs(m, p, e), NEW c \in Nat
  PROVE  \/ /\ Strs!strchr(m, p, c) \in p .. e /\ m[Strs!strchr(m, p, c)] = c
            /\ \A a \in p .. e : m[a] = c => Strs!strchr(m, p, c) <= a
         \/ Strs!strchr(m, p, c) = Strs!NULL /\ \A a \in p .. e : m[a] # c
<1> DEFINE S == {r \in Strs!From(m, p) : m[r] \in {0, c}}
           q == Strs!First(S)
<1>1. p \in Nat /\ e \in Nat /\ p <= e /\ e \in Addr /\ m[e] = 0
  BY AddrIs DEF EndIs
<1>2. S \in SUBSET Nat /\ e \in S /\ \A a \in S : a \in Addr /\ a >= p /\ m[a] \in {0, c}
  BY <1>1, FromIs
<1>3. q \in S /\ \A r \in S : q <= r
  <2> HIDE DEF S
  <2> QED BY <1>2, FirstIs
<1>4. Strs!strchr(m, p, c) = IF m[q] = c THEN q ELSE Strs!NULL
  BY DEF Strs!strchr
<1>5. \A a \in p .. e : a \in Addr /\ (m[a] = c => a \in S)
  BY <1>1, FromIs, AddrIs
<1> HIDE DEF S, q
<1>6. q \in p .. e
  BY <1>1, <1>2, <1>3
<1>7. CASE m[q] = c
  BY <1>3, <1>4, <1>5, <1>6, <1>7
<1>8. CASE m[q] # c
  <2>1. m[q] = 0 /\ q \in Addr
    BY <1>2, <1>3, <1>8
  <2>2. q = e
    BY <1>1, <1>6, <2>1 DEF EndIs
  <2>3. \A a \in p .. e : m[a] # c
    <3> SUFFICES ASSUME NEW a \in p .. e, m[a] = c PROVE FALSE
      OBVIOUS
    <3>1. e <= a
      BY <1>3, <1>5, <2>2
    <3>2. a = e
      BY <1>1, <3>1
    <3> QED BY <1>8, <2>2, <3>2
  <2> QED BY <1>4, <1>8, <2>3
<1> QED BY <1>7, <1>8

LEMMA StrchrRight ==
  ASSUME NEW m \in Mem, NEW p, NEW e, EndIs(m, p, e), NEW c \in Nat
  PROVE  Strs!strchr(m, p, c) = Strs!Least({a \in p .. (p + Len(Strs!Str(m, p))) : m[a] = c})
<1> DEFINE P == {a \in p .. e : m[a] = c}
<1>1. p .. (p + Len(Strs!Str(m, p))) = p .. e /\ P \in SUBSET Int
  BY StrIs
<1>2. CASE Strs!strchr(m, p, c) \in P /\ \A y \in P : Strs!strchr(m, p, c) <= y
  <2> HIDE DEF P
  <2>1. Strs!Least(P) = Strs!strchr(m, p, c)
    BY <1>1, <1>2, LeastIs
  <2> QED BY <1>1, <2>1 DEF P
<1>3. CASE Strs!strchr(m, p, c) = Strs!NULL /\ P = {}
  BY <1>1, <1>3, LeastIs
<1> QED BY <1>2, <1>3, StrchrIs

LEMMA MemchrIs ==
  ASSUME NEW m \in Mem, NEW p \in Nat, NEW n \in Nat, Strs!Inside(p, n), NEW c \in Nat, NEW x, x = Strs!memchr(m, p, c, n)
  PROVE  \/ /\ x \in Nat /\ p <= x /\ x < p + n /\ m[x] = c
            /\ \A a \in Nat : p <= a /\ a < p + n /\ m[a] = c => x <= a
         \/ x = Strs!NULL /\ \A a \in Nat : p <= a /\ a < p + n => m[a] # c
<1> DEFINE S == {p + n} \cup {r \in Strs!From(m, p) : m[r] = c}
           q == Strs!First(S)
<1>1. S \in SUBSET Nat /\ p + n \in S /\ \A a \in S : a = p + n \/ (a \in Addr /\ a >= p /\ m[a] = c)
  BY FromIs, AddrIs
<1>2. q \in S /\ \A r \in S : q <= r
  <2> HIDE DEF S
  <2> QED BY <1>1, FirstIs
<1>3. x = IF q = p + n THEN Strs!NULL ELSE q
  BY DEF Strs!memchr
<1>4. \A a \in Nat : p <= a /\ a < p + n /\ m[a] = c => a \in S
  BY FromIs, AddrIs DEF Strs!Inside
<1> HIDE DEF S, q
<1>5. q \in Nat /\ p <= q /\ q <= p + n
  BY <1>1, <1>2, AddrIs
<1>6. CASE q = p + n
  <2>1. \A a \in Nat : p <= a /\ a < p + n => m[a] # c
    BY <1>2, <1>4, <1>5, <1>6
  <2> QED BY <1>3, <1>6, <2>1
<1>7. CASE q # p + n
  <2>1. q < p + n /\ m[q] = c
    BY <1>1, <1>2, <1>5, <1>7
  <2>2. \A a \in Nat : p <= a /\ a < p + n /\ m[a] = c => q <= a
    BY <1>2, <1>4
  <2> QED BY <1>3, <1>5, <1>7, <2>1, <2>2
<1> QED BY <1>6, <1>7

LEMMA MemchrRight ==
  ASSUME NEW m \in Mem, NEW p \in Nat, NEW n \in Nat, Strs!Inside(p, n), NEW c \in Nat
  PROVE  Strs!memchr(m, p, c, n) = Strs!Least({a \in p .. (p + n - 1) : m[a] = c})
<1> DEFINE P == {a \in p .. (p + n - 1) : m[a] = c}
           x == Strs!memchr(m, p, c, n)
<1>1. P \in SUBSET Int /\ \A a : a \in P <=> a \in Nat /\ p <= a /\ a < p + n /\ m[a] = c
  OBVIOUS
<1>2. x = Strs!memchr(m, p, c, n)
  OBVIOUS
<1> HIDE DEF P, x
<1>3. \/ /\ x \in Nat /\ p <= x /\ x < p + n /\ m[x] = c
         /\ \A a \in Nat : p <= a /\ a < p + n /\ m[a] = c => x <= a
      \/ x = Strs!NULL /\ \A a \in Nat : p <= a /\ a < p + n => m[a] # c
  BY <1>2, MemchrIs
<1>4. CASE x \in P /\ \A y \in P : x <= y
  BY <1>1, <1>2, <1>4, LeastIs DEF P
<1>5. CASE x = Strs!NULL /\ P = {}
  BY <1>2, <1>5, LeastIs DEF P
<1> QED BY <1>1, <1>3, <1>4, <1>5

LEMMA MemrchrRight ==
  ASSUME NEW m \in Mem, NEW p \in Nat, NEW n \in Nat, NEW c \in Nat
  PROVE  Strs!memrchr(m, p, c, n) = Strs!Most({a \in p .. (p + n - 1) : m[a] = c})
<1> DEFINE P == {a \in p .. (p + n - 1) : m[a] = c}
<1>1. Strs!memrchr(m, p, c, n) = IF P = {} THEN Strs!NULL ELSE CHOOSE r \in P : \A q \in P : q <= r
  BY DEF Strs!memrchr
<1>2. Strs!Most(P) = IF P = {} THEN Strs!NULL ELSE CHOOSE r \in P : \A q \in P : r >= q
  BY DEF Strs!Most
<1>3. \A r \in P : (\A q \in P : q <= r) <=> (\A q \in P : r >= q)
  OBVIOUS
<1> HIDE DEF P
<1>4. (CHOOSE r \in P : \A q \in P : q <= r) = (CHOOSE r \in P : \A q \in P : r >= q)
  BY <1>3
<1> QED BY <1>1, <1>2, <1>4 DEF P

LEMMA Largest ==
  ASSUME NEW S \in SUBSET Nat, S # {}, NEW u \in Nat, \A x \in S : x <= u
  PROVE  \E x \in S : \A y \in S : x >= y
<1> DEFINE T == {u - x : x \in S}
<1>0. \A x \in S : u - x \in Nat
  OBVIOUS
<1>1. T \in SUBSET Nat /\ T # {}
  BY <1>0
<1>2. PICK z \in T : \A y \in T : z <= y
  <2> HIDE DEF T
  <2> QED BY <1>1, Smallest
<1>3. PICK x \in S : z = u - x
  BY <1>2
<1>4. ASSUME NEW y \in S PROVE x >= y
  <2>1. u - y \in T
    OBVIOUS
  <2>2. z <= u - y
    BY <1>2, <2>1
  <2> QED BY <1>3, <2>2
<1> QED BY <1>3, <1>4

\* The recursion of strrchr, and what it comes to.
IsLast(f, m, c) ==
  f = [q \in DOMAIN m |->
        IF Strs!strchr(m, q, c) = Strs!NULL THEN Strs!NULL
        ELSE IF f[Strs!strchr(m, q, c) + 1] = Strs!NULL THEN Strs!strchr(m, q, c)
        ELSE f[Strs!strchr(m, q, c) + 1]]
Hits(m, p, c) == {a \in p .. (p + Strs!strlen(m, p)) : m[a] = c}

\* A memory that ends with a 0, as the runs have it: every string in it ends.
Closed(m) == m \in Mem /\ m[MemSize - 1] = 0

LEMMA ClosedEnds ==
  ASSUME NEW m, Closed(m), NEW p \in Addr
  PROVE  Strs!Ended(m, p) /\ EndIs(m, p, p + Strs!strlen(m, p)) /\ Strs!strlen(m, p) \in Nat
<1>1. m \in Mem /\ p \in Nat /\ MemSize - 1 \in Addr /\ MemSize - 1 >= p /\ m[MemSize - 1] = 0
  BY AddrIs DEF Closed
<1>2. Strs!Ended(m, p)
  BY <1>1 DEF Strs!Ended, Addr
<1> QED BY <1>1, <1>2, EndExists

\* Behind a hit come the other hits.
LEMMA HitsBehind ==
  ASSUME NEW m, Closed(m), NEW c \in Nat, c # 0, NEW p \in Addr, Strs!strchr(m, p, c) # Strs!NULL
  PROVE  /\ Strs!strchr(m, p, c) \in Nat /\ Strs!strchr(m, p, c) + 1 \in Addr
         /\ Strs!strchr(m, p, c) >= p
         /\ Strs!strchr(m, p, c) \in Hits(m, p, c) /\ Strs!strchr(m, p, c) # Strs!NULL
         /\ \A a : a \in Hits(m, p, c) <=> a = Strs!strchr(m, p, c) \/ a \in Hits(m, Strs!strchr(m, p, c) + 1, c)
         /\ \A a \in Hits(m, Strs!strchr(m, p, c) + 1, c) : a \in Nat /\ a > Strs!strchr(m, p, c)
<1> DEFINE h == Strs!strchr(m, p, c)
           e == p + Strs!strlen(m, p)
<1>1. m \in Mem /\ EndIs(m, p, e)
  BY ClosedEnds DEF Closed
<1>2. h \in p .. e /\ m[h] = c /\ \A a \in p .. e : m[a] = c => h <= a
  BY <1>1, StrchrIs
<1>3. p \in Nat /\ e \in Nat /\ e \in Addr /\ m[e] = 0 /\ p <= e
  BY <1>1, AddrIs DEF EndIs
<1>4. Hits(m, p, c) = {a \in p .. e : m[a] = c}
  BY DEF Hits
<1> HIDE DEF h, e
<1>5. h # e /\ h \in Nat /\ h + 1 <= e /\ h + 1 \in Addr /\ h + 1 >= p /\ h + 1 \in Nat
  BY <1>2, <1>3, AddrIs
<1>6. EndIs(m, h + 1, e)
  BY <1>1, <1>3, <1>5, AddrIs DEF EndIs
<1>7. Strs!strlen(m, h + 1) = e - (h + 1)
  BY <1>1, <1>6, EndOnce
<1>8. (h + 1) + (e - (h + 1)) = e
  BY <1>3, <1>5
<1>9. Hits(m, h + 1, c) = {a \in (h + 1) .. e : m[a] = c}
  BY <1>7, <1>8 DEF Hits
<1>10. h \in Hits(m, p, c) /\ h # Strs!NULL
  BY <1>2, <1>4, <1>5 DEF Strs!NULL
<1>11. \A a : a \in Hits(m, p, c) <=> a = h \/ a \in Hits(m, h + 1, c)
  BY <1>2, <1>3, <1>4, <1>5, <1>9
<1>12. \A a \in Hits(m, h + 1, c) : a \in Nat /\ a > h
  BY <1>5, <1>3, <1>9
<1>13. h >= p
  BY <1>2, <1>3
<1> QED BY <1>5, <1>10, <1>11, <1>12, <1>13, Zenon DEF h

\* The last hit is the first one or the last one behind it.
LEMMA MostBehind ==
  ASSUME NEW m, Closed(m), NEW c \in Nat, c # 0, NEW p \in Addr
  PROVE  /\ Strs!strchr(m, p, c) = Strs!NULL => Strs!Most(Hits(m, p, c)) = Strs!NULL
         /\ Strs!strchr(m, p, c) # Strs!NULL =>
              Strs!Most(Hits(m, p, c)) =
                IF Strs!Most(Hits(m, Strs!strchr(m, p, c) + 1, c)) = Strs!NULL THEN Strs!strchr(m, p, c)
                ELSE Strs!Most(Hits(m, Strs!strchr(m, p, c) + 1, c))
<1> DEFINE h == Strs!strchr(m, p, c)
           H == Hits(m, p, c)
           T == Hits(m, h + 1, c)
<1>1. CASE h = Strs!NULL
  <2>1. m \in Mem /\ EndIs(m, p, p + Strs!strlen(m, p))
    BY ClosedEnds DEF Closed
  <2>2. p \in Nat /\ p + Strs!strlen(m, p) \in Nat
    BY <2>1, AddrIs DEF EndIs
  <2>3. \A a \in p .. (p + Strs!strlen(m, p)) : m[a] # c
    BY <1>1, <2>1, <2>2, StrchrIs DEF Strs!NULL
  <2>4. H = {}
    BY <2>3 DEF Hits
  <2> QED BY <1>1, <2>4, MostIs
<1>2. CASE h # Strs!NULL
  <2>1. /\ h \in Nat /\ h + 1 \in Addr /\ h \in H
        /\ \A a : a \in H <=> a = h \/ a \in T
        /\ \A a \in T : a \in Nat /\ a > h
    BY <1>2, HitsBehind
  <2>2. T \in SUBSET Nat /\ H \in SUBSET Int /\ T \in SUBSET Int
    BY <2>1
  <2> HIDE DEF H, T
  <2>3. CASE T = {}
    <3>1. Strs!Most(T) = Strs!NULL
      BY <2>3, MostIs
    <3>2. \A a \in H : h >= a
      BY <2>1, <2>3
    <3>3. Strs!Most(H) = h
      BY <2>1, <2>2, <3>2, MostIs
    <3> QED BY <1>2, <3>1, <3>3 DEF H, T
  <2>4. CASE T # {}
    <3>1. \A x \in T : x <= MemSize
      <4>1. EndIs(m, h + 1, (h + 1) + Strs!strlen(m, h + 1))
        BY <2>1, ClosedEnds
      <4>2. (h + 1) + Strs!strlen(m, h + 1) \in Addr /\ \A x \in T : x \in (h + 1) .. ((h + 1) + Strs!strlen(m, h + 1))
        BY <4>1 DEF EndIs, T, Hits
      <4> QED BY <2>1, <4>2, AddrIs
    <3>2. PICK x \in T : \A y \in T : x >= y
      BY <2>2, <2>4, <3>1, Largest, AddrIs
    <3>3. Strs!Most(T) = x
      BY <2>2, <3>2, MostIs
    <3>4. x \in H /\ \A y \in H : x >= y
      BY <2>1, <3>2
    <3>5. Strs!Most(H) = x
      BY <2>2, <3>4, MostIs
    <3>6. x # Strs!NULL
      BY <2>1 DEF Strs!NULL
    <3> QED BY <1>2, <3>3, <3>5, <3>6 DEF H, T
  <2> QED BY <2>3, <2>4
<1> QED BY <1>1, <1>2

LEMMA LastExists ==
  ASSUME NEW m, Closed(m), NEW c \in Nat, c # 0
  PROVE  \E f : IsLast(f, m, c)
<1> DEFINE f == [q \in DOMAIN m |-> Strs!Most(Hits(m, q, c))]
<1>1. DOMAIN m = Addr
  BY AddrIs DEF Closed
<1>2. \A q \in Addr : f[q] = Strs!Most(Hits(m, q, c))
  BY <1>1
<1>3. ASSUME NEW q \in Addr
      PROVE  f[q] = IF Strs!strchr(m, q, c) = Strs!NULL THEN Strs!NULL
                    ELSE IF f[Strs!strchr(m, q, c) + 1] = Strs!NULL THEN Strs!strchr(m, q, c)
                    ELSE f[Strs!strchr(m, q, c) + 1]
  <2> HIDE DEF f
  <2>1. CASE Strs!strchr(m, q, c) = Strs!NULL
    BY <1>2, <2>1, MostBehind
  <2>2. CASE Strs!strchr(m, q, c) # Strs!NULL
    <3>1. Strs!strchr(m, q, c) + 1 \in Addr
      BY <2>2, HitsBehind
    <3>2. f[Strs!strchr(m, q, c) + 1] = Strs!Most(Hits(m, Strs!strchr(m, q, c) + 1, c))
      BY <1>2, <3>1
    <3> QED BY <1>2, <2>2, <3>2, MostBehind
  <2> QED BY <2>1, <2>2
<1>4. f = [q \in DOMAIN m |-> f[q]]
  OBVIOUS
<1> HIDE DEF f
<1>5. IsLast(f, m, c)
  BY <1>1, <1>3, <1>4 DEF IsLast
<1> QED BY <1>5

LEMMA LastIsMost ==
  ASSUME NEW m, Closed(m), NEW c \in Nat, c # 0, NEW f, IsLast(f, m, c), NEW p \in Addr
  PROVE  f[p] = Strs!Most(Hits(m, p, c))
<1> DEFINE Bad == {q \in Addr : f[q] # Strs!Most(Hits(m, q, c))}
<1>1. ASSUME Bad # {} PROVE FALSE
  <2>1. PICK x \in Bad : \A y \in Bad : x >= y
    <3>1. Bad \in SUBSET Nat /\ \A x \in Bad : x <= MemSize
      BY AddrIs
    <3>2. MemSize \in Nat
      BY AddrIs
    <3> HIDE DEF Bad
    <3> QED BY <1>1, <3>1, <3>2, Largest
  <2>2. x \in Addr /\ f[x] # Strs!Most(Hits(m, x, c)) /\ x \in DOMAIN m /\ x \in Nat
    BY <2>1, AddrIs DEF Closed
  <2>3. f[x] = IF Strs!strchr(m, x, c) = Strs!NULL THEN Strs!NULL
               ELSE IF f[Strs!strchr(m, x, c) + 1] = Strs!NULL THEN Strs!strchr(m, x, c)
               ELSE f[Strs!strchr(m, x, c) + 1]
    BY <2>2 DEF IsLast
  <2>4. CASE Strs!strchr(m, x, c) = Strs!NULL
    BY <2>2, <2>3, <2>4, MostBehind
  <2>5. CASE Strs!strchr(m, x, c) # Strs!NULL
    <3>1. Strs!strchr(m, x, c) + 1 \in Addr /\ Strs!strchr(m, x, c) \in Nat /\ Strs!strchr(m, x, c) >= x
      BY <2>2, <2>5, HitsBehind
    <3>2. ~(x >= Strs!strchr(m, x, c) + 1)
      BY <2>2, <3>1
    <3>3. f[Strs!strchr(m, x, c) + 1] = Strs!Most(Hits(m, Strs!strchr(m, x, c) + 1, c))
      BY <2>1, <3>1, <3>2
    <3> QED BY <2>2, <2>3, <2>5, <3>3, MostBehind
  <2> QED BY <2>4, <2>5
<1> QED BY <1>1

LEMMA StrrchrRight ==
  ASSUME NEW m, Closed(m), NEW p \in Addr, NEW c \in Nat
  PROVE  Strs!strrchr(m, p, c) = Strs!Most({a \in p .. (p + Len(Strs!Str(m, p))) : m[a] = c})
<1>1. m \in Mem /\ EndIs(m, p, p + Strs!strlen(m, p)) /\ Strs!strlen(m, p) \in Nat /\ p \in Nat
  BY ClosedEnds, AddrIs DEF Closed
<1>2. (p + Strs!strlen(m, p)) - p = Strs!strlen(m, p)
  BY <1>1
<1>3. Len(Strs!Str(m, p)) = Strs!strlen(m, p)
  BY <1>1, <1>2, StrIs
<1>4. {a \in p .. (p + Len(Strs!Str(m, p))) : m[a] = c} = Hits(m, p, c)
  BY <1>3 DEF Hits
<1>5. CASE c = 0
  <2> DEFINE e == p + Strs!strlen(m, p)
  <2>1. Strs!strrchr(m, p, c) = Strs!strchr(m, p, c)
    BY <1>5 DEF Strs!strrchr
  <2>2. EndIs(m, p, e) /\ e \in Nat /\ p <= e /\ m[e] = 0 /\ \A a \in p .. e : a # e => m[a] # 0
    BY <1>1, AddrIs DEF EndIs
  <2>3. Hits(m, p, c) = {a \in p .. e : m[a] = c}
    BY DEF Hits
  <2> HIDE DEF e
  <2>4. e \in p .. e /\ e \in Hits(m, p, c) /\ Hits(m, p, c) \in SUBSET Int /\ \A a \in Hits(m, p, c) : e >= a
    BY <1>1, <1>5, <2>2, <2>3
  <2>5. Strs!Most(Hits(m, p, c)) = e
    BY <2>4, MostIs
  <2>6. Strs!strchr(m, p, c) = e
    BY <1>1, <1>5, <2>2, <2>4, StrchrIs
  <2> QED BY <1>4, <2>1, <2>5, <2>6
<1>6. CASE c # 0
  <2> DEFINE lst == CHOOSE f : IsLast(f, m, c)
  <2>1. Strs!strrchr(m, p, c) = lst[p]
    BY <1>6, Zenon DEF Strs!strrchr, IsLast
  <2>2. IsLast(lst, m, c)
    BY <1>6, LastExists, Zenon
  <2> HIDE DEF lst
  <2>3. lst[p] = Strs!Most(Hits(m, p, c))
    BY <1>6, <2>2, LastIsMost
  <2> QED BY <1>4, <2>1, <2>3, Zenon
<1> QED BY <1>5, <1>6

-----------------------------------------------------------------------------
(* Spans.                                                                  *)

\* The characters of the string at q.
SetOf(m, q) == {m[a] : a \in q .. (q + Strs!strlen(m, q) - 1)}

LEMMA SetIs ==
  ASSUME NEW m, Closed(m), NEW q \in Addr
  PROVE  /\ \A x : Strs!Among(m, x, q) <=> x \in SetOf(m, q)
         /\ 0 \notin SetOf(m, q)
<1> DEFINE e == q + Strs!strlen(m, q)
<1>1. EndIs(m, q, e) /\ q \in Nat /\ e \in Nat /\ e \in Addr
  BY ClosedEnds, AddrIs DEF EndIs
<1>0. Strs!strlen(m, q) \in Nat
  BY ClosedEnds
<1>10. q + Strs!strlen(m, q) - 1 = e - 1
  BY <1>1, <1>0
<1>2. SetOf(m, q) = {m[a] : a \in q .. (e - 1)}
  BY <1>10, Zenon DEF SetOf
<1>3. \A x : Strs!Among(m, x, q) <=> \E a \in q .. (e - 1) : m[a] = x
  BY <1>10, Zenon DEF Strs!Among
<1> HIDE DEF e
<1>4. \A a \in q .. (e - 1) : a \in Addr /\ q <= a /\ a < e
  BY <1>1, AddrIs
<1>5. \A a \in q .. (e - 1) : m[a] # 0
  BY <1>1, <1>4 DEF EndIs
<1> QED BY <1>2, <1>3, <1>5

\* A loop over the string at p that stops at the characters in stop, and the
\* numbers of characters that it might go over.
Stops(m, p, stop) == {r \in Strs!From(m, p) : m[r] = 0 \/ m[r] \in stop}
Spans(t, stop) == {k \in 0 .. Len(t) : \A ix \in 1 .. k : t[ix] \notin stop}

LEMMA SpanIs ==
  ASSUME NEW m \in Mem, NEW p, NEW e, EndIs(m, p, e), NEW stop
  PROVE  /\ Strs!First(Stops(m, p, stop)) - p = Strs!Most(Spans(Strs!Str(m, p), stop))
         /\ Strs!First(Stops(m, p, stop)) \in p .. e
         /\ m[Strs!First(Stops(m, p, stop))] = 0 \/ m[Strs!First(Stops(m, p, stop))] \in stop
         /\ \A r \in p .. e : m[r] \in stop => Strs!First(Stops(m, p, stop)) <= r
<1> DEFINE S == Stops(m, p, stop)
           x == Strs!First(S)
           sp == Strs!Str(m, p)
           P == {k \in 0 .. (e - p) : \A ix \in 1 .. k : sp[ix] \notin stop}
<1>1. p \in Nat /\ e \in Nat /\ p <= e /\ e \in Addr /\ m[e] = 0
  BY AddrIs DEF EndIs
<1>2. S \in SUBSET Nat /\ e \in S /\ \A a \in S : a \in Addr /\ a >= p /\ (m[a] = 0 \/ m[a] \in stop)
  BY <1>1, FromIs DEF Stops
<1>3. x \in S /\ \A r \in S : x <= r
  BY <1>2, FirstIs
<1>4. /\ Len(sp) = e - p
      /\ \A j \in 1 .. (e - p) : sp[j] = m[(p + j) - 1] /\ (p + j) - 1 \in Addr /\ m[(p + j) - 1] # 0
  BY StrIs
<1>5. \A r \in p .. e : r \in Addr /\ (m[r] \in stop => r \in S)
  BY <1>1, FromIs, AddrIs DEF Stops
<1> HIDE DEF S, x, sp
<1>6. x \in p .. e /\ x \in Nat
  BY <1>1, <1>2, <1>3
<1>7. x - p \in 0 .. (e - p) /\ x - p \in Nat
  BY <1>1, <1>6
<1>8. ASSUME NEW ix \in 1 .. (x - p) PROVE sp[ix] \notin stop
  <2>1. ix \in 1 .. (e - p) /\ (p + ix) - 1 \in p .. e /\ (p + ix) - 1 < x
    BY <1>1, <1>6
  <2>2. (p + ix) - 1 \notin S
    BY <1>3, <1>6, <2>1
  <2> QED BY <1>4, <1>5, <2>1, <2>2
<1>9. x - p \in P
  BY <1>7, <1>8
<1>10. ASSUME NEW k \in P PROVE x - p >= k
  <2>1. k \in 0 .. (e - p) /\ \A ix \in 1 .. k : sp[ix] \notin stop
    OBVIOUS
  <2>2. SUFFICES ASSUME x - p < k PROVE FALSE
    BY <1>7, <2>1
  <2>3. (x - p) + 1 \in 1 .. k /\ (x - p) + 1 \in 1 .. (e - p) /\ (p + ((x - p) + 1)) - 1 = x
    BY <1>1, <1>6, <2>1, <2>2
  <2>4. sp[(x - p) + 1] = m[x] /\ m[x] # 0
    BY <1>4, <2>3
  <2> QED BY <1>2, <1>3, <2>1, <2>3, <2>4
<1>11. P \in SUBSET Int
  OBVIOUS
<1>12. Strs!Most(P) = x - p
  <2> HIDE DEF P
  <2> QED BY <1>9, <1>10, <1>11, MostIs
<1>13. P = Spans(sp, stop)
  BY <1>4 DEF Spans
<1>14. x - p = Strs!Most(Spans(sp, stop))
  BY <1>12, <1>13, Zenon
<1>15. m[x] = 0 \/ m[x] \in stop
  BY <1>2, <1>3
<1>16. \A r \in p .. e : m[r] \in stop => x <= r
  BY <1>3, <1>5
<1> QED BY <1>6, <1>14, <1>15, <1>16, Zenon DEF x, sp, S

LEMMA StrspnRight ==
  ASSUME NEW m, Closed(m), NEW p \in Addr, NEW q \in Addr
  PROVE  Strs!strspn(m, p, q) = Strs!Most({k \in 0 .. Len(Strs!Str(m, p)) : \A ix \in 1 .. k : Strs!Str(m, p)[ix] \in SetOf(m, q)})
<1> DEFINE S == {r \in Strs!From(m, p) : m[r] = 0 \/ ~Strs!Among(m, m[r], q)}
           stop == Nat \ SetOf(m, q)
           sp == Strs!Str(m, p)
<1> DEFINE e == p + Strs!strlen(m, p)
<1>1. m \in Mem /\ EndIs(m, p, e) /\ p \in Nat
  BY ClosedEnds, AddrIs DEF Closed
<1> HIDE DEF e
<1>2. \A r \in Strs!From(m, p) : m[r] \in Nat
  BY <1>1, FromIs, AddrIs
<1>3. \A r \in Strs!From(m, p) : ~Strs!Among(m, m[r], q) <=> m[r] \in stop
  BY <1>2, SetIs
<1>4. S = Stops(m, p, stop)
  BY <1>3, Zenon DEF Stops
<1>5. Strs!strspn(m, p, q) = Strs!First(S) - p
  BY DEF Strs!strspn
<1>6. Len(sp) \in Nat /\ \A ix \in 1 .. Len(sp) : sp[ix] \in Nat
  BY <1>1, StrIs
<1> HIDE DEF S, stop, sp
<1>7. Strs!First(S) - p = Strs!Most(Spans(sp, stop))
  BY <1>1, <1>4, SpanIs DEF sp
<1>8. \A k \in 0 .. Len(sp) : \A ix \in 1 .. k : sp[ix] \notin stop <=> sp[ix] \in SetOf(m, q)
  <2>1. \A k \in 0 .. Len(sp) : \A ix \in 1 .. k : ix \in 1 .. Len(sp)
    BY <1>6
  <2> QED BY <1>6, <2>1 DEF stop
<1>9. Spans(sp, stop) = {k \in 0 .. Len(sp) : \A ix \in 1 .. k : sp[ix] \in SetOf(m, q)}
  BY <1>8 DEF Spans
<1> QED BY <1>5, <1>7, <1>9, Zenon DEF sp

LEMMA StrcspnRight ==
  ASSUME NEW m, Closed(m), NEW p \in Addr, NEW q \in Addr
  PROVE  Strs!strcspn(m, p, q) = Strs!Most({k \in 0 .. Len(Strs!Str(m, p)) : \A ix \in 1 .. k : Strs!Str(m, p)[ix] \notin SetOf(m, q)})
<1> DEFINE S == {r \in Strs!From(m, p) : m[r] = 0 \/ Strs!Among(m, m[r], q)}
           e == p + Strs!strlen(m, p)
<1>1. m \in Mem /\ EndIs(m, p, e)
  BY ClosedEnds DEF Closed
<1>2. \A r \in Strs!From(m, p) : Strs!Among(m, m[r], q) <=> m[r] \in SetOf(m, q)
  BY SetIs
<1>3. S = Stops(m, p, SetOf(m, q))
  BY <1>2, Zenon DEF Stops
<1>4. Strs!strcspn(m, p, q) = Strs!First(S) - p
  BY DEF Strs!strcspn
<1> HIDE DEF S, e
<1>5. Strs!First(S) - p = Strs!Most(Spans(Strs!Str(m, p), SetOf(m, q)))
  BY <1>1, <1>3, SpanIs
<1> QED BY <1>4, <1>5, Zenon DEF Spans

LEMMA StrpbrkRight ==
  ASSUME NEW m, Closed(m), NEW p \in Addr, NEW q \in Addr
  PROVE  Strs!strpbrk(m, p, q) = Strs!Least({a \in p .. (p + Len(Strs!Str(m, p)) - 1) : m[a] \in SetOf(m, q)})
<1> DEFINE S == {r \in Strs!From(m, p) : m[r] = 0 \/ Strs!Among(m, m[r], q)}
           x == Strs!First(S)
           e == p + Strs!strlen(m, p)
           P == {a \in p .. (e - 1) : m[a] \in SetOf(m, q)}
<1>1. m \in Mem /\ EndIs(m, p, e) /\ p \in Nat /\ Strs!strlen(m, p) \in Nat
  BY ClosedEnds, AddrIs DEF Closed
<1>2. \A r \in Strs!From(m, p) : Strs!Among(m, m[r], q) <=> m[r] \in SetOf(m, q)
  BY SetIs
<1>3. S = Stops(m, p, SetOf(m, q))
  BY <1>2, Zenon DEF Stops
<1>4. Strs!strpbrk(m, p, q) = IF Strs!Among(m, m[x], q) THEN x ELSE Strs!NULL
  BY DEF Strs!strpbrk
<1>5. /\ x \in p .. e /\ (m[x] = 0 \/ m[x] \in SetOf(m, q))
      /\ \A r \in p .. e : m[r] \in SetOf(m, q) => x <= r
  <2> HIDE DEF S, e
  <2> QED BY <1>1, <1>3, SpanIs
<1>6. Strs!Among(m, m[x], q) <=> m[x] \in SetOf(m, q)
  BY SetIs
<1>7. e - p = Strs!strlen(m, p)
  BY <1>1
<1>8. Len(Strs!Str(m, p)) = Strs!strlen(m, p)
  BY <1>1, <1>7, StrIs
<1>9. P = {a \in p .. (p + Len(Strs!Str(m, p)) - 1) : m[a] \in SetOf(m, q)}
  <2>1. p + Len(Strs!Str(m, p)) - 1 = e - 1
    BY <1>1, <1>8
  <2> QED BY <2>1, Zenon
<1>10. e \in Nat /\ e \in Addr /\ m[e] = 0 /\ \A a \in Addr : p <= a /\ a < e => m[a] # 0
  BY <1>1, AddrIs DEF EndIs
<1>11. P \in SUBSET Int /\ \A a \in P : a \in p .. e /\ a < e /\ m[a] \in SetOf(m, q)
  BY <1>1, <1>10
<1>12. Strs!Least(P) = Strs!strpbrk(m, p, q)
  <2>1. CASE m[x] \in SetOf(m, q)
    <3>1. x # e
      BY <1>10, <2>1, SetIs
    <3>2. x \in p .. (e - 1)
      BY <1>5, <1>10, <1>1, <3>1
    <3>3. x \in P /\ \A a \in P : x <= a
      BY <1>5, <1>11, <2>1, <3>2
    <3> HIDE DEF P, x
    <3> QED BY <1>4, <1>6, <1>11, <2>1, <3>3, LeastIs
  <2>2. CASE m[x] \notin SetOf(m, q)
    <3> HIDE DEF x, e
    <3>1. x = e
      <4>1. m[x] = 0 /\ x \in Addr /\ p <= x /\ x <= e
        BY <1>1, <1>5, <1>10, <2>2, AddrIs
      <4> QED BY <1>10, <4>1, AddrIs
    <3>2. P = {}
      <4> SUFFICES ASSUME NEW a \in P PROVE FALSE
        OBVIOUS
      <4> HIDE DEF P
      <4>1. a \in p .. e /\ a < e /\ x <= a
        BY <1>5, <1>11
      <4> QED BY <1>10, <3>1, <4>1
    <3> HIDE DEF P
    <3> QED BY <1>4, <1>6, <2>2, <3>2, LeastIs
  <2> QED BY <2>1, <2>2
<1> QED BY <1>9, <1>12, Zenon

-----------------------------------------------------------------------------
(* Looking for a string.                                                   *)

\* The string at q stands at a, if the string at a starts with it.
LEMMA StartsIs ==
  ASSUME NEW m \in Mem, NEW a, NEW e, EndIs(m, a, e), NEW q, NEW f, EndIs(m, q, f)
  PROVE  /\ Strs!Starts(Strs!Str(m, a), Strs!Str(m, q)) <=> Strs!Stands(m, a, q, f - q)
         /\ Strs!Stands(m, a, q, f - q) => f - q <= e - a
<1> DEFINE t == Strs!Str(m, a)
           u == Strs!Str(m, q)
           n == f - q
           k == e - a
<1>1. /\ t \in Seq(Nat) /\ Len(t) = k /\ k \in Nat /\ \A j \in 1 .. k : t[j] = m[(a + j) - 1]
      /\ u \in Seq(Nat) /\ Len(u) = n /\ n \in Nat
      /\ \A j \in 1 .. n : u[j] = m[(q + j) - 1] /\ m[(q + j) - 1] # 0
  BY StrIs
<1>2. a \in Nat /\ e \in Nat /\ q \in Nat /\ f \in Nat /\ a <= e /\ m[e] = 0
  BY AddrIs DEF EndIs
<1>3. Strs!Stands(m, a, q, n) <=> \A ix \in 0 .. (n - 1) : m[a + ix] = m[q + ix]
  BY DEF Strs!Stands
<1>4. Strs!Starts(t, u) <=> n <= k /\ SubSeq(t, 1, n) = u
  BY <1>1 DEF Strs!Starts
<1>5. a + k = e
  BY <1>2
<1> HIDE DEF t, u, n, k
<1>6. ASSUME Strs!Stands(m, a, q, n) PROVE n <= k
  <2> SUFFICES ASSUME k < n PROVE FALSE
    BY <1>1
  <2>1. k \in 0 .. (n - 1) /\ k + 1 \in 1 .. n /\ (q + (k + 1)) - 1 = q + k
    BY <1>1, <1>2
  <2>2. m[a + k] = m[q + k]
    BY <1>3, <1>6, <2>1
  <2>3. m[q + k] # 0
    BY <1>1, <2>1
  <2> QED BY <1>2, <1>5, <2>2, <2>3
<1>7. ASSUME n <= k
      PROVE  SubSeq(t, 1, n) \in Seq(Nat) /\ Len(SubSeq(t, 1, n)) = n /\ \A j \in 1 .. n : SubSeq(t, 1, n)[j] = t[j]
  BY <1>1, <1>7
<1>8. ASSUME Strs!Stands(m, a, q, n) PROVE Strs!Starts(t, u)
  <2>1. n <= k
    BY <1>6, <1>8
  <2>2. ASSUME NEW j \in 1 .. n PROVE SubSeq(t, 1, n)[j] = u[j]
    <3>1. j \in 1 .. k /\ j - 1 \in 0 .. (n - 1) /\ a + (j - 1) = (a + j) - 1 /\ q + (j - 1) = (q + j) - 1
      BY <1>1, <1>2, <2>1
    <3>2. m[a + (j - 1)] = m[q + (j - 1)]
      BY <1>3, <1>8, <3>1
    <3>3. t[j] = m[(a + j) - 1] /\ u[j] = m[(q + j) - 1]
      BY <1>1, <3>1
    <3> QED BY <1>7, <2>1, <3>1, <3>2, <3>3
  <2>3. SubSeq(t, 1, n) = u
    BY <1>1, <1>7, <2>1, <2>2, SeqEqual
  <2> QED BY <1>4, <2>1, <2>3
<1>9. ASSUME Strs!Starts(t, u) PROVE Strs!Stands(m, a, q, n)
  <2>1. n <= k /\ SubSeq(t, 1, n) = u
    BY <1>4, <1>9
  <2>2. ASSUME NEW ix \in 0 .. (n - 1) PROVE m[a + ix] = m[q + ix]
    <3>1. ix + 1 \in 1 .. n /\ ix + 1 \in 1 .. k /\ (a + (ix + 1)) - 1 = a + ix /\ (q + (ix + 1)) - 1 = q + ix
      BY <1>1, <1>2, <2>1
    <3>2. u[ix + 1] = t[ix + 1]
      BY <1>7, <2>1, <3>1
    <3>3. t[ix + 1] = m[(a + (ix + 1)) - 1] /\ u[ix + 1] = m[(q + (ix + 1)) - 1]
      BY <1>1, <3>1
    <3> QED BY <3>1, <3>2, <3>3
  <2> QED BY <1>3, <2>2
<1> QED BY <1>6, <1>8, <1>9, Zenon DEF t, u, n, k

\* The places where the string at q stands in the string at p.
Places(m, p, q) == {a \in p .. (p + Len(Strs!Str(m, p))) : Strs!Starts(Strs!Str(m, a), Strs!Str(m, q))}

LEMMA PlacesAre ==
  ASSUME NEW m, Closed(m), NEW p \in Addr, NEW q \in Addr
  PROVE  /\ Places(m, p, q) \in SUBSET Int
         /\ \A a : a \in Places(m, p, q) <=>
                     a \in p .. (p + Strs!strlen(m, p)) /\ Strs!Stands(m, a, q, Strs!strlen(m, q))
         /\ m[q] = 0 <=> Strs!strlen(m, q) = 0
         /\ m[q] = 0 => \A a : Strs!Stands(m, a, q, Strs!strlen(m, q))
         /\ m[q] # 0 => \A a \in Addr : Strs!Stands(m, a, q, Strs!strlen(m, q)) => m[a] = m[q]
<1> DEFINE e == p + Strs!strlen(m, p)
           f == q + Strs!strlen(m, q)
           n == Strs!strlen(m, q)
<1>1. /\ m \in Mem /\ EndIs(m, p, e) /\ EndIs(m, q, f) /\ p \in Nat /\ q \in Nat /\ n \in Nat
      /\ e \in Nat /\ e \in Addr /\ f \in Addr /\ e - p = Strs!strlen(m, p) /\ f - q = n
  <2>1. /\ m \in Mem /\ EndIs(m, p, e) /\ EndIs(m, q, f) /\ Strs!strlen(m, p) \in Nat /\ n \in Nat
    BY ClosedEnds DEF Closed
  <2>2. p \in Nat /\ q \in Nat
    BY AddrIs
  <2>3. e \in Addr /\ f \in Addr /\ e \in Nat
    BY <2>1, AddrIs DEF EndIs
  <2>4. e - p = Strs!strlen(m, p) /\ f - q = n
    BY <2>1, <2>2
  <2> QED BY <2>1, <2>2, <2>3, <2>4
<1>2. Len(Strs!Str(m, p)) = Strs!strlen(m, p)
  BY <1>1, StrIs
<1>3. Places(m, p, q) = {a \in p .. e : Strs!Starts(Strs!Str(m, a), Strs!Str(m, q))}
  BY <1>2 DEF Places
<1>4. f = q + n
  OBVIOUS
<1>13. e = p + Strs!strlen(m, p)
  OBVIOUS
<1> HIDE DEF e, f, n
<1>5. ASSUME NEW a \in p .. e
      PROVE  Strs!Starts(Strs!Str(m, a), Strs!Str(m, q)) <=> Strs!Stands(m, a, q, n)
  <2>1. a \in Addr
    BY <1>1, AddrIs
  <2>2. EndIs(m, a, e)
    BY <1>1, <2>1, AddrIs DEF EndIs
  <2>3. Strs!Starts(Strs!Str(m, a), Strs!Str(m, q)) <=> Strs!Stands(m, a, q, f - q)
    BY <1>1, <2>2, StartsIs
  <2> QED BY <1>1, <2>3
<1>6. \A a : a \in Places(m, p, q) <=> a \in p .. e /\ Strs!Stands(m, a, q, n)
  BY <1>3, <1>5, Zenon
<1>7. Places(m, p, q) \in SUBSET Int
  BY <1>1, <1>3
<1>8. m[q] = 0 <=> n = 0
  BY <1>1, <1>4 DEF EndIs
<1>9. ASSUME m[q] = 0, NEW a PROVE Strs!Stands(m, a, q, n)
  BY <1>8, <1>9 DEF Strs!Stands
<1>10. ASSUME m[q] # 0, NEW a \in Addr, Strs!Stands(m, a, q, n) PROVE m[a] = m[q]
  <2>1. 0 \in 0 .. (n - 1) /\ a + 0 = a /\ q + 0 = q
    BY <1>1, <1>8, <1>10, AddrIs
  <2>2. m[a + 0] = m[q + 0]
    BY <1>10, <2>1 DEF Strs!Stands
  <2> QED BY <2>1, <2>2
<1> QED BY <1>6, <1>7, <1>8, <1>9, <1>10, <1>13, Zenon DEF n

LEMMA StrstrRight ==
  ASSUME NEW m, Closed(m), NEW p \in Addr, NEW q \in Addr
  PROVE  Strs!strstr(m, p, q) = Strs!Least(Places(m, p, q))
<1> DEFINE e == p + Strs!strlen(m, p)
           n == Strs!strlen(m, q)
           S == {e} \cup {r \in p .. (e - 1) : Strs!Stands(m, r, q, n)}
           x == Strs!First(S)
           H == Places(m, p, q)
<1>1. m \in Mem /\ p \in Nat /\ e \in Nat /\ e \in Addr /\ p <= e /\ m[e] = 0 /\ \A a \in Addr : p <= a /\ a < e => m[a] # 0
  BY ClosedEnds, AddrIs DEF Closed, EndIs
<1>2. Strs!strstr(m, p, q) = IF m[q] = 0 THEN p ELSE IF m[x] = 0 THEN Strs!NULL ELSE x
  BY DEF Strs!strstr
<1>3. H \in SUBSET Int /\ \A a : a \in H <=> a \in p .. e /\ Strs!Stands(m, a, q, n)
  BY PlacesAre
<1>4. CASE m[q] = 0
  <2>1. p \in p .. e /\ Strs!Stands(m, p, q, n)
    BY <1>1, <1>4, PlacesAre
  <2>2. p \in H /\ \A y \in H : p <= y
    BY <1>1, <1>3, <2>1
  <2>3. Strs!Least(H) = p
    BY <1>3, <2>2, LeastIs
  <2> QED BY <1>2, <1>4, <2>3
<1>5. CASE m[q] # 0
  <2>0. \A a \in p .. e : a \in Addr
    BY <1>1, AddrIs
  <2>1. \A a \in H : a \in p .. e /\ m[a] = m[q]
    BY <1>3, <1>5, <2>0, PlacesAre
  <2>2. \A a \in H : a \in p .. (e - 1)
    BY <1>1, <1>5, <2>1
  <2>3. S \in SUBSET Nat /\ e \in S
    BY <1>1
  <2>4. \A a : a \in S <=> a = e \/ a \in H
    <3>1. \A a : a \in p .. (e - 1) => a \in p .. e
      BY <1>1
    <3> QED BY <1>3, <2>2, <3>1, Zenon
  <2>5. x \in S /\ \A r \in S : x <= r
    <3> HIDE DEF S
    <3> QED BY <2>3, FirstIs
  <2> HIDE DEF S, x, H
  <2>6. CASE x = e
    <3>1. H = {}
      <4> SUFFICES ASSUME NEW a \in H PROVE FALSE
        OBVIOUS
      <4>1. a \in p .. (e - 1) /\ x <= a
        BY <2>2, <2>4, <2>5
      <4> HIDE DEF e
      <4> QED BY <1>1, <2>6, <4>1
    <3>2. m[x] = 0
      BY <1>1, <2>6
    <3> QED BY <1>2, <1>5, <3>1, <3>2, LeastIs DEF H
  <2>7. CASE x # e
    <3>1. x \in H /\ \A y \in H : x <= y
      BY <2>4, <2>5, <2>7
    <3>2. Strs!Least(H) = x
      BY <1>3, <3>1, LeastIs
    <3>3. m[x] # 0
      BY <1>5, <2>1, <3>1
    <3> QED BY <1>2, <1>5, <3>2, <3>3 DEF H
  <2> QED BY <2>6, <2>7
<1> QED BY <1>4, <1>5

LEMMA StrnlenIs ==
  ASSUME NEW m, Closed(m), NEW p \in Addr, NEW n \in Nat
  PROVE  Strs!strnlen(m, p, n) = IF n < Strs!strlen(m, p) THEN n ELSE Strs!strlen(m, p)
<1> DEFINE len == Strs!strlen(m, p)
           e == p + len
           S == {p + n} \cup {q \in Strs!From(m, p) : m[q] = 0}
           x == Strs!First(S)
<1>1. m \in Mem /\ EndIs(m, p, e) /\ p \in Nat /\ len \in Nat
  BY ClosedEnds, AddrIs DEF Closed
<1>2. e \in Nat /\ e \in Addr /\ m[e] = 0 /\ e >= p /\ \A a \in Addr : p <= a /\ a < e => m[a] # 0
  BY <1>1, AddrIs DEF EndIs
<1>3. S \in SUBSET Nat /\ p + n \in S /\ e \in S
      /\ \A a \in S : a = p + n \/ (a \in Addr /\ a >= p /\ m[a] = 0)
  BY <1>1, <1>2, FromIs
<1>4. x \in S /\ \A r \in S : x <= r
  <2> HIDE DEF S
  <2> QED BY <1>3, FirstIs
<1>5. Strs!strnlen(m, p, n) = x - p
  BY DEF Strs!strnlen
<1> HIDE DEF S, x
<1>6. x <= p + n /\ x <= e /\ x \in Nat /\ (x = p + n \/ ~(x < e))
  BY <1>2, <1>3, <1>4
<1>7. e = p + len
  OBVIOUS
<1> HIDE DEF len, e
<1>8. CASE n < len
  <2>1. x = p + n
    BY <1>1, <1>2, <1>6, <1>7, <1>8
  <2>2. x - p = n
    BY <1>1, <2>1
  <2> QED BY <1>5, <1>8, <2>2 DEF len
<1>9. CASE ~(n < len)
  <2>1. x = e
    BY <1>1, <1>2, <1>6, <1>7, <1>9
  <2>2. x - p = len
    BY <1>1, <1>7, <2>1
  <2> QED BY <1>5, <1>9, <2>2 DEF len
<1> QED BY <1>8, <1>9

\* memmem with a needle that is not empty and not longer than the haystack.
LEMMA MemmemIs ==
  ASSUME NEW m, NEW p \in Nat, NEW q, NEW n \in Nat, NEW k \in Nat, k # 0, k <= n
  PROVE  \/ /\ Strs!memmem(m, p, n, q, k) \in p .. (p + (n - k)) /\ Strs!Stands(m, Strs!memmem(m, p, n, q, k), q, k)
            /\ \A a \in p .. (p + (n - k)) : Strs!Stands(m, a, q, k) => Strs!memmem(m, p, n, q, k) <= a
         \/ Strs!memmem(m, p, n, q, k) = Strs!NULL /\ \A a \in p .. (p + (n - k)) : ~Strs!Stands(m, a, q, k)
<1> DEFINE end == p + n - k
           S == {end + 1} \cup {r \in p .. end : Strs!Stands(m, r, q, k)}
           x == Strs!First(S)
<1>1. end = p + (n - k) /\ end \in Nat /\ p <= end
  OBVIOUS
<1>2. Strs!memmem(m, p, n, q, k) = IF x > end THEN Strs!NULL ELSE x
  BY DEF Strs!memmem
<1> HIDE DEF end
<1>3. S \in SUBSET Nat /\ end + 1 \in S /\ \A a \in S : a = end + 1 \/ (a \in p .. end /\ Strs!Stands(m, a, q, k))
  BY <1>1
<1>4. x \in S /\ \A r \in S : x <= r
  <2> HIDE DEF S
  <2> QED BY <1>3, FirstIs
<1>5. \A a \in p .. end : Strs!Stands(m, a, q, k) => a \in S
  OBVIOUS
<1> HIDE DEF S, x
<1>6. CASE x = end + 1
  <2>1. x > end
    BY <1>1, <1>6
  <2>2. \A a \in p .. end : ~Strs!Stands(m, a, q, k)
    <3> SUFFICES ASSUME NEW a \in p .. end, Strs!Stands(m, a, q, k) PROVE FALSE
      OBVIOUS
    <3>1. end + 1 <= a
      BY <1>4, <1>5, <1>6
    <3> QED BY <1>1, <3>1
  <2> QED BY <1>1, <1>2, <2>1, <2>2
<1>7. CASE x # end + 1
  <2>1. x \in p .. end /\ Strs!Stands(m, x, q, k)
    BY <1>3, <1>4, <1>7
  <2>2. ~(x > end)
    BY <1>1, <2>1
  <2>3. \A a \in p .. end : Strs!Stands(m, a, q, k) => x <= a
    BY <1>4, <1>5
  <2> QED BY <1>1, <1>2, <2>1, <2>2, <2>3
<1> QED BY <1>6, <1>7

LEMMA StrnstrRight ==
  ASSUME NEW m, Closed(m), NEW p \in Addr, NEW q \in Addr, NEW n \in Nat, Strs!Inside(p, n)
  PROVE  Strs!strnstr(m, p, q, n) = Strs!Least({a \in Places(m, p, q) : a + Strs!strlen(m, q) <= p + n})
<1> DEFINE k == Strs!strlen(m, q)
           e == p + Strs!strlen(m, p)
           len == Strs!strnlen(m, q, n)
           x == Strs!memmem(m, p, n, q, len)
           ret == Strs!strnstr(m, p, q, n)
           H == {a \in Places(m, p, q) : a + k <= p + n}
           Ok == (len < n \/ m[q + len] = 0) /\ x # Strs!NULL /\ Strs!memchr(m, p, 0, x - p) = Strs!NULL
<1>1. /\ m \in Mem /\ p \in Nat /\ q \in Nat /\ k \in Nat /\ EndIs(m, p, e) /\ EndIs(m, q, q + k)
      /\ e \in Nat /\ e \in Addr /\ p <= e /\ m[e] = 0 /\ \A a \in Addr : p <= a /\ a < e => m[a] # 0
  BY ClosedEnds, AddrIs DEF Closed, EndIs
<1>2. \A a : a \in H <=> a \in p .. e /\ Strs!Stands(m, a, q, k) /\ a + k <= p + n
  BY PlacesAre
<1>3. H \in SUBSET Int
  BY PlacesAre
<1>4. Ok => ret = x
  BY DEF Strs!strnstr
<1>5. ~Ok => ret = Strs!NULL
  BY DEF Strs!strnstr
<1>6. len = IF n < k THEN n ELSE k
  BY StrnlenIs
<1>7. CASE n < k
  <2>1. len = n /\ q + n \in Addr /\ m[q + n] # 0
    <3>1. q + n \in Nat /\ q + n < q + k /\ q <= q + n /\ q + k \in Addr
      BY <1>1, <1>7 DEF EndIs
    <3>2. q + n \in Addr
      BY <3>1, AddrIs
    <3> QED BY <1>1, <1>6, <1>7, <3>1, <3>2 DEF EndIs
  <2>2. ~(len < n)
    BY <2>1
  <2>3. ret = Strs!NULL
    BY <1>5, <2>1, <2>2
  <2>4. H = {}
    <3> SUFFICES ASSUME NEW a \in H PROVE FALSE
      OBVIOUS
    <3> HIDE DEF H, k, e
    <3>1. a \in p .. e /\ a + k <= p + n
      BY <1>2
    <3> QED BY <1>1, <1>7, <3>1
  <2> QED BY <2>3, <2>4, LeastIs
<1>8. CASE ~(n < k)
  <2>1. len = k /\ m[q + k] = 0 /\ k <= n
    BY <1>1, <1>6, <1>8 DEF EndIs
  <2>2. Ok <=> x # Strs!NULL /\ Strs!memchr(m, p, 0, x - p) = Strs!NULL
    BY <2>1
  <2>3. CASE k = 0
    <3>1. x = p
      BY <2>1, <2>3 DEF Strs!memmem
    <3>2. x - p = 0 /\ x # Strs!NULL /\ Strs!Inside(p, 0)
      BY <1>1, <3>1, AddrIs DEF Strs!NULL, Strs!Inside
    <3>3. Strs!memchr(m, p, 0, 0) = Strs!NULL
      <4> DEFINE y == Strs!memchr(m, p, 0, 0)
      <4>1. 0 \in Nat /\ y = Strs!memchr(m, p, 0, 0)
        OBVIOUS
      <4> HIDE DEF y, x, e, k, len, H, ret, Ok
      <4>2. (y \in Nat /\ p <= y /\ y < p + 0) \/ y = Strs!NULL
        BY <1>1, <3>2, <4>1, MemchrIs
      <4> QED BY <1>1, <4>2 DEF y
    <3>4. Ok
      BY <2>2, <3>2, <3>3
    <3>5. \A a : Strs!Stands(m, a, q, k)
      BY <2>3 DEF Strs!Stands
    <3>6. p \in H /\ \A y \in H : p <= y
      BY <1>1, <1>2, <2>1, <3>5
    <3> HIDE DEF H, Ok, x
    <3> QED BY <1>3, <1>4, <3>1, <3>4, <3>6, LeastIs DEF H
  <2>4. CASE k # 0
    <3> HIDE DEF H, Ok, x, e, k, len
    <3>0. x = Strs!memmem(m, p, n, q, k)
      BY <2>1 DEF x
    <3>1. \/ /\ x \in p .. (p + (n - k)) /\ Strs!Stands(m, x, q, k)
             /\ \A a \in p .. (p + (n - k)) : Strs!Stands(m, a, q, k) => x <= a
          \/ x = Strs!NULL /\ \A a \in p .. (p + (n - k)) : ~Strs!Stands(m, a, q, k)
      BY <1>1, <2>1, <2>4, <3>0, MemmemIs
    <3>2. \A a \in H : a \in p .. e /\ a \in p .. (p + (n - k)) /\ Strs!Stands(m, a, q, k)
      BY <1>1, <1>2, <2>1
    <3>3. CASE x = Strs!NULL
      <4>1. \A a \in p .. (p + (n - k)) : ~Strs!Stands(m, a, q, k)
        BY <1>1, <3>1, <3>3 DEF Strs!NULL
      <4>2. H = {}
        BY <3>2, <4>1
      <4> QED BY <1>5, <2>2, <3>3, <4>2, LeastIs DEF H, k
    <3>4. CASE x # Strs!NULL
      <4>1. /\ x \in p .. (p + (n - k)) /\ Strs!Stands(m, x, q, k)
            /\ \A a \in p .. (p + (n - k)) : Strs!Stands(m, a, q, k) => x <= a
        BY <3>1, <3>4
      <4>2. x - p \in Nat /\ x - p <= n /\ p + (x - p) = x /\ x \in Nat
        BY <1>1, <2>1, <4>1
      <4>3. Strs!Inside(p, x - p)
        BY <1>1, <4>2, AddrIs DEF Strs!Inside
      <4> DEFINE y == Strs!memchr(m, p, 0, x - p)
      <4>4. 0 \in Nat /\ y = Strs!memchr(m, p, 0, x - p)
        OBVIOUS
      <4>5. Ok <=> y = Strs!NULL
        BY <2>2, <3>4
      <4> HIDE DEF y
      <4>6. \/ y \in Nat /\ p <= y /\ y < x /\ m[y] = 0
            \/ y = Strs!NULL /\ \A a \in Nat : p <= a /\ a < x => m[a] # 0
        BY <1>1, <4>2, <4>3, <4>4, MemchrIs
      <4>7. CASE x <= e
        <5>1. \A a \in Nat : p <= a /\ a < x => m[a] # 0
          BY <1>1, <4>2, <4>7, AddrIs
        <5>3. Ok
          BY <4>5, <4>6, <5>1
        <5>4. x \in p .. e /\ x + k <= p + n
          BY <1>1, <2>1, <4>1, <4>2, <4>7
        <5>5. x \in H /\ \A a \in H : x <= a
          BY <1>2, <3>2, <4>1, <5>4
        <5>6. Strs!Least(H) = x
          BY <1>3, <5>5, LeastIs
        <5> QED BY <1>4, <5>3, <5>6 DEF H, k
      <4>8. CASE ~(x <= e)
        <5>1. e < x
          BY <1>1, <4>2, <4>8
        <5>2. ~Ok
          BY <1>1, <4>5, <4>6, <5>1 DEF Strs!NULL
        <5>3. H = {}
          <6> SUFFICES ASSUME NEW a \in H PROVE FALSE
            OBVIOUS
          <6>1. a \in p .. e /\ x <= a
            BY <3>2, <4>1
          <6> QED BY <1>1, <4>2, <4>8, <6>1
        <5> QED BY <1>5, <5>2, <5>3, LeastIs DEF H, k
      <4> QED BY <4>7, <4>8
    <3> QED BY <3>3, <3>4
  <2> QED BY <2>3, <2>4
<1> QED BY <1>7, <1>8

-----------------------------------------------------------------------------
(* Comparing.                                                              *)

\* The sequences agree on the first k elements, and then one of four things.
LEMMA AgreesIs ==
  ASSUME NEW t \in Seq(Nat), NEW u \in Seq(Nat), NEW k \in Nat, k <= Len(t), k <= Len(u),
         \A j \in 1 .. k : t[j] = u[j], NEW ret \in Int,
         \/ k < Len(t) /\ k < Len(u) /\ t[k + 1] # u[k + 1] /\ ret = t[k + 1] - u[k + 1]
         \/ k = Len(t) /\ k = Len(u) /\ ret = 0
         \/ k = Len(t) /\ k < Len(u) /\ ret < 0
         \/ k < Len(t) /\ k = Len(u) /\ ret > 0
  PROVE  Strs!Agrees(ret, t, u)
<1> DEFINE P == {j \in 1 .. Len(t) : j <= Len(u) /\ t[j] # u[j]}
           at == Strs!Least(P)
<1>1. Len(t) \in Nat /\ Len(u) \in Nat /\ P \in SUBSET Int
  OBVIOUS
<1>2. Strs!Sign(t, u) <=> IF at # Strs!NULL THEN t[at] > u[at] ELSE Len(t) > Len(u)
  BY DEF Strs!Sign
<1>3. CASE k < Len(t) /\ k < Len(u) /\ t[k + 1] # u[k + 1] /\ ret = t[k + 1] - u[k + 1]
  <2>1. k + 1 \in 1 .. Len(t) /\ k + 1 \in 1 .. Len(u)
    BY <1>1, <1>3
  <2>2. k + 1 \in P
    BY <1>3, <2>1
  <2>3. \A j \in P : k + 1 <= j
    <3> SUFFICES ASSUME NEW j \in P, ~(k + 1 <= j) PROVE FALSE
      OBVIOUS
    <3>1. j \in 1 .. k /\ t[j] # u[j]
      OBVIOUS
    <3> QED BY <3>1
  <2>4. at = k + 1
    <3> HIDE DEF P
    <3> QED BY <1>1, <2>2, <2>3, LeastIs
  <2>5. at # Strs!NULL
    BY <2>4 DEF Strs!NULL
  <2>6. Strs!Sign(t, u) <=> t[k + 1] > u[k + 1]
    BY <1>2, <2>4, <2>5
  <2>7. t # u
    BY <1>3
  <2>8. t[k + 1] \in Nat /\ u[k + 1] \in Nat
    BY <2>1
  <2>9. ret # 0 /\ (ret > 0 <=> t[k + 1] > u[k + 1])
    BY <1>3, <2>8, SMTT(40)
  <2> QED BY <2>6, <2>7, <2>9 DEF Strs!Agrees
<1>4. CASE k = Len(t) \/ k = Len(u)
  <2>1. P = {}
    <3> SUFFICES ASSUME NEW j \in P PROVE FALSE
      OBVIOUS
    <3>1. j \in 1 .. k /\ t[j] # u[j]
      BY <1>1, <1>4
    <3> QED BY <3>1
  <2>2. at = Strs!NULL
    BY <2>1, LeastIs
  <2>3. Strs!Sign(t, u) <=> Len(t) > Len(u)
    BY <1>2, <2>2
  <2>4. t = u <=> Len(t) = Len(u)
    <3>1. ASSUME Len(t) = Len(u) PROVE t = u
      BY <1>4, <3>1, SeqEqual
    <3> QED BY <3>1
  <2>5. ret = 0 <=> Len(t) = Len(u)
    BY <1>1, <1>4
  <2>6. ret > 0 <=> Len(t) > Len(u)
    BY <1>1, <1>4
  <2>7. Len(t) > Len(u) => Len(t) # Len(u)
    BY <1>1
  <2> QED BY <2>3, <2>4, <2>5, <2>6, <2>7, Zenon DEF Strs!Agrees
<1> QED BY <1>3, <1>4

LEMMA DifferIs ==
  ASSUME NEW m \in Mem, NEW p \in Nat, NEW q \in Nat
  PROVE  /\ Strs!Differ(m, p, q) \in SUBSET Nat
         /\ \A r : r \in Strs!Differ(m, p, q) <=>
                     r \in Addr /\ r >= p /\ q + (r - p) \in Addr /\ m[r] # m[q + (r - p)]
BY FromIs, AddrIs DEF Strs!Differ

\* Where a comparison may stop: where the bytes differ, and at two places more.
Ends(m, p, q, b, e) == {b, e} \cup Strs!Differ(m, p, q)

\* Where a comparison of two strings stops that does not look behind the place b.
LEMMA CompareStops ==
  ASSUME NEW m \in Mem, NEW p, NEW e, EndIs(m, p, e), NEW q, NEW f, EndIs(m, q, f),
         NEW b \in Nat, b >= p, NEW x, x = Strs!First(Ends(m, p, q, b, e))
  PROVE  /\ p \in Nat /\ x \in Nat /\ p <= x /\ x <= e /\ x <= b /\ x \in Addr
         /\ x - p <= f - q /\ x - p \in Nat /\ q + (x - p) \in Addr
         /\ \A j \in 0 .. ((x - p) - 1) : m[p + j] = m[q + j]
         /\ (x # b /\ x # e => m[x] # m[q + (x - p)])
<1> DEFINE S == Ends(m, p, q, b, e)
<1>1. /\ p \in Nat /\ e \in Nat /\ q \in Nat /\ f \in Nat /\ e \in Addr /\ f \in Addr /\ p <= e /\ q <= f
      /\ m[e] = 0 /\ m[f] = 0 /\ \A a \in Addr : p <= a /\ a < e => m[a] # 0
  BY AddrIs DEF EndIs
<1>2. S \in SUBSET Nat /\ b \in S /\ e \in S
  BY <1>1, DifferIs DEF Ends
<1>3. x \in S /\ \A r \in S : x <= r
  <2>1. x = Strs!First(S)
    OBVIOUS
  <2> HIDE DEF S
  <2>2. S # {}
    BY <1>2
  <2>3. Strs!First(S) \in S /\ \A r \in S : Strs!First(S) <= r
    BY <1>2, <2>2, FirstIs
  <2> QED BY <2>1, <2>3
<1>4. \A r \in Strs!Differ(m, p, q) : r \in S
  BY DEF Ends
<1>5. x = b \/ x = e \/ x \in Strs!Differ(m, p, q)
  BY <1>3 DEF Ends
<1> HIDE DEF S
<1>6. x \in Nat /\ x <= e /\ x <= b /\ p <= x
  BY <1>1, <1>2, <1>3, <1>5, DifferIs
<1>7. x \in Addr /\ x - p \in Nat
  BY <1>1, <1>6, AddrIs
<1>8. ASSUME NEW j \in 0 .. ((x - p) - 1), q + j \in Addr PROVE m[p + j] = m[q + j]
  <2>1. p + j \in Addr /\ p + j >= p /\ (p + j) - p = j /\ p + j \in Nat /\ p + j < x
    BY <1>1, <1>6, <1>7, AddrIs
  <2>2. p + j \notin Strs!Differ(m, p, q)
    <3> SUFFICES ASSUME p + j \in Strs!Differ(m, p, q) PROVE FALSE
      OBVIOUS
    <3>1. x <= p + j
      BY <1>3, <1>4
    <3> QED BY <1>6, <2>1, <3>1
  <2> QED BY <1>1, <1>8, <2>1, <2>2, DifferIs
<1>9. x - p <= f - q
  <2> SUFFICES ASSUME f - q < x - p PROVE FALSE
    BY <1>1, <1>6
  <2>1. f - q \in 0 .. ((x - p) - 1) /\ q + (f - q) = f /\ p + (f - q) \in Nat /\ p + (f - q) < x /\ p <= p + (f - q)
    BY <1>1, <1>6
  <2>2. m[p + (f - q)] = 0
    BY <1>1, <1>8, <2>1
  <2>3. p + (f - q) \in Addr /\ p + (f - q) < e
    BY <1>1, <1>6, <1>7, <2>1, AddrIs
  <2> QED BY <1>1, <2>1, <2>2, <2>3
<1>10. q + (x - p) \in Addr
  BY <1>1, <1>7, <1>9, AddrIs, SMTT(40)
<1>11. ASSUME NEW j \in 0 .. ((x - p) - 1) PROVE m[p + j] = m[q + j]
  <2>1. q + j \in Addr
    BY <1>1, <1>7, <1>9, AddrIs
  <2> QED BY <1>8, <2>1
<1>12. x # b /\ x # e => m[x] # m[q + (x - p)]
  BY <1>1, <1>5, DifferIs
<1> QED BY <1>1, <1>6, <1>7, <1>9, <1>10, <1>11, <1>12

LEMMA StrcmpRight ==
  ASSUME NEW m, Closed(m), NEW p \in Addr, NEW q \in Addr
  PROVE  Strs!Agrees(Strs!strcmp(m, p, q), Strs!Str(m, p), Strs!Str(m, q))
<1> DEFINE e == p + Strs!strlen(m, p)
           f == q + Strs!strlen(m, q)
           x == Strs!First({e} \cup Strs!Differ(m, p, q))
           t == Strs!Str(m, p)
           u == Strs!Str(m, q)
           ret == Strs!strcmp(m, p, q)
           k == x - p
<1>1. m \in Mem /\ p \in Nat /\ q \in Nat /\ e \in Nat /\ f \in Nat /\ e >= p /\ m[e] = 0 /\ m[f] = 0
  BY ClosedEnds, AddrIs DEF Closed, EndIs
<1>0. m \in Mem
  BY DEF Closed
<1>17. EndIs(m, p, e)
  BY ClosedEnds
<1>18. EndIs(m, q, f)
  BY ClosedEnds
<1>2. ret = m[x] - m[q + x - p]
  BY DEF Strs!strcmp
<1>3. x = Strs!First(Ends(m, p, q, e, e)) /\ ret = m[x] - m[q + k]
  BY <1>2 DEF Ends
<1> HIDE DEF e, f, x, ret
<1>4. /\ x \in Nat /\ p <= x /\ x <= e /\ x \in Addr
      /\ k <= f - q /\ k \in Nat /\ q + k \in Addr
      /\ \A j \in 0 .. (k - 1) : m[p + j] = m[q + j]
      /\ (x # e => m[x] # m[q + k])
  <2>1. /\ p \in Nat /\ x \in Nat /\ p <= x /\ x <= e /\ x <= e /\ x \in Addr
        /\ x - p <= f - q /\ x - p \in Nat /\ q + (x - p) \in Addr
        /\ \A j \in 0 .. ((x - p) - 1) : m[p + j] = m[q + j]
        /\ (x # e /\ x # e => m[x] # m[q + (x - p)])
    <3> HIDE DEF t, u, k
    <3>1. e \in Nat /\ e >= p /\ x = Strs!First(Ends(m, p, q, e, e))
      BY <1>1, <1>3
    <3> QED BY <1>0, <1>17, <1>18, <3>1, CompareStops
  <2> QED BY <2>1, Zenon
<1>5. /\ t \in Seq(Nat) /\ Len(t) = e - p /\ \A j \in 1 .. (e - p) : t[j] = m[(p + j) - 1] /\ t[j] # 0
      /\ u \in Seq(Nat) /\ Len(u) = f - q /\ \A j \in 1 .. (f - q) : u[j] = m[(q + j) - 1] /\ u[j] # 0
  <2>1. t \in Seq(Nat) /\ Len(t) = e - p /\ \A j \in 1 .. (e - p) : t[j] = m[(p + j) - 1] /\ m[(p + j) - 1] # 0
    BY <1>0, <1>17, StrIs
  <2>2. u \in Seq(Nat) /\ Len(u) = f - q /\ \A j \in 1 .. (f - q) : u[j] = m[(q + j) - 1] /\ m[(q + j) - 1] # 0
    BY <1>0, <1>18, StrIs
  <2> HIDE DEF t, u
  <2> QED BY <2>1, <2>2
<1>6. m[x] \in Nat /\ m[q + k] \in Nat /\ m[e] = 0 /\ m[f] = 0
  BY <1>1, <1>4, AddrIs
<1>7. p + k = x
  BY <1>1, <1>4
<1> HIDE DEF t, u, k
<1>8. ret \in Int /\ k <= Len(t) /\ k <= Len(u)
  BY <1>1, <1>3, <1>4, <1>5, <1>6, <1>7
<1>9. ASSUME NEW j \in 1 .. k PROVE t[j] = u[j]
  <2>1. j - 1 \in 0 .. (k - 1) /\ p + (j - 1) = (p + j) - 1 /\ q + (j - 1) = (q + j) - 1 /\ j \in 1 .. (e - p) /\ j \in 1 .. (f - q)
    BY <1>1, <1>4, <1>5, <1>8
  <2> QED BY <1>4, <1>5, <2>1, ZenonT(60)
<1>10. ASSUME k < Len(t) PROVE t[k + 1] = m[x] /\ m[x] # 0
  <2>1. k + 1 \in 1 .. (e - p) /\ (p + (k + 1)) - 1 = x
    BY <1>1, <1>4, <1>5, <1>7, <1>10
  <2> QED BY <1>5, <2>1
<1>11. ASSUME k < Len(u) PROVE u[k + 1] = m[q + k] /\ m[q + k] # 0
  <2>1. k + 1 \in 1 .. (f - q) /\ (q + (k + 1)) - 1 = q + k
    BY <1>1, <1>4, <1>5, <1>11
  <2> QED BY <1>5, <2>1
<1>12. k = Len(t) => x = e /\ m[x] = 0
  BY <1>1, <1>5, <1>6, <1>7
<1>13. k = Len(u) => m[q + k] = 0
  <2>1. k = Len(u) => q + k = f
    BY <1>1, <1>5
  <2> QED BY <1>6, <2>1
<1>14. k < Len(t) => x # e
  BY <1>1, <1>4, <1>5, <1>7
<1>15. \/ k < Len(t) /\ k < Len(u) /\ t[k + 1] # u[k + 1] /\ ret = t[k + 1] - u[k + 1]
       \/ k = Len(t) /\ k = Len(u) /\ ret = 0
       \/ k = Len(t) /\ k < Len(u) /\ ret < 0
       \/ k < Len(t) /\ k = Len(u) /\ ret > 0
  <2>1. Len(t) \in Nat /\ Len(u) \in Nat
    BY <1>5
  <2>2. CASE k < Len(t) /\ k < Len(u)
    BY <1>3, <1>4, <1>10, <1>11, <1>14, <2>2
  <2>3. CASE k = Len(t) /\ k = Len(u)
    <3>1. m[x] = 0 /\ m[q + k] = 0
      BY <1>12, <1>13, <2>3
    <3> QED BY <1>3, <2>3, <3>1
  <2>4. CASE k = Len(t) /\ k < Len(u)
    <3>1. m[x] = 0 /\ m[q + k] # 0
      BY <1>11, <1>12, <2>4
    <3> QED BY <1>3, <1>6, <2>4, <3>1
  <2>5. CASE k < Len(t) /\ k = Len(u)
    <3>1. m[x] # 0 /\ m[q + k] = 0
      BY <1>10, <1>13, <2>5
    <3> QED BY <1>3, <1>6, <2>5, <3>1
  <2> QED BY <1>4, <1>8, <2>1, <2>2, <2>3, <2>4, <2>5
<1>16. Strs!Agrees(ret, t, u)
  BY <1>4, <1>5, <1>8, <1>9, <1>15, AgreesIs
<1> QED BY <1>16 DEF ret, t, u

LEMMA CutIs ==
  ASSUME NEW t \in Seq(Nat), NEW n \in Nat
  PROVE  /\ Strs!Cut(t, n) \in Seq(Nat)
         /\ Len(Strs!Cut(t, n)) = IF n < Len(t) THEN n ELSE Len(t)
         /\ \A j \in 1 .. Len(Strs!Cut(t, n)) : Strs!Cut(t, n)[j] = t[j]
<1> DEFINE k == IF n < Len(t) THEN n ELSE Len(t)
<1>1. k \in Nat /\ k <= Len(t)
  OBVIOUS
<1>2. Strs!Cut(t, n) = SubSeq(t, 1, k)
  BY DEF Strs!Cut
<1> HIDE DEF k
<1>3. SubSeq(t, 1, k) \in Seq(Nat) /\ Len(SubSeq(t, 1, k)) = k /\ \A j \in 1 .. k : SubSeq(t, 1, k)[j] = t[j]
  BY <1>1
<1> QED BY <1>2, <1>3 DEF k

LEMMA StrncmpRight ==
  ASSUME NEW m, Closed(m), NEW p \in Addr, NEW q \in Addr, NEW n \in Nat
  PROVE  Strs!Agrees(Strs!strncmp(m, p, q, n), Strs!Cut(Strs!Str(m, p), n), Strs!Cut(Strs!Str(m, q), n))
<1> DEFINE e == p + Strs!strlen(m, p)
           f == q + Strs!strlen(m, q)
           b == p + n - 1
           x == Strs!First({b, e} \cup Strs!Differ(m, p, q))
           t == Strs!Str(m, p)
           u == Strs!Str(m, q)
           tt == Strs!Cut(t, n)
           uu == Strs!Cut(u, n)
           ret == Strs!strncmp(m, p, q, n)
           k == x - p
<1>0. m \in Mem
  BY DEF Closed
<1>1. p \in Nat /\ q \in Nat /\ e \in Nat /\ f \in Nat /\ e >= p /\ m[e] = 0 /\ m[f] = 0
  BY ClosedEnds, AddrIs DEF Closed, EndIs
<1>17. EndIs(m, p, e)
  BY ClosedEnds
<1>18. EndIs(m, q, f)
  BY ClosedEnds
<1>2. ret = IF n = 0 THEN 0 ELSE m[x] - m[q + k]
  BY DEF Strs!strncmp
<1>3. x = Strs!First(Ends(m, p, q, b, e))
  BY DEF Ends
<1>5. /\ t \in Seq(Nat) /\ Len(t) = e - p /\ \A j \in 1 .. (e - p) : t[j] = m[(p + j) - 1] /\ t[j] # 0
      /\ u \in Seq(Nat) /\ Len(u) = f - q /\ \A j \in 1 .. (f - q) : u[j] = m[(q + j) - 1] /\ u[j] # 0
  <2> HIDE DEF e, f, x, ret, k
  <2>1. t \in Seq(Nat) /\ Len(t) = e - p /\ \A j \in 1 .. (e - p) : t[j] = m[(p + j) - 1] /\ m[(p + j) - 1] # 0
    BY <1>0, <1>17, StrIs
  <2>2. u \in Seq(Nat) /\ Len(u) = f - q /\ \A j \in 1 .. (f - q) : u[j] = m[(q + j) - 1] /\ m[(q + j) - 1] # 0
    BY <1>0, <1>18, StrIs
  <2> HIDE DEF t, u
  <2> QED BY <2>1, <2>2
<1>19. b = (p + n) - 1
  BY <1>1
<1> HIDE DEF e, f, x, ret, b, t, u
<1>20. /\ tt \in Seq(Nat) /\ Len(tt) = (IF n < e - p THEN n ELSE e - p) /\ \A j \in 1 .. Len(tt) : tt[j] = t[j]
       /\ uu \in Seq(Nat) /\ Len(uu) = (IF n < f - q THEN n ELSE f - q) /\ \A j \in 1 .. Len(uu) : uu[j] = u[j]
  BY <1>5, CutIs
<1> HIDE DEF tt, uu
<1>21. Strs!Agrees(ret, tt, uu)
  <2>1. CASE n = 0
    <3>1. Len(tt) = 0 /\ Len(uu) = 0 /\ ret = 0
      BY <1>1, <1>2, <1>5, <1>20, <2>1
    <3> DEFINE z == 0
    <3>2. z \in Nat /\ z = Len(tt) /\ z = Len(uu) /\ z <= Len(tt) /\ z <= Len(uu) /\ \A j \in 1 .. z : tt[j] = uu[j]
      BY <3>1
    <3>3. ret \in Int
      BY <3>1
    <3> HIDE DEF z, k
    <3> QED BY <1>20, <3>1, <3>2, <3>3, AgreesIs
  <2>2. CASE n # 0
    <3>1. b \in Nat /\ b >= p /\ e \in Nat
      BY <1>1, <1>19, <2>2
    <3>2. /\ x \in Nat /\ p <= x /\ x <= e /\ x <= b /\ x \in Addr
          /\ x - p <= f - q /\ x - p \in Nat /\ q + (x - p) \in Addr
          /\ \A j \in 0 .. ((x - p) - 1) : m[p + j] = m[q + j]
          /\ (x # b /\ x # e => m[x] # m[q + (x - p)])
      <4> HIDE DEF k
      <4> QED BY <1>0, <1>3, <1>17, <1>18, <3>1, CompareStops
    <3>3. /\ x \in Nat /\ p <= x /\ x <= e /\ x <= b /\ x \in Addr
          /\ k <= f - q /\ k \in Nat /\ q + k \in Addr
          /\ \A j \in 0 .. (k - 1) : m[p + j] = m[q + j]
          /\ (x # b /\ x # e => m[x] # m[q + k])
      BY <3>2, Zenon
    <3>4. m[x] \in Nat /\ m[q + k] \in Nat
      BY <1>0, <3>3, AddrIs
    <3>5. p + k = x
      BY <1>1, <3>3
    <3>6. ret = m[x] - m[q + k] /\ ret \in Int
      BY <1>2, <2>2, <3>4
    <3> HIDE DEF k
    <3>7. k < n /\ k <= e - p
      BY <1>1, <1>19, <3>3, <3>5, <2>2
    <3>8. /\ k <= Len(tt) /\ (k < Len(tt) <=> k < e - p)
          /\ k <= Len(uu) /\ (k < Len(uu) <=> k < f - q)
          /\ Len(tt) \in Nat /\ Len(uu) \in Nat
      BY <1>1, <1>20, <3>3, <3>7
    <3>9. ASSUME NEW j \in 1 .. k PROVE tt[j] = uu[j]
      <4>1. /\ j - 1 \in 0 .. (k - 1) /\ p + (j - 1) = (p + j) - 1 /\ q + (j - 1) = (q + j) - 1
            /\ j \in 1 .. (e - p) /\ j \in 1 .. (f - q) /\ j \in 1 .. Len(tt) /\ j \in 1 .. Len(uu)
        BY <1>1, <3>3, <3>7, <3>8
      <4>2. t[j] = m[(p + j) - 1] /\ u[j] = m[(q + j) - 1]
        BY <1>5, <4>1
      <4>3. tt[j] = t[j] /\ uu[j] = u[j]
        BY <1>20, <4>1
      <4>4. m[p + (j - 1)] = m[q + (j - 1)]
        BY <3>3, <4>1
      <4> QED BY <4>1, <4>2, <4>3, <4>4
    <3>10. ASSUME k < Len(tt) PROVE tt[k + 1] = m[x] /\ m[x] # 0 /\ x # e
      <4>1. k + 1 \in 1 .. (e - p) /\ (p + (k + 1)) - 1 = x /\ k + 1 \in 1 .. Len(tt) /\ x # e
        BY <1>1, <3>3, <3>5, <3>8, <3>10
      <4> QED BY <1>5, <1>20, <4>1
    <3>11. ASSUME k < Len(uu) PROVE uu[k + 1] = m[q + k] /\ m[q + k] # 0
      <4>1. k + 1 \in 1 .. (f - q) /\ (q + (k + 1)) - 1 = q + k /\ k + 1 \in 1 .. Len(uu)
        BY <1>1, <3>3, <3>8, <3>11
      <4> QED BY <1>5, <1>20, <4>1, ZenonT(60)
    <3>12. ~(k < Len(tt)) => m[x] = 0
      <4>1. ~(k < Len(tt)) => x = e
        BY <1>1, <3>3, <3>5, <3>7, <3>8
      <4> QED BY <1>1, <4>1
    <3>13. ~(k < Len(uu)) => m[q + k] = 0
      <4>1. ~(k < Len(uu)) => q + k = f
        BY <1>1, <3>3, <3>8
      <4> QED BY <1>1, <4>1
    <3>14. CASE k < Len(tt) /\ k < Len(uu)
      <4>1. CASE m[x] # m[q + k]
        BY <1>20, <3>3, <3>6, <3>8, <3>9, <3>10, <3>11, <3>14, <4>1, AgreesIs
      <4>2. CASE m[x] = m[q + k]
        <5>1. x = b /\ ret = 0
          BY <3>3, <3>4, <3>6, <3>10, <3>14, <4>2
        <5>2. n = k + 1 /\ k + 1 = Len(tt) /\ k + 1 = Len(uu)
          BY <1>1, <1>19, <1>20, <3>3, <3>5, <3>8, <3>14, <5>1, SMTT(40)
        <5>3. ASSUME NEW j \in 1 .. (k + 1) PROVE tt[j] = uu[j]
          <6>1. j \in 1 .. k \/ j = k + 1
            BY <3>3
          <6> QED BY <3>9, <3>10, <3>11, <3>14, <4>2, <6>1
        <5>4. k + 1 \in Nat /\ 0 \in Int /\ k + 1 <= Len(tt) /\ k + 1 <= Len(uu)
          BY <3>3, <5>2
        <5> HIDE DEF k
        <5> QED BY <1>20, <5>1, <5>2, <5>3, <5>4, AgreesIs
      <4> QED BY <4>1, <4>2
    <3>15. CASE ~(k < Len(tt)) \/ ~(k < Len(uu))
      <4>1. \/ k = Len(tt) /\ k = Len(uu) /\ ret = 0
            \/ k = Len(tt) /\ k < Len(uu) /\ ret < 0
            \/ k < Len(tt) /\ k = Len(uu) /\ ret > 0
        BY <3>3, <3>4, <3>6, <3>8, <3>10, <3>11, <3>12, <3>13, <3>15, SMTT(40)
      <4> QED BY <1>20, <3>3, <3>6, <3>8, <3>9, <4>1, AgreesIs
    <3> QED BY <3>14, <3>15
  <2> QED BY <2>1, <2>2
<1> QED BY <1>21 DEF ret, t, u, tt, uu

LEMMA MemcmpRight ==
  ASSUME NEW m \in Mem, NEW p \in Nat, NEW q \in Nat, NEW n \in Nat, Strs!Inside(p, n), Strs!Inside(q, n)
  PROVE  Strs!Agrees(Strs!memcmp(m, p, q, n), Strs!Piece(m, p, n), Strs!Piece(m, q, n))
<1> DEFINE S == {p + n} \cup Strs!Differ(m, p, q)
           x == Strs!First(S)
           t == Strs!Piece(m, p, n)
           u == Strs!Piece(m, q, n)
           ret == Strs!memcmp(m, p, q, n)
           k == x - p
<1>1. \A a \in Nat : (a >= p /\ a < p + n) \/ (a >= q /\ a < q + n) => a \in Addr
  BY AddrIs DEF Strs!Inside
<1>2. ret = IF x = p + n THEN 0 ELSE m[x] - m[q + k]
  BY DEF Strs!memcmp
<1>3. S \in SUBSET Nat /\ p + n \in S
  BY DifferIs
<1>4. x \in S /\ \A r \in S : x <= r
  <2> HIDE DEF S
  <2> QED BY <1>3, FirstIs
<1>5. \A r \in Strs!Differ(m, p, q) : r \in S
  OBVIOUS
<1>6. x = p + n \/ x \in Strs!Differ(m, p, q)
  BY <1>4
<1> HIDE DEF S, x, ret
<1>7. x \in Nat /\ x <= p + n /\ p <= x
  BY <1>3, <1>4, <1>6, DifferIs
<1>8. k \in Nat /\ k <= n /\ p + k = x
  BY <1>7
<1>9. x # p + n => m[x] # m[q + k] /\ k < n
  BY <1>6, <1>7, DifferIs
<1>10. t \in Seq(Nat) /\ Len(t) = n /\ \A j \in 1 .. n : t[j] = m[(p + j) - 1]
  <2>0. \A a \in p .. ((p + n) - 1) : a \in Nat /\ a >= p /\ a < p + n
    OBVIOUS
  <2>1. \A a \in p .. ((p + n) - 1) : m[a] \in Nat
    BY <1>1, <2>0, AddrIs
  <2> QED BY <2>1, PieceIs
<1>11. u \in Seq(Nat) /\ Len(u) = n /\ \A j \in 1 .. n : u[j] = m[(q + j) - 1]
  <2>0. \A a \in q .. ((q + n) - 1) : a \in Nat /\ a >= q /\ a < q + n
    OBVIOUS
  <2>1. \A a \in q .. ((q + n) - 1) : m[a] \in Nat
    BY <1>1, <2>0, AddrIs
  <2> QED BY <2>1, PieceIs
<1> HIDE DEF t, u, k
<1>12. ASSUME NEW j \in 1 .. k PROVE t[j] = u[j]
  <2> DEFINE a == (p + j) - 1
  <2>1. /\ a \in Nat /\ a >= p /\ a < p + n /\ a < x /\ q + (a - p) = (q + j) - 1 /\ j \in 1 .. n
        /\ (q + j) - 1 \in Nat /\ (q + j) - 1 >= q /\ (q + j) - 1 < q + n
    BY <1>7, <1>8
  <2>2. a \in Addr /\ q + (a - p) \in Addr
    BY <1>1, <2>1
  <2>3. a \notin Strs!Differ(m, p, q)
    <3> HIDE DEF a
    <3> SUFFICES ASSUME a \in Strs!Differ(m, p, q) PROVE FALSE
      OBVIOUS
    <3>1. x <= a
      BY <1>4, <1>5
    <3> QED BY <1>7, <2>1, <3>1
  <2>4. m[a] = m[q + (a - p)]
    <3> HIDE DEF a
    <3> QED BY <2>1, <2>2, <2>3, DifferIs
  <2> QED BY <1>10, <1>11, <2>1, <2>4
<1>13. CASE x = p + n
  <2>1. k = n /\ ret = 0
    BY <1>2, <1>7, <1>8, <1>13
  <2>2. Strs!Agrees(ret, t, u)
    BY <1>8, <1>10, <1>11, <1>12, <2>1, AgreesIs, SMTT(40)
  <2> QED BY <2>2 DEF ret, t, u
<1>14. CASE x # p + n
  <2>1. k < n /\ k + 1 \in 1 .. n /\ (p + (k + 1)) - 1 = x /\ (q + (k + 1)) - 1 = q + k
    BY <1>8, <1>9, <1>14
  <2>2. t[k + 1] = m[x] /\ u[k + 1] = m[q + k]
    BY <1>10, <1>11, <2>1
  <2>3. ret = t[k + 1] - u[k + 1] /\ t[k + 1] # u[k + 1]
    BY <1>2, <1>9, <1>14, <2>2
  <2>4. t[k + 1] \in Nat /\ u[k + 1] \in Nat
    BY <1>10, <1>11, <2>1, SMTT(40)
  <2>5. ret \in Int
    BY <2>3, <2>4
  <2>6. Strs!Agrees(ret, t, u)
    BY <1>8, <1>10, <1>11, <1>12, <2>1, <2>3, <2>5, AgreesIs
  <2> QED BY <2>6 DEF ret, t, u
<1> QED BY <1>13, <1>14

-----------------------------------------------------------------------------
(* Copying.                                                                *)

\* The memory m after the bytes lo .. hi - 1 have got what stands at s for d.
Moved(m, d, s, lo, hi) ==
  [a \in DOMAIN m |-> IF lo <= a /\ a < hi THEN m[s + (a - d)] ELSE m[a]]

\* The bytes lo .. hi - 1 have their sources in the memory.
Fits(d, s, lo, hi) == \A a \in Addr : lo <= a /\ a < hi => s + (a - d) \in Addr

LEMMA MovedIs ==
  ASSUME NEW m \in Mem, NEW d \in Nat, NEW s \in Nat, NEW lo \in Nat, NEW hi \in Nat, Fits(d, s, lo, hi)
  PROVE  /\ Moved(m, d, s, lo, hi) \in Mem
         /\ \A a \in Addr : Moved(m, d, s, lo, hi)[a] = IF lo <= a /\ a < hi THEN m[s + (a - d)] ELSE m[a]
<1>1. Moved(m, d, s, lo, hi) = [a \in Addr |-> IF lo <= a /\ a < hi THEN m[s + (a - d)] ELSE m[a]]
  BY AddrIs DEF Moved
<1>2. ASSUME NEW a \in Addr PROVE (IF lo <= a /\ a < hi THEN m[s + (a - d)] ELSE m[a]) \in Nat
  BY AddrIs DEF Fits
<1> QED BY <1>1, <1>2 DEF Mem

LEMMA MovedNone ==
  ASSUME NEW m \in Mem, NEW d \in Nat, NEW s \in Nat, NEW lo \in Nat
  PROVE  Moved(m, d, s, lo, lo) = m
<1>1. \A a \in Addr : ~(lo <= a /\ a < lo)
  BY AddrIs
<1>2. DOMAIN m = Addr /\ m = [a \in Addr |-> m[a]]
  BY AddrIs DEF Mem
<1>3. Moved(m, d, s, lo, lo) = [a \in Addr |-> IF lo <= a /\ a < lo THEN m[s + (a - d)] ELSE m[a]]
  BY <1>2 DEF Moved
<1>4. [a \in Addr |-> IF lo <= a /\ a < lo THEN m[s + (a - d)] ELSE m[a]] = [a \in Addr |-> m[a]]
  BY <1>1
<1> QED BY <1>2, <1>3, <1>4, Zenon

\* One byte x more, that comes from a place that was not written yet.
LEMMA MovedMore ==
  ASSUME NEW m \in Mem, NEW d \in Nat, NEW s \in Nat, NEW lo \in Nat, NEW hi \in Nat, Fits(d, s, lo, hi),
         NEW x \in Addr, NEW y \in Addr, y = s + (x - d), ~(lo <= y /\ y < hi),
         NEW l \in Nat, NEW h \in Nat,
         \/ x = hi /\ l = lo /\ h = hi + 1 /\ lo <= hi
         \/ lo = x + 1 /\ l = x /\ h = hi /\ lo <= hi
  PROVE  [Moved(m, d, s, lo, hi) EXCEPT ![x] = Moved(m, d, s, lo, hi)[y]] = Moved(m, d, s, l, h)
<1> DEFINE g == Moved(m, d, s, lo, hi)
           g2 == Moved(m, d, s, l, h)
<1>1. g \in Mem /\ \A a \in Addr : g[a] = IF lo <= a /\ a < hi THEN m[s + (a - d)] ELSE m[a]
  BY MovedIs
<1>2. \A a \in Addr : l <= a /\ a < h <=> a = x \/ (lo <= a /\ a < hi)
  BY AddrIs
<1>3. Fits(d, s, l, h)
  BY <1>2 DEF Fits
<1>4. g2 \in Mem /\ \A a \in Addr : g2[a] = IF l <= a /\ a < h THEN m[s + (a - d)] ELSE m[a]
  BY <1>3, MovedIs
<1>5. g[y] = m[y]
  BY <1>1
<1> HIDE DEF g, g2
<1>6. [g EXCEPT ![x] = g[y]] \in Mem
  BY <1>1, AddrIs DEF Mem
<1>7. ASSUME NEW a \in Addr PROVE [g EXCEPT ![x] = g[y]][a] = g2[a]
  <2>1. CASE a = x
    <3>1. [g EXCEPT ![x] = g[y]][a] = g[y]
      BY <1>1, <2>1 DEF Mem
    <3>2. g2[a] = m[y]
      BY <1>2, <1>4, <2>1
    <3> QED BY <1>5, <3>1, <3>2
  <2>2. CASE a # x
    <3>1. [g EXCEPT ![x] = g[y]][a] = g[a]
      BY <1>1, <2>2 DEF Mem
    <3>2. g2[a] = g[a]
      BY <1>1, <1>2, <1>4, <2>2
    <3> QED BY <3>1, <3>2
  <2> QED BY <2>1, <2>2
<1>8. [g EXCEPT ![x] = g[y]] = g2
  BY <1>4, <1>6, <1>7 DEF Mem
<1> QED BY <1>8 DEF g, g2

\* The source and the target lie in the memory, and no byte is read behind its
\* being written.
Forwards(d, s, n) == d <= s \/ s + n <= d

IsForward(f, m, d, s, n) ==
  f = [k \in 0 .. n |-> IF k = 0 THEN m ELSE [f[k - 1] EXCEPT ![d + k - 1] = f[k - 1][s + k - 1]]]

LEMMA ForwardStep ==
  ASSUME NEW m \in Mem, NEW d \in Nat, NEW s \in Nat, NEW n \in Nat, Strs!Inside(d, n), Strs!Inside(s, n),
         Forwards(d, s, n), NEW k \in 0 .. n, k # 0
  PROVE  [Moved(m, d, s, d, d + (k - 1)) EXCEPT ![d + k - 1] = Moved(m, d, s, d, d + (k - 1))[s + k - 1]] = Moved(m, d, s, d, d + k)
<1> DEFINE hi == d + (k - 1)
           x == d + k - 1
           y == s + k - 1
<1>1. hi \in Nat /\ x = hi /\ d <= hi /\ x \in Addr /\ y \in Addr /\ y = s + (x - d) /\ d + k \in Nat /\ d + k = hi + 1
  BY AddrIs DEF Strs!Inside
<1>2. Fits(d, s, d, hi)
  BY AddrIs DEF Strs!Inside, Fits
<1>3. ~(d <= y /\ y < hi)
  BY DEF Forwards
<1>4. \E h \in Nat : h = d + k
  BY <1>1
<1> HIDE DEF hi, x, y
<1>5. [Moved(m, d, s, d, hi) EXCEPT ![x] = Moved(m, d, s, d, hi)[y]] = Moved(m, d, s, d, d + k)
  BY <1>1, <1>2, <1>3, MovedMore
<1> QED BY <1>5, Zenon DEF hi, x, y

LEMMA ForwardIs ==
  ASSUME NEW m \in Mem, NEW d \in Nat, NEW s \in Nat, NEW n \in Nat, Strs!Inside(d, n), Strs!Inside(s, n), Forwards(d, s, n)
  PROVE  Strs!Forward(m, d, s, n) = Moved(m, d, s, d, d + n)
<1> DEFINE g == [k \in 0 .. n |-> Moved(m, d, s, d, d + k)]
           f == CHOOSE h : IsForward(h, m, d, s, n)
<1>1. \A k \in 0 .. n : g[k] = Moved(m, d, s, d, d + k)
  OBVIOUS
<1>2. Moved(m, d, s, d, d + 0) = m
  <2>1. d + 0 = d
    OBVIOUS
  <2> QED BY <2>1, MovedNone
<1>3. ASSUME NEW k \in 0 .. n
      PROVE  g[k] = IF k = 0 THEN m ELSE [g[k - 1] EXCEPT ![d + k - 1] = g[k - 1][s + k - 1]]
  <2> HIDE DEF g
  <2>1. CASE k = 0
    BY <1>1, <1>2, <2>1
  <2>2. CASE k # 0
    <3>1. k - 1 \in 0 .. n
      BY <2>2
    <3>2. g[k - 1] = Moved(m, d, s, d, d + (k - 1))
      BY <1>1, <3>1
    <3>3. [Moved(m, d, s, d, d + (k - 1)) EXCEPT ![d + k - 1] = Moved(m, d, s, d, d + (k - 1))[s + k - 1]] = Moved(m, d, s, d, d + k)
      BY <2>2, ForwardStep
    <3>4. g[k] = Moved(m, d, s, d, d + k)
      BY <1>1
    <3> QED BY <2>2, <3>2, <3>3, <3>4, Zenon
  <2> QED BY <2>1, <2>2
<1>4. g = [k \in 0 .. n |-> g[k]]
  OBVIOUS
<1>5. IsForward(g, m, d, s, n)
  <2> HIDE DEF g
  <2>1. [k \in 0 .. n |-> g[k]] = [k \in 0 .. n |-> IF k = 0 THEN m ELSE [g[k - 1] EXCEPT ![d + k - 1] = g[k - 1][s + k - 1]]]
    BY <1>3, Zenon
  <2> QED BY <1>4, <2>1, Zenon DEF IsForward
<1> HIDE DEF g
<1>6. IsForward(f, m, d, s, n)
  BY <1>5, Zenon
<1>7. Strs!Forward(m, d, s, n) = f[n]
  BY Zenon DEF Strs!Forward, IsForward
<1> HIDE DEF f
<1>8. ASSUME NEW k \in 0 .. n PROVE f[k] = IF k = 0 THEN m ELSE [f[k - 1] EXCEPT ![d + k - 1] = f[k - 1][s + k - 1]]
  BY <1>6, Zenon DEF IsForward
<1> DEFINE Bad == {k \in 0 .. n : f[k] # Moved(m, d, s, d, d + k)}
<1>9. ASSUME Bad # {} PROVE FALSE
  <2>1. PICK k \in Bad : \A j \in Bad : k <= j
    <3>1. Bad \in SUBSET Nat
      OBVIOUS
    <3> HIDE DEF Bad
    <3> QED BY <1>9, <3>1, Smallest
  <2>2. k \in 0 .. n /\ f[k] # Moved(m, d, s, d, d + k)
    BY <2>1
  <2>3. k # 0
    BY <1>2, <1>8, <2>2
  <2>4. k - 1 \in 0 .. n /\ k - 1 \notin Bad
    BY <2>1, <2>2, <2>3
  <2>5. f[k - 1] = Moved(m, d, s, d, d + (k - 1))
    BY <2>4
  <2>6. f[k] = [f[k - 1] EXCEPT ![d + k - 1] = f[k - 1][s + k - 1]]
    BY <1>8, <2>2, <2>3, Zenon
  <2>7. [Moved(m, d, s, d, d + (k - 1)) EXCEPT ![d + k - 1] = Moved(m, d, s, d, d + (k - 1))[s + k - 1]] = Moved(m, d, s, d, d + k)
    BY <2>2, <2>3, ForwardStep
  <2> QED BY <2>2, <2>5, <2>6, <2>7, Zenon
<1>10. n \in 0 .. n /\ n \notin Bad
  BY <1>9
<1> QED BY <1>7, <1>10

IsBackward(f, m, d, s, n) ==
  f = [k \in 0 .. n |-> IF k = 0 THEN m ELSE [f[k - 1] EXCEPT ![d + n - k] = f[k - 1][s + n - k]]]

LEMMA BackwardStep ==
  ASSUME NEW m \in Mem, NEW d \in Nat, NEW s \in Nat, NEW n \in Nat, Strs!Inside(d, n), Strs!Inside(s, n),
         (s < d), NEW k \in 0 .. n, k # 0
  PROVE  [Moved(m, d, s, d + (n - (k - 1)), d + n) EXCEPT ![d + n - k] = Moved(m, d, s, d + (n - (k - 1)), d + n)[s + n - k]] = Moved(m, d, s, d + (n - k), d + n)
<1> DEFINE lo == d + (n - (k - 1))
           hi == d + n
           x == d + n - k
           y == s + n - k
           l == d + (n - k)
<1>1. /\ lo \in Nat /\ hi \in Nat /\ x \in Addr /\ y \in Addr /\ y = s + (x - d) /\ l \in Nat
      /\ lo = x + 1 /\ l = x /\ lo <= hi
  BY AddrIs DEF Strs!Inside
<1>2. Fits(d, s, lo, hi)
  BY AddrIs DEF Strs!Inside, Fits
<1>3. ~(lo <= y /\ y < hi)
  OBVIOUS
<1> HIDE DEF lo, hi, x, y, l
<1>5. [Moved(m, d, s, lo, hi) EXCEPT ![x] = Moved(m, d, s, lo, hi)[y]] = Moved(m, d, s, l, hi)
  BY <1>1, <1>2, <1>3, MovedMore
<1> QED BY <1>5, Zenon DEF lo, hi, x, y, l

LEMMA BackwardIs ==
  ASSUME NEW m \in Mem, NEW d \in Nat, NEW s \in Nat, NEW n \in Nat, Strs!Inside(d, n), Strs!Inside(s, n), (s < d)
  PROVE  Strs!Backward(m, d, s, n) = Moved(m, d, s, d, d + n)
<1> DEFINE g == [k \in 0 .. n |-> Moved(m, d, s, d + (n - k), d + n)]
           f == CHOOSE h : IsBackward(h, m, d, s, n)
<1>1. \A k \in 0 .. n : g[k] = Moved(m, d, s, d + (n - k), d + n)
  OBVIOUS
<1>2. Moved(m, d, s, d + (n - 0), d + n) = m
  <2>1. d + (n - 0) = d + n /\ d + n \in Nat
    OBVIOUS
  <2> QED BY <2>1, MovedNone
<1>3. ASSUME NEW k \in 0 .. n
      PROVE  g[k] = IF k = 0 THEN m ELSE [g[k - 1] EXCEPT ![d + n - k] = g[k - 1][s + n - k]]
  <2> HIDE DEF g
  <2>1. CASE k = 0
    BY <1>1, <1>2, <2>1
  <2>2. CASE k # 0
    <3>1. k - 1 \in 0 .. n
      BY <2>2
    <3>2. g[k - 1] = Moved(m, d, s, d + (n - (k - 1)), d + n)
      BY <1>1, <3>1
    <3>3. [Moved(m, d, s, d + (n - (k - 1)), d + n) EXCEPT ![d + n - k] = Moved(m, d, s, d + (n - (k - 1)), d + n)[s + n - k]] = Moved(m, d, s, d + (n - k), d + n)
      BY <2>2, BackwardStep, SMTT(40)
    <3>4. g[k] = Moved(m, d, s, d + (n - k), d + n)
      BY <1>1
    <3> QED BY <2>2, <3>2, <3>3, <3>4, Zenon
  <2> QED BY <2>1, <2>2
<1>4. g = [k \in 0 .. n |-> g[k]]
  OBVIOUS
<1>5. IsBackward(g, m, d, s, n)
  <2> HIDE DEF g
  <2>1. [k \in 0 .. n |-> g[k]] = [k \in 0 .. n |-> IF k = 0 THEN m ELSE [g[k - 1] EXCEPT ![d + n - k] = g[k - 1][s + n - k]]]
    BY <1>3, Zenon
  <2> QED BY <1>4, <2>1, Zenon DEF IsBackward
<1> HIDE DEF g
<1>6. IsBackward(f, m, d, s, n)
  BY <1>5, Zenon
<1>7. Strs!Backward(m, d, s, n) = f[n]
  BY Zenon DEF Strs!Backward, IsBackward
<1> HIDE DEF f
<1>8. ASSUME NEW k \in 0 .. n PROVE f[k] = IF k = 0 THEN m ELSE [f[k - 1] EXCEPT ![d + n - k] = f[k - 1][s + n - k]]
  BY <1>6, Zenon DEF IsBackward
<1> DEFINE Bad == {k \in 0 .. n : f[k] # Moved(m, d, s, d + (n - k), d + n)}
<1>9. ASSUME Bad # {} PROVE FALSE
  <2>1. PICK k \in Bad : \A j \in Bad : k <= j
    <3>1. Bad \in SUBSET Nat
      OBVIOUS
    <3> HIDE DEF Bad
    <3> QED BY <1>9, <3>1, Smallest
  <2>2. k \in 0 .. n /\ f[k] # Moved(m, d, s, d + (n - k), d + n)
    BY <2>1
  <2>3. k # 0
    BY <1>2, <1>8, <2>2
  <2>4. k - 1 \in 0 .. n /\ k - 1 \notin Bad
    BY <2>1, <2>2, <2>3
  <2>5. f[k - 1] = Moved(m, d, s, d + (n - (k - 1)), d + n)
    BY <2>4
  <2>6. f[k] = [f[k - 1] EXCEPT ![d + n - k] = f[k - 1][s + n - k]]
    BY <1>8, <2>2, <2>3, Zenon
  <2>7. [Moved(m, d, s, d + (n - (k - 1)), d + n) EXCEPT ![d + n - k] = Moved(m, d, s, d + (n - (k - 1)), d + n)[s + n - k]] = Moved(m, d, s, d + (n - k), d + n)
    BY <2>2, <2>3, BackwardStep
  <2> QED BY <2>2, <2>5, <2>6, <2>7, Zenon
<1>10. n \in 0 .. n /\ n \notin Bad
  BY <1>9
<1>11. d + (n - n) = d
  OBVIOUS
<1> QED BY <1>7, <1>10, <1>11

LEMMA MemmoveIs ==
  ASSUME NEW m \in Mem, NEW d \in Nat, NEW s \in Nat, NEW n \in Nat, Strs!Inside(d, n), Strs!Inside(s, n)
  PROVE  Strs!memmove(m, d, s, n) = Moved(m, d, s, d, d + n)
<1>1. CASE s < d /\ d < s + n
  BY <1>1, BackwardIs DEF Strs!memmove, Strs!CopiesBack
<1>2. CASE ~(s < d /\ d < s + n)
  <2>1. Forwards(d, s, n)
    BY <1>2 DEF Forwards
  <2> QED BY <1>2, <2>1, ForwardIs DEF Strs!memmove, Strs!CopiesBack
<1> QED BY <1>1, <1>2

\* The rest of the memory is as it was.
Untouched(m2, m, a, k) == \A b \in Addr : b \notin a .. (a + k - 1) => m2[b] = m[b]

LEMMA MovedRest ==
  ASSUME NEW m \in Mem, NEW d \in Nat, NEW s \in Nat, NEW n \in Nat, Strs!Inside(d, n), Strs!Inside(s, n)
  PROVE  /\ Moved(m, d, s, d, d + n) \in Mem
         /\ \A j \in 0 .. (n - 1) : Moved(m, d, s, d, d + n)[d + j] = m[s + j] /\ d + j \in Addr /\ s + j \in Addr
         /\ \A b \in Addr : ~(d <= b /\ b < d + n) => Moved(m, d, s, d, d + n)[b] = m[b]
         /\ Untouched(Moved(m, d, s, d, d + n), m, d, n)
<1> DEFINE g == Moved(m, d, s, d, d + n)
<1>1. Fits(d, s, d, d + n)
  BY AddrIs DEF Strs!Inside, Fits
<1>2. d + n \in Nat
  OBVIOUS
<1>3. g \in Mem /\ \A a \in Addr : g[a] = IF d <= a /\ a < d + n THEN m[s + (a - d)] ELSE m[a]
  BY <1>1, <1>2, MovedIs
<1> HIDE DEF g
<1>4. ASSUME NEW j \in 0 .. (n - 1) PROVE g[d + j] = m[s + j] /\ d + j \in Addr /\ s + j \in Addr
  <2>1. d + j \in Addr /\ s + j \in Addr /\ d <= d + j /\ d + j < d + n /\ s + ((d + j) - d) = s + j
    BY AddrIs DEF Strs!Inside
  <2> QED BY <1>3, <2>1
<1>5. \A b \in Addr : ~(d <= b /\ b < d + n) => g[b] = m[b]
  BY <1>3
<1>6. \A b \in Addr : b \notin d .. (d + n - 1) => ~(d <= b /\ b < d + n)
  BY AddrIs
<1> QED BY <1>3, <1>4, <1>5, <1>6 DEF g, Untouched

LEMMA MemmoveRight ==
  ASSUME NEW m \in Mem, NEW p \in Nat, NEW q \in Nat, NEW n \in Nat, Strs!Inside(p, n), Strs!Inside(q, n),
         NEW m2, m2 = Strs!memmove(m, p, q, n)
  PROVE  Strs!Piece(m2, p, n) = Strs!Piece(m, q, n) /\ Untouched(m2, m, p, n)
<1>1. /\ \A j \in 0 .. (n - 1) : m2[p + j] = m[q + j]
      /\ Untouched(m2, m, p, n)
  <2>1. m2 = Moved(m, p, q, p, p + n)
    BY MemmoveIs
  <2>2. /\ Moved(m, p, q, p, p + n) \in Mem
        /\ \A j \in 0 .. (n - 1) : Moved(m, p, q, p, p + n)[p + j] = m[q + j] /\ p + j \in Addr /\ q + j \in Addr
        /\ \A b \in Addr : ~(p <= b /\ b < p + n) => Moved(m, p, q, p, p + n)[b] = m[b]
        /\ Untouched(Moved(m, p, q, p, p + n), m, p, n)
    BY MovedRest
  <2> QED BY <2>1, <2>2
<1>2. ASSUME NEW j \in 1 .. n PROVE m2[p + j - 1] = m[q + j - 1]
  <2>1. j - 1 \in 0 .. (n - 1)
    OBVIOUS
  <2> QED BY <1>1, <2>1
<1> QED BY <1>1, <1>2 DEF Strs!Piece

LEMMA MemsetIs ==
  ASSUME NEW m \in Mem, NEW p \in Nat, NEW n \in Nat, Strs!Inside(p, n), NEW c \in Nat,
         NEW m2, m2 = Strs!memset(m, p, c, n)
  PROVE  /\ m2 \in Mem
         /\ \A a \in Addr : m2[a] = IF p <= a /\ a < p + n THEN c ELSE m[a]
         /\ Untouched(m2, m, p, n)
<1>1. \A q \in Addr : q \in p .. (p + n - 1) <=> p <= q /\ q < p + n
  BY AddrIs
<1>2. m2 = [q \in Addr |-> IF q \in p .. (p + n - 1) THEN c ELSE m[q]]
  BY AddrIs DEF Strs!memset
<1>3. \A q \in Addr : m2[q] = IF q \in p .. (p + n - 1) THEN c ELSE m[q]
  BY <1>2
<1>4. \A q \in Addr : (IF q \in p .. (p + n - 1) THEN c ELSE m[q]) \in Nat
  BY AddrIs
<1>5. m2 \in Mem
  BY <1>2, <1>4 DEF Mem
<1> QED BY <1>1, <1>3, <1>5 DEF Untouched

LEMMA MemsetRight ==
  ASSUME NEW m \in Mem, NEW p \in Nat, NEW n \in Nat, Strs!Inside(p, n), NEW m2, m2 = Strs!memset(m, p, 1, n)
  PROVE  Strs!Piece(m2, p, n) = [j \in 1 .. n |-> 1] /\ Untouched(m2, m, p, n)
<1>1. \A a \in Addr : m2[a] = IF p <= a /\ a < p + n THEN 1 ELSE m[a]
  BY MemsetIs
<1>2. Untouched(m2, m, p, n)
  BY MemsetIs
<1>3. ASSUME NEW j \in 1 .. n PROVE m2[p + j - 1] = 1
  <2>1. p + j - 1 \in Addr /\ p <= p + j - 1 /\ p + j - 1 < p + n
    BY AddrIs DEF Strs!Inside
  <2> QED BY <1>1, <2>1
<1> QED BY <1>2, <1>3 DEF Strs!Piece

\* The string w stands at p, with its 0.
Holds(m, p, w) ==
  /\ m \in Mem /\ p \in Nat /\ w \in Seq(Nat)
  /\ p + Len(w) \in Addr /\ m[p + Len(w)] = 0
  /\ \A j \in 1 .. Len(w) : m[(p + j) - 1] = w[j] /\ w[j] # 0

LEMMA HoldsStr ==
  ASSUME NEW m, NEW p, NEW w, Holds(m, p, w)
  PROVE  Strs!Str(m, p) = w /\ Strs!strlen(m, p) = Len(w)
<1> DEFINE e == p + Len(w)
<1>0. /\ m \in Mem /\ p \in Nat /\ w \in Seq(Nat) /\ e \in Addr /\ m[e] = 0
      /\ \A j \in 1 .. Len(w) : m[(p + j) - 1] = w[j] /\ w[j] # 0
  BY DEF Holds
<1>1. Len(w) \in Nat /\ e \in Nat /\ e - p = Len(w) /\ p <= e /\ p \in Addr
  BY <1>0, AddrIs
<1>2. ASSUME NEW a \in Addr, p <= a, a < e PROVE m[a] # 0
  <2>1. (a - p) + 1 \in 1 .. Len(w) /\ (p + ((a - p) + 1)) - 1 = a
    BY <1>0, <1>1, <1>2, AddrIs
  <2> QED BY <1>0, <2>1
<1>3. EndIs(m, p, e)
  BY <1>0, <1>1, <1>2 DEF EndIs
<1> HIDE DEF e
<1>4. /\ Strs!Str(m, p) \in Seq(Nat) /\ Len(Strs!Str(m, p)) = e - p /\ Strs!strlen(m, p) = e - p
      /\ \A j \in 1 .. (e - p) : Strs!Str(m, p)[j] = m[(p + j) - 1]
  BY <1>0, <1>3, StrIs
<1>5. Len(Strs!Str(m, p)) = Len(w) /\ \A j \in 1 .. Len(w) : Strs!Str(m, p)[j] = w[j]
  BY <1>0, <1>1, <1>4
<1> QED BY <1>0, <1>1, <1>4, <1>5, SeqEqual

LEMMA StrHolds ==
  ASSUME NEW m, Closed(m), NEW p \in Addr
  PROVE  Holds(m, p, Strs!Str(m, p)) /\ Len(Strs!Str(m, p)) = Strs!strlen(m, p)
<1> DEFINE k == Strs!strlen(m, p)
           e == p + k
           w == Strs!Str(m, p)
<1>1. m \in Mem /\ EndIs(m, p, e) /\ k \in Nat /\ p \in Nat
  BY ClosedEnds, AddrIs DEF Closed
<1>2. e \in Addr /\ m[e] = 0
  BY <1>1 DEF EndIs
<1>3. e - p = k
  BY <1>1
<1> HIDE DEF e
<1>4. /\ w \in Seq(Nat) /\ Len(w) = e - p
      /\ \A j \in 1 .. (e - p) : w[j] = m[(p + j) - 1] /\ m[(p + j) - 1] # 0
  BY <1>1, StrIs
<1> HIDE DEF k, w
<1>5. Len(w) = k /\ \A j \in 1 .. k : w[j] = m[(p + j) - 1] /\ m[(p + j) - 1] # 0
  BY <1>3, <1>4
<1>6. p + Len(w) \in Addr /\ m[p + Len(w)] = 0
  BY <1>2, <1>5 DEF e
<1>7. Holds(m, p, w)
  BY <1>1, <1>4, <1>5, <1>6 DEF Holds
<1> QED BY <1>5, <1>7 DEF k, w

\* m2 is m but that the n bytes from q stand at d.
Copied(m2, m, d, q, n) ==
  /\ m2 \in Mem /\ m \in Mem /\ d \in Nat /\ q \in Nat /\ n \in Nat
  /\ \A j \in 0 .. (n - 1) : m2[d + j] = m[q + j] /\ d + j \in Addr /\ q + j \in Addr
  /\ \A b \in Addr : ~(d <= b /\ b < d + n) => m2[b] = m[b]

\* The n bytes at d may be copied forwards from q.
MayCopy(m, d, q, n) ==
  /\ m \in Mem /\ d \in Nat /\ q \in Nat /\ n \in Nat
  /\ d + n <= MemSize /\ q + n <= MemSize /\ Forwards(d, q, n)

LEMMA ForwardCopies ==
  ASSUME NEW m, NEW d, NEW q, NEW n, MayCopy(m, d, q, n)
  PROVE  Copied(Strs!Forward(m, d, q, n), m, d, q, n)
<1>1. /\ m \in Mem /\ d \in Nat /\ q \in Nat /\ n \in Nat
      /\ Strs!Inside(d, n) /\ Strs!Inside(q, n) /\ Forwards(d, q, n)
  BY DEF MayCopy, Strs!Inside
<1>2. Strs!Forward(m, d, q, n) = Moved(m, d, q, d, d + n)
  BY <1>1, ForwardIs
<1>3. /\ Moved(m, d, q, d, d + n) \in Mem
      /\ \A j \in 0 .. (n - 1) : Moved(m, d, q, d, d + n)[d + j] = m[q + j] /\ d + j \in Addr /\ q + j \in Addr
      /\ \A b \in Addr : ~(d <= b /\ b < d + n) => Moved(m, d, q, d, d + n)[b] = m[b]
      /\ Untouched(Moved(m, d, q, d, d + n), m, d, n)
  BY <1>1, MovedRest
<1>4. /\ Strs!Forward(m, d, q, n) \in Mem
      /\ \A j \in 0 .. (n - 1) : Strs!Forward(m, d, q, n)[d + j] = m[q + j] /\ d + j \in Addr /\ q + j \in Addr
      /\ \A b \in Addr : ~(d <= b /\ b < d + n) => Strs!Forward(m, d, q, n)[b] = m[b]
  BY <1>2, <1>3, Zenon
<1> QED BY <1>1, <1>4, Zenon DEF Copied

\* With a string its characters are copied, and with one byte more its end.
LEMMA CopiedStr ==
  ASSUME NEW m2, NEW m, NEW d, NEW q, NEW n, NEW w, Holds(m, q, w), n = Len(w) + 1, Copied(m2, m, d, q, n)
  PROVE  Holds(m2, d, w)
<1> DEFINE k == Len(w)
<1>0. Len(w) \in 0 .. (n - 1) /\ n - 1 = Len(w)
  BY DEF Holds
<1>1. /\ m2 \in Mem /\ m \in Mem /\ d \in Nat /\ q \in Nat
      /\ \A j \in 0 .. (n - 1) : m2[d + j] = m[q + j] /\ d + j \in Addr /\ q + j \in Addr
  BY DEF Copied
<1>2. /\ w \in Seq(Nat) /\ k \in Nat /\ m[q + k] = 0
      /\ \A j \in 1 .. k : m[(q + j) - 1] = w[j] /\ w[j] # 0
  BY DEF Holds
<1>3. d + k \in Addr /\ m2[d + k] = 0
  BY <1>0, <1>1, <1>2, Zenon
<1> HIDE DEF k
<1>4. ASSUME NEW j \in 1 .. k PROVE m2[(d + j) - 1] = w[j] /\ w[j] # 0
  <2>0. n - 1 = k
    BY <1>0 DEF k
  <2>1. j - 1 \in 0 .. (n - 1) /\ d + (j - 1) = (d + j) - 1 /\ q + (j - 1) = (q + j) - 1
    BY <1>1, <1>2, <2>0
  <2>2. m2[d + (j - 1)] = m[q + (j - 1)]
    BY <1>1, <2>1
  <2> QED BY <1>2, <2>1, <2>2
<1> QED BY <1>1, <1>2, <1>3, <1>4 DEF Holds, k

\* The first n bytes of a string, or all of it with its end.
LEMMA CopyRest ==
  ASSUME NEW m2, NEW m, NEW d, NEW q, NEW n, Copied(m2, m, d, q, n)
  PROVE  Untouched(m2, m, d, n) /\ m2 \in Mem
<1>1. \A b \in Addr : b \notin d .. (d + n - 1) => ~(d <= b /\ b < d + n)
  BY AddrIs DEF Copied
<1> QED BY <1>1 DEF Copied, Untouched

LEMMA StrcpyRight ==
  ASSUME NEW m, NEW p, NEW q, NEW w, Holds(m, q, w), MayCopy(m, p, q, Len(w) + 1)
  PROVE  /\ Copied(Strs!strcpy(m, p, q), m, p, q, Len(w) + 1)
         /\ Holds(Strs!strcpy(m, p, q), p, w)
         /\ Untouched(Strs!strcpy(m, p, q), m, p, Len(w) + 1)
<1> DEFINE m2 == Strs!strcpy(m, p, q)
<1>1. Strs!strlen(m, q) = Len(w)
  BY HoldsStr, Zenon
<1>2. m2 = Strs!Forward(m, p, q, Len(w) + 1)
  BY <1>1, Zenon DEF Strs!strcpy
<1>3. Copied(m2, m, p, q, Len(w) + 1)
  BY <1>2, ForwardCopies, Zenon
<1> HIDE DEF m2
<1>4. Holds(m2, p, w)
  BY <1>3, CopiedStr, Zenon
<1>5. Untouched(m2, m, p, Len(w) + 1)
  BY <1>3, CopyRest, Zenon
<1> QED BY <1>3, <1>4, <1>5, Zenon DEF m2

\* m2 has the bytes of m below end.
Below(m2, m, end) == \A b \in Addr : b < end => m2[b] = m[b]

\* end is where the characters of v end that stand at p.
Behind(end, p, v) == end = p + Len(v)

\* The string v at p, and w right behind it.
LEMMA CatHolds ==
  ASSUME NEW m2, NEW m, NEW p, NEW v, NEW end, NEW w,
         Holds(m, p, v), Behind(end, p, v), Holds(m2, end, w), Below(m2, m, end)
  PROVE  Holds(m2, p, v \o w) /\ Len(v \o w) = Len(v) + Len(w)
<1> DEFINE h == Len(v)
           k == Len(w)
           x == v \o w
<1>1. /\ p \in Nat /\ v \in Seq(Nat) /\ h \in Nat /\ p + h \in Addr
      /\ \A j \in 1 .. h : m[(p + j) - 1] = v[j] /\ v[j] # 0
  BY DEF Holds
<1>2. /\ m2 \in Mem /\ w \in Seq(Nat) /\ k \in Nat /\ end + k \in Addr /\ m2[end + k] = 0
      /\ \A j \in 1 .. k : m2[(end + j) - 1] = w[j] /\ w[j] # 0
  BY DEF Holds
<1>3. x \in Seq(Nat) /\ Len(x) = h + k /\ \A j \in 1 .. (h + k) : x[j] = IF j <= h THEN v[j] ELSE w[j - h]
  <2>1. v \in Seq(Nat) /\ w \in Seq(Nat)
    BY <1>1, <1>2
  <2> QED BY <2>1, ConcatProperties
<1>4. end - p = h /\ end \in Nat
  BY <1>1 DEF Behind
<1> HIDE DEF h, k, x
<1>5. p + Len(x) \in Addr /\ m2[p + Len(x)] = 0
  <2>1. p + Len(x) = end + k
    BY <1>1, <1>2, <1>3, <1>4
  <2> QED BY <1>2, <2>1
<1>6. ASSUME NEW j \in 1 .. (h + k) PROVE m2[(p + j) - 1] = x[j] /\ x[j] # 0
  <2>1. CASE j <= h
    <3>1. j \in 1 .. h /\ (p + j) - 1 < end /\ (p + j) - 1 \in Addr
      BY <1>1, <1>4, <2>1, AddrIs
    <3>2. m2[(p + j) - 1] = m[(p + j) - 1]
      BY <3>1 DEF Below
    <3> QED BY <1>1, <1>3, <2>1, <3>1, <3>2
  <2>2. CASE ~(j <= h)
    <3>1. j - h \in 1 .. k /\ (end + (j - h)) - 1 = (p + j) - 1
      BY <1>1, <1>2, <1>4, <2>2
    <3>2. m2[(end + (j - h)) - 1] = w[j - h] /\ w[j - h] # 0
      BY <1>2, <3>1
    <3>3. x[j] = w[j - h]
      BY <1>3, <2>2
    <3> QED BY <3>1, <3>2, <3>3
  <2> QED BY <2>1, <2>2
<1>7. \A j \in 1 .. Len(x) : m2[(p + j) - 1] = x[j] /\ x[j] # 0
  BY <1>3, <1>6
<1>8. Holds(m2, p, x)
  BY <1>1, <1>2, <1>3, <1>5, <1>7 DEF Holds
<1> QED BY <1>3, <1>8 DEF h, k, x

LEMMA CopyBelow ==
  ASSUME NEW m2, NEW m, NEW end, NEW q, NEW n, Copied(m2, m, end, q, n)
  PROVE  Below(m2, m, end)
BY AddrIs DEF Copied, Below

\* A change at end, behind p.
LEMMA RestBefore ==
  ASSUME NEW m2, NEW m, NEW p \in Nat, NEW h \in Nat, NEW n \in Nat, Untouched(m2, m, p + h, n)
  PROVE  Untouched(m2, m, p, h + n)
<1>1. \A b \in Addr : b \notin p .. ((p + (h + n)) - 1) => b \notin (p + h) .. (((p + h) + n) - 1)
  BY AddrIs
<1>2. \A b \in Addr : b \notin (p + h) .. (((p + h) + n) - 1) => m2[b] = m[b]
  BY DEF Untouched
<1>3. \A b \in Addr : b \notin p .. ((p + (h + n)) - 1) => m2[b] = m[b]
  BY <1>1, <1>2, Zenon
<1> QED BY <1>3 DEF Untouched

LEMMA StrcatRight ==
  ASSUME NEW m, NEW p, NEW q, NEW v, NEW w, Holds(m, p, v), Holds(m, q, w), MayCopy(m, p + Len(v), q, Len(w) + 1)
  PROVE  /\ Holds(Strs!strcat(m, p, q), p, v \o w)
         /\ Untouched(Strs!strcat(m, p, q), m, p, Len(v \o w) + 1)
<1> DEFINE m2 == Strs!strcat(m, p, q)
           end == p + Len(v)
<1>1. Strs!strlen(m, p) = Len(v)
  BY HoldsStr, Zenon
<1>2. m2 = Strs!strcpy(m, end, q)
  BY <1>1, Zenon DEF Strs!strcat
<1>3. Copied(m2, m, end, q, Len(w) + 1) /\ Holds(m2, end, w) /\ Untouched(m2, m, end, Len(w) + 1)
  BY <1>2, StrcpyRight, Zenon
<1> HIDE DEF m2
<1>4. Below(m2, m, end)
  BY <1>3, CopyBelow, Zenon
<1>5. Holds(m2, p, v \o w) /\ Len(v \o w) = Len(v) + Len(w)
  <2>1. Behind(end, p, v)
    BY Zenon DEF Behind
  <2> HIDE DEF end
  <2>2. Holds(m, p, v) /\ Holds(m2, end, w) /\ Below(m2, m, end)
    BY <1>3, <1>4
  <2> QED BY <2>1, <2>2, CatHolds
<1>6. p \in Nat /\ Len(v) \in Nat /\ Len(w) \in Nat /\ Len(w) + 1 \in Nat
  BY DEF Holds
<1>7. Untouched(m2, m, p, Len(v) + (Len(w) + 1))
  BY <1>3, <1>6, RestBefore, Zenon
<1>8. Len(v) + (Len(w) + 1) = Len(v \o w) + 1
  BY <1>5, <1>6
<1>9. Untouched(m2, m, p, Len(v \o w) + 1)
  BY <1>7, <1>8, Zenon
<1> QED BY <1>5, <1>9, Zenon DEF m2

\* The characters c stand at p, with or without an end.
HoldsPart(m, p, c) ==
  /\ m \in Mem /\ p \in Nat /\ c \in Seq(Nat)
  /\ \A j \in 1 .. Len(c) : m[(p + j) - 1] = c[j] /\ c[j] # 0

\* c is w cut to n characters.
CutTo(c, w, n) ==
  /\ c \in Seq(Nat) /\ w \in Seq(Nat) /\ n \in Nat
  /\ Len(c) = IF n < Len(w) THEN n ELSE Len(w)
  /\ \A j \in 1 .. Len(c) : c[j] = w[j]

LEMMA CutStr ==
  ASSUME NEW m, Closed(m), NEW q \in Addr, NEW n \in Nat
  PROVE  /\ CutTo(Strs!Cut(Strs!Str(m, q), n), Strs!Str(m, q), n)
         /\ Strs!strnlen(m, q, n) = Len(Strs!Cut(Strs!Str(m, q), n))
<1> DEFINE w == Strs!Str(m, q)
           k == Strs!strlen(m, q)
<1>1. w \in Seq(Nat) /\ Len(w) = k
  BY StrHolds DEF Holds
<1>2. Strs!strnlen(m, q, n) = IF n < k THEN n ELSE k
  BY StrnlenIs
<1> HIDE DEF w, k
<1>3. /\ Strs!Cut(w, n) \in Seq(Nat)
      /\ Len(Strs!Cut(w, n)) = IF n < Len(w) THEN n ELSE Len(w)
      /\ \A j \in 1 .. Len(Strs!Cut(w, n)) : Strs!Cut(w, n)[j] = w[j]
  BY <1>1, CutIs
<1>4. Strs!strnlen(m, q, n) = Len(Strs!Cut(w, n))
  <2>1. Len(Strs!Cut(w, n)) = IF n < Len(w) THEN n ELSE Len(w)
    BY <1>3
  <2> QED BY <1>1, <1>2, <2>1
<1>5. CutTo(Strs!Cut(w, n), w, n)
  BY <1>1, <1>3 DEF CutTo
<1> QED BY <1>4, <1>5, Zenon DEF w

LEMMA CutPart ==
  ASSUME NEW m, NEW q, NEW w, NEW c, NEW n, Holds(m, q, w), CutTo(c, w, n)
  PROVE  HoldsPart(m, q, c) /\ Len(c) \in Nat /\ Len(c) <= n /\ Len(c) <= Len(w) /\ n \in Nat /\ Len(w) \in Nat
<1>1. /\ m \in Mem /\ q \in Nat /\ w \in Seq(Nat)
      /\ \A j \in 1 .. Len(w) : m[(q + j) - 1] = w[j] /\ w[j] # 0
  BY DEF Holds
<1>2. /\ c \in Seq(Nat) /\ n \in Nat /\ Len(c) = IF n < Len(w) THEN n ELSE Len(w)
      /\ \A j \in 1 .. Len(c) : c[j] = w[j]
  BY DEF CutTo
<1>3. Len(c) \in Nat /\ Len(w) \in Nat /\ Len(c) <= n /\ Len(c) <= Len(w)
  BY <1>1, <1>2
<1>4. \A j \in 1 .. Len(c) : j \in 1 .. Len(w)
  BY <1>3
<1>5. \A j \in 1 .. Len(c) : m[(q + j) - 1] = c[j] /\ c[j] # 0
  BY <1>1, <1>2, <1>4
<1> QED BY <1>1, <1>2, <1>3, <1>5, Zenon DEF HoldsPart

LEMMA CopiedPart ==
  ASSUME NEW m2, NEW m, NEW d, NEW q, NEW n, NEW c, HoldsPart(m, q, c), Len(c) <= n, Copied(m2, m, d, q, n)
  PROVE  HoldsPart(m2, d, c)
<1>1. /\ m2 \in Mem /\ m \in Mem /\ d \in Nat /\ q \in Nat /\ n \in Nat
      /\ \A j \in 0 .. (n - 1) : m2[d + j] = m[q + j] /\ d + j \in Addr /\ q + j \in Addr
  BY DEF Copied
<1>2. /\ c \in Seq(Nat) /\ Len(c) \in Nat
      /\ \A j \in 1 .. Len(c) : m[(q + j) - 1] = c[j] /\ c[j] # 0
  BY DEF HoldsPart
<1>4. ASSUME NEW j \in 1 .. Len(c) PROVE m2[(d + j) - 1] = c[j] /\ c[j] # 0
  <2>1. j - 1 \in 0 .. (n - 1) /\ d + (j - 1) = (d + j) - 1 /\ q + (j - 1) = (q + j) - 1
    BY <1>1, <1>2
  <2>2. m2[d + (j - 1)] = m[q + (j - 1)]
    BY <1>1, <2>1
  <2> QED BY <1>2, <2>1, <2>2
<1> QED BY <1>1, <1>2, <1>4 DEF HoldsPart

\* m2 is f, and 0 from a to before b.
Zeroed(m2, f, a, b) ==
  /\ m2 \in Mem /\ f \in Mem /\ a \in Nat /\ b \in Nat
  /\ \A x \in Addr : m2[x] = IF a <= x /\ x < b THEN 0 ELSE f[x]

Zeros(n) == [j \in 1 .. n |-> 0]

\* c stands at p, and m2 is f but for zeros behind c, up to n characters.
ZeroFilled(m2, f, p, c, n) ==
  /\ HoldsPart(f, p, c) /\ n \in Nat /\ Len(c) <= n /\ p + n <= MemSize
  /\ Zeroed(m2, f, p + Len(c), p + n)

Padded(m2, p, c, n) == Strs!Piece(m2, p, n) = c \o Zeros(n - Len(c))

LEMMA ZerosBehind ==
  ASSUME NEW m2, NEW f, NEW p, NEW c, NEW n, ZeroFilled(m2, f, p, c, n)
  PROVE  Padded(m2, p, c, n)
<1> DEFINE k == Len(c)
           z == Zeros(n - k)
           x == c \o z
<1>1. /\ p \in Nat /\ c \in Seq(Nat) /\ k \in Nat /\ k <= n /\ n \in Nat /\ p + n <= MemSize
      /\ \A j \in 1 .. k : f[(p + j) - 1] = c[j]
  BY DEF HoldsPart, ZeroFilled
<1>2. /\ m2 \in Mem
      /\ \A y \in Addr : m2[y] = IF p + k <= y /\ y < p + n THEN 0 ELSE f[y]
  BY DEF Zeroed, ZeroFilled
<1>3. z \in Seq(Nat) /\ Len(z) = n - k /\ \A j \in 1 .. (n - k) : z[j] = 0
  BY <1>1 DEF Zeros
<1> HIDE DEF k, z
<1>4. x \in Seq(Nat) /\ Len(x) = Len(c) + Len(z) /\ \A j \in 1 .. (Len(c) + Len(z)) : x[j] = IF j <= Len(c) THEN c[j] ELSE z[j - Len(c)]
  <2>1. c \in Seq(Nat) /\ z \in Seq(Nat)
    BY <1>1, <1>3
  <2> QED BY <2>1, ConcatProperties
<1> HIDE DEF x
<1>5. Len(x) = n /\ \A j \in 1 .. n : x[j] = IF j <= k THEN c[j] ELSE z[j - k]
  <2>1. Len(c) = k
    BY DEF k
  <2>2. Len(c) + Len(z) = n
    BY <1>1, <1>3, <2>1
  <2> QED BY <1>4, <2>1, <2>2, Zenon
<1>6. ASSUME NEW j \in 1 .. n PROVE m2[(p + j) - 1] = x[j] /\ (p + j) - 1 \in Addr
  <2>1. (p + j) - 1 \in Addr
    BY <1>1, AddrIs
  <2>2. CASE j <= k
    <3>1. ~(p + k <= (p + j) - 1) /\ j \in 1 .. k
      BY <1>1, <2>2
    <3>2. m2[(p + j) - 1] = f[(p + j) - 1]
      BY <1>2, <2>1, <3>1
    <3>3. f[(p + j) - 1] = c[j] /\ x[j] = c[j]
      BY <1>1, <1>5, <2>2, <3>1
    <3> QED BY <2>1, <3>2, <3>3
  <2>3. CASE ~(j <= k)
    <3>1. p + k <= (p + j) - 1 /\ (p + j) - 1 < p + n /\ j - k \in 1 .. (n - k)
      BY <1>1, <2>3
    <3>2. m2[(p + j) - 1] = 0
      BY <1>2, <2>1, <3>1
    <3>3. x[j] = z[j - k] /\ z[j - k] = 0
      BY <1>3, <1>5, <2>3, <3>1
    <3> QED BY <2>1, <3>2, <3>3
  <2> QED BY <2>2, <2>3
<1>7. /\ Strs!Piece(m2, p, n) \in Seq(Nat) /\ Len(Strs!Piece(m2, p, n)) = n
      /\ \A j \in 1 .. n : Strs!Piece(m2, p, n)[j] = m2[(p + j) - 1]
  <2>1. \A a \in p .. ((p + n) - 1) : a \in Addr
    BY <1>1, AddrIs
  <2>2. \A a \in p .. ((p + n) - 1) : m2[a] \in Nat
    BY <1>2, <2>1, AddrIs
  <2> QED BY <1>1, <2>2, PieceIs
<1>8. Strs!Piece(m2, p, n) = x
  BY <1>4, <1>5, <1>6, <1>7, SeqEqual
<1> QED BY <1>8 DEF x, z, k, Padded

LEMMA MemsetZero ==
  ASSUME NEW f \in Mem, NEW a \in Nat, NEW l \in Nat, NEW b \in Nat, a + l = b, b <= MemSize
  PROVE  Zeroed(Strs!memset(f, a, 0, l), f, a, b)
<1>1. Strs!Inside(a, l)
  BY DEF Strs!Inside
<1>2. /\ Strs!memset(f, a, 0, l) \in Mem
      /\ \A x \in Addr : Strs!memset(f, a, 0, l)[x] = IF a <= x /\ x < a + l THEN 0 ELSE f[x]
  BY <1>1, MemsetIs
<1> QED BY <1>2 DEF Zeroed

\* Two changes inside the same bytes.
LEMMA ZeroedRest ==
  ASSUME NEW m2, NEW f, NEW m, NEW p \in Nat, NEW k \in Nat, NEW n \in Nat, k <= n, NEW a, p <= a,
         Zeroed(m2, f, a, p + n), Untouched(f, m, p, k)
  PROVE  Untouched(m2, m, p, n)
<1>1. ASSUME NEW b \in Addr, b \notin p .. ((p + n) - 1) PROVE m2[b] = m[b]
  <2>1. ~(a <= b /\ b < p + n) /\ b \notin p .. ((p + k) - 1)
    BY <1>1, AddrIs DEF Zeroed
  <2>2. m2[b] = f[b]
    BY <2>1 DEF Zeroed
  <2>3. f[b] = m[b]
    BY <2>1 DEF Untouched
  <2> QED BY <2>2, <2>3
<1> QED BY <1>1 DEF Untouched

LEMMA StrncpyRight ==
  ASSUME NEW m, Closed(m), NEW p \in Nat, NEW q \in Addr, NEW n \in Nat, p + n <= MemSize,
         NEW c, CutTo(c, Strs!Str(m, q), n), Strs!strnlen(m, q, n) = Len(c), MayCopy(m, p, q, Len(c))
  PROVE  /\ Padded(Strs!strncpy(m, p, q, n), p, c, n)
         /\ Untouched(Strs!strncpy(m, p, q, n), m, p, n)
<1> DEFINE m2 == Strs!strncpy(m, p, q, n)
           f == Strs!Forward(m, p, q, Len(c))
           w == Strs!Str(m, q)
<1>1. Holds(m, q, w)
  BY StrHolds
<1>2. CutTo(c, w, n) /\ Strs!strnlen(m, q, n) = Len(c)
  OBVIOUS
<1>3. m2 = Strs!memset(f, p + Len(c), 0, n - Len(c))
  BY <1>2, Zenon DEF Strs!strncpy
<1>4. Copied(f, m, p, q, Len(c))
  BY ForwardCopies, Zenon
<1> HIDE DEF m2, f, w
<1>5. HoldsPart(m, q, c) /\ Len(c) \in Nat /\ Len(c) <= n
  BY <1>1, <1>2, CutPart, Zenon
<1>6. f \in Mem /\ Untouched(f, m, p, Len(c))
  BY <1>4, CopyRest, Zenon
<1>7. HoldsPart(f, p, c)
  <2>1. Len(c) <= Len(c)
    BY <1>5
  <2> QED BY <1>4, <1>5, <2>1, CopiedPart, Zenon
<1>8. Zeroed(m2, f, p + Len(c), p + n)
  <2>1. p + Len(c) \in Nat /\ n - Len(c) \in Nat /\ p + n \in Nat /\ (p + Len(c)) + (n - Len(c)) = p + n
    BY <1>5
  <2> QED BY <1>3, <1>6, <2>1, MemsetZero, Zenon
<1>9. Padded(m2, p, c, n)
  <2>1. ZeroFilled(m2, f, p, c, n)
    BY <1>5, <1>7, <1>8, Zenon DEF ZeroFilled
  <2> QED BY <2>1, ZerosBehind, Zenon
<1>10. Untouched(m2, m, p, n)
  <2>1. p <= p + Len(c)
    BY <1>5
  <2> QED BY <1>5, <1>6, <1>8, <2>1, ZeroedRest, Zenon
<1> QED BY <1>9, <1>10, Zenon DEF m2

LEMMA EndSet ==
  ASSUME NEW m2, NEW f, NEW p, NEW c, NEW x, HoldsPart(f, p, c), x = p + Len(c), x \in Addr, m2 = [f EXCEPT ![x] = 0]
  PROVE  Holds(m2, p, c)
<1>1. /\ f \in Mem /\ p \in Nat /\ c \in Seq(Nat) /\ Len(c) \in Nat
      /\ \A j \in 1 .. Len(c) : f[(p + j) - 1] = c[j] /\ c[j] # 0
  BY DEF HoldsPart
<1>2. m2 \in Mem /\ m2[x] = 0 /\ \A b \in Addr : b # x => m2[b] = f[b]
  BY <1>1, AddrIs DEF Mem
<1>3. ASSUME NEW j \in 1 .. Len(c) PROVE m2[(p + j) - 1] = c[j] /\ c[j] # 0
  <2>1. (p + j) - 1 \in Addr /\ (p + j) - 1 # x
    BY <1>1, AddrIs
  <2> QED BY <1>1, <1>2, <2>1
<1>4. p + Len(c) \in Addr /\ m2[p + Len(c)] = 0
  BY <1>2
<1> QED BY <1>1, <1>2, <1>3, <1>4, Zenon DEF Holds

LEMMA StrncatRight ==
  ASSUME NEW m, Closed(m), NEW p \in Addr, NEW q \in Addr, NEW n \in Nat,
         NEW v, v = Strs!Str(m, p), NEW c, CutTo(c, Strs!Str(m, q), n), Strs!strnlen(m, q, n) = Len(c),
         MayCopy(m, p + Len(v), q, Len(c)), p + Len(v) + n + 1 <= MemSize
  PROVE  /\ Holds(Strs!strncat(m, p, q, n), p, v \o c)
         /\ Untouched(Strs!strncat(m, p, q, n), m, p, Len(v) + n + 1)
<1> DEFINE m2 == Strs!strncat(m, p, q, n)
           end == p + Len(v)
           x == end + Len(c)
           f == Strs!Forward(m, end, q, Len(c))
           w == Strs!Str(m, q)
<1>1. Holds(m, q, w) /\ Holds(m, p, v) /\ Strs!strlen(m, p) = Len(v)
  BY StrHolds
<1>2. CutTo(c, w, n) /\ Strs!strnlen(m, q, n) = Len(c)
  OBVIOUS
<1>3. m2 = IF n = 0 THEN m ELSE [f EXCEPT ![x] = 0]
  BY <1>1, <1>2, Zenon DEF Strs!strncat
<1>4. Copied(f, m, end, q, Len(c))
  BY ForwardCopies, Zenon
<1> HIDE DEF m2, f, w
<1>5. HoldsPart(m, q, c) /\ Len(c) \in Nat /\ Len(c) <= n
  BY <1>1, <1>2, CutPart, Zenon
<1>6. p \in Nat /\ v \in Seq(Nat) /\ Len(v) \in Nat /\ m \in Mem /\ end \in Addr /\ m[end] = 0 /\ end \in Nat
  BY <1>1, AddrIs DEF Holds
<1>7. x \in Addr
  BY <1>5, <1>6, AddrIs
<1>8. Behind(end, p, v)
  BY Zenon DEF Behind
<1>9. Holds(m2, end, c) /\ Below(m2, m, end) /\ Untouched(m2, m, p, Len(v) + n + 1)
  <2>1. CASE n = 0
    <3>1. m2 = m
      BY <1>3, <2>1
    <3>2. Len(c) = 0
      BY <1>5, <2>1
    <3>3. c \in Seq(Nat) /\ end + Len(c) = end /\ \A j \in 1 .. Len(c) : FALSE
      BY <1>5, <1>6, <3>2 DEF HoldsPart
    <3> HIDE DEF end
    <3>4. Holds(m2, end, c)
      BY <1>6, <3>1, <3>3 DEF Holds
    <3> QED BY <3>1, <3>4 DEF Below, Untouched
  <2>2. CASE n # 0
    <3>1. m2 = [f EXCEPT ![x] = 0]
      BY <1>3, <2>2
    <3>2. HoldsPart(f, end, c)
      <4>1. Len(c) <= Len(c)
        BY <1>5
      <4> QED BY <1>4, <1>5, <4>1, CopiedPart, Zenon
    <3>3. x = end + Len(c)
      OBVIOUS
    <3>4. Holds(m2, end, c)
      BY <1>7, <3>1, <3>2, <3>3, EndSet, Zenon
    <3>5. f \in Mem /\ \A b \in Addr : ~(end <= b /\ b < end + Len(c)) => f[b] = m[b]
      BY <1>4, Zenon DEF Copied
    <3>6. \A b \in Addr : b # x => m2[b] = f[b]
      BY <3>1, <3>5 DEF Mem
    <3>7. Below(m2, m, end)
      <4>1. \A b \in Addr : b < end => b # x /\ ~(end <= b /\ b < end + Len(c))
        BY <1>5, <1>6, AddrIs
      <4> QED BY <3>5, <3>6, <4>1 DEF Below
    <3>8. \A b \in Addr : b \notin p .. (p + (Len(v) + n + 1) - 1) => b # x /\ ~(end <= b /\ b < end + Len(c))
      BY <1>5, <1>6, AddrIs
    <3>9. \A b \in Addr : b \notin p .. (p + (Len(v) + n + 1) - 1) => m2[b] = m[b]
      BY <3>5, <3>6, <3>8, Zenon
    <3>10. Untouched(m2, m, p, Len(v) + n + 1)
      BY <3>9, Zenon DEF Untouched
    <3> QED BY <3>4, <3>7, <3>10
  <2> QED BY <2>1, <2>2
<1>10. Holds(m2, p, v \o c)
  <2>1. Holds(m, p, v) /\ Holds(m2, end, c) /\ Below(m2, m, end)
    BY <1>1, <1>9
  <2> HIDE DEF end
  <2> QED BY <1>8, <2>1, CatHolds
<1> QED BY <1>9, <1>10, Zenon DEF m2

\* memchr finds the end of a string, if the n bytes reach as far.
LEMMA MemchrEnd ==
  ASSUME NEW m, NEW q, NEW w, Holds(m, q, w), NEW n \in Nat, q + n <= MemSize
  PROVE  IF Len(w) < n THEN Strs!memchr(m, q, 0, n) = q + Len(w) ELSE Strs!memchr(m, q, 0, n) = Strs!NULL
<1> DEFINE x == Strs!memchr(m, q, 0, n)
           k == Len(w)
<1>1. /\ m \in Mem /\ q \in Nat /\ k \in Nat /\ q + k \in Addr /\ m[q + k] = 0
      /\ \A j \in 1 .. k : m[(q + j) - 1] # 0
  BY DEF Holds
<1>2. Strs!Inside(q, n)
  BY DEF Strs!Inside
<1>3. x = Strs!memchr(m, q, 0, n)
  OBVIOUS
<1> HIDE DEF x, k
<1>4. \/ /\ x \in Nat /\ q <= x /\ x < q + n /\ m[x] = 0
         /\ \A a \in Nat : q <= a /\ a < q + n /\ m[a] = 0 => x <= a
      \/ x = Strs!NULL /\ \A a \in Nat : q <= a /\ a < q + n => m[a] # 0
  BY <1>1, <1>2, <1>3, MemchrIs
<1>5. ASSUME NEW a \in Nat, q <= a, a < q + k PROVE m[a] # 0
  <2>1. (a - q) + 1 \in 1 .. k /\ (q + ((a - q) + 1)) - 1 = a
    BY <1>1, <1>5
  <2> QED BY <1>1, <2>1
<1>6. CASE k < n
  <2>1. q + k \in Nat /\ q <= q + k /\ q + k < q + n
    BY <1>1, <1>6
  <2>2. x \in Nat /\ q <= x /\ m[x] = 0 /\ x <= q + k
    BY <1>1, <1>4, <2>1
  <2>3. ~(x < q + k)
    BY <1>5, <2>2
  <2>4. x = q + k
    BY <1>1, <2>2, <2>3
  <2> QED BY <1>6, <2>4 DEF x, k
<1>7. CASE ~(k < n)
  <2>1. \A a \in Nat : q <= a /\ a < q + n => a < q + k
    BY <1>1, <1>7
  <2>2. x = Strs!NULL
    BY <1>4, <1>5, <2>1
  <2> QED BY <1>7, <2>2 DEF x, k
<1> QED BY <1>6, <1>7

LEMMA PartPiece ==
  ASSUME NEW f, NEW p, NEW c, HoldsPart(f, p, c), p + Len(c) <= MemSize
  PROVE  Strs!Piece(f, p, Len(c)) = c
<1> DEFINE k == Len(c)
<1>1. /\ f \in Mem /\ p \in Nat /\ c \in Seq(Nat) /\ k \in Nat
      /\ \A j \in 1 .. k : f[(p + j) - 1] = c[j]
  BY DEF HoldsPart
<1>2. \A a \in p .. ((p + k) - 1) : f[a] \in Nat
  <2>1. \A a \in p .. ((p + k) - 1) : a \in Addr
    BY <1>1, AddrIs
  <2> QED BY <1>1, <2>1, AddrIs
<1>3. Len(c) = k
  OBVIOUS
<1> HIDE DEF k
<1>4. /\ Strs!Piece(f, p, k) \in Seq(Nat) /\ Len(Strs!Piece(f, p, k)) = k
      /\ \A j \in 1 .. k : Strs!Piece(f, p, k)[j] = f[(p + j) - 1]
  BY <1>1, <1>2, PieceIs
<1>5. \A j \in 1 .. k : Strs!Piece(f, p, k)[j] = c[j]
  BY <1>1, <1>4
<1>6. Strs!Piece(f, p, k) = c
  BY <1>1, <1>3, <1>4, <1>5, SeqEqual
<1> QED BY <1>6 DEF k

LEMMA CopyLess ==
  ASSUME NEW m, NEW p, NEW q, NEW n, MayCopy(m, p, q, n), NEW l \in Nat, l <= n
  PROVE  MayCopy(m, p, q, l)
BY StringsAssumption DEF MayCopy, Forwards

\* What memccpy copies, l bytes, holds the string up to n characters.
LEMMA MemccpyCopies ==
  ASSUME NEW m, NEW p, NEW q, NEW w, NEW c, NEW n, Holds(m, q, w), CutTo(c, w, n), MayCopy(m, p, q, n),
         NEW l \in Nat, Len(c) <= l, l <= n
  PROVE  /\ Strs!Piece(Strs!Forward(m, p, q, l), p, Len(c)) = c
         /\ Untouched(Strs!Forward(m, p, q, l), m, p, l)
         /\ Copied(Strs!Forward(m, p, q, l), m, p, q, l)
<1> DEFINE f == Strs!Forward(m, p, q, l)
<1>1. MayCopy(m, p, q, l)
  BY CopyLess
<1>2. Copied(f, m, p, q, l)
  BY <1>1, ForwardCopies, Zenon
<1> HIDE DEF f
<1>3. HoldsPart(m, q, c) /\ Len(c) \in Nat
  BY CutPart, Zenon
<1>4. HoldsPart(f, p, c)
  BY <1>2, <1>3, CopiedPart, Zenon
<1>5. p + Len(c) <= MemSize
  BY <1>1, <1>3, StringsAssumption DEF MayCopy
<1>6. Strs!Piece(f, p, Len(c)) = c
  BY <1>4, <1>5, PartPiece
<1>7. Untouched(f, m, p, l)
  BY <1>2, CopyRest, Zenon
<1> QED BY <1>2, <1>6, <1>7, Zenon DEF f

\* What memccpy promises of the memory and the pointer that it returns.
CutCopied(r, m, p, c, n) ==
  /\ Strs!Piece(r.m, p, Len(c)) = c
  /\ Untouched(r.m, m, p, IF Len(c) < n THEN Len(c) + 1 ELSE Len(c))
  /\ IF Len(c) < n THEN r.ret = p + Len(c) + 1 /\ r.m[p + Len(c)] = 0 ELSE r.ret = Strs!NULL

LEMMA MemccpyRight ==
  ASSUME NEW m, Closed(m), NEW p \in Nat, NEW q \in Addr, NEW n \in Nat, MayCopy(m, p, q, n),
         NEW c, CutTo(c, Strs!Str(m, q), n)
  PROVE  CutCopied(Strs!memccpy(m, p, q, 0, n), m, p, c, n)
<1> DEFINE r == Strs!memccpy(m, p, q, 0, n)
<1> DEFINE w == Strs!Str(m, q)
           x == Strs!memchr(m, q, 0, n)
           l == IF x = Strs!NULL THEN n ELSE x - q + 1
<1>1. Holds(m, q, w) /\ CutTo(c, w, n)
  BY StrHolds
<1>2. IF Len(w) < n THEN x = q + Len(w) ELSE x = Strs!NULL
  BY <1>1, MemchrEnd, StringsAssumption DEF MayCopy
<1>3. r.m = Strs!Forward(m, p, q, l) /\ r.ret = IF x = Strs!NULL THEN Strs!NULL ELSE p + x - q + 1
  BY Zenon DEF Strs!memccpy
<1>4. /\ Len(w) \in Nat /\ Len(c) \in Nat /\ Len(c) = IF n < Len(w) THEN n ELSE Len(w)
      /\ m[q + Len(w)] = 0 /\ q \in Nat
  BY <1>1, AddrIs DEF Holds, CutTo
<1> HIDE DEF r, w, x, l
<1>5. Strs!NULL = -1
  BY DEF Strs!NULL
<1>6. CASE Len(w) < n
  <2>1. Len(c) = Len(w) /\ Len(c) < n /\ x = q + Len(c)
    BY <1>2, <1>4, <1>6
  <2>2. l = Len(c) + 1 /\ p + x - q + 1 = p + Len(c) + 1 /\ x # Strs!NULL
    BY <1>4, <1>5, <2>1 DEF l
  <2>3. l \in Nat /\ Len(c) <= l /\ l <= n
    BY <1>4, <2>1, <2>2
  <2>4. /\ Strs!Piece(Strs!Forward(m, p, q, l), p, Len(c)) = c
        /\ Untouched(Strs!Forward(m, p, q, l), m, p, l)
        /\ Copied(Strs!Forward(m, p, q, l), m, p, q, l)
    BY <1>1, <2>3, MemccpyCopies, Zenon
  <2>5. Strs!Piece(r.m, p, Len(c)) = c /\ Untouched(r.m, m, p, Len(c) + 1) /\ Copied(r.m, m, p, q, l)
    BY <1>3, <2>2, <2>4, Zenon
  <2>6. r.m[p + Len(c)] = 0
    <3>1. Len(c) \in 0 .. (l - 1)
      BY <1>4, <2>2, <2>3
    <3>2. r.m[p + Len(c)] = m[q + Len(c)]
      BY <2>5, <3>1, Zenon DEF Copied
    <3>3. m[q + Len(c)] = 0
      BY <1>4, <2>1
    <3> QED BY <3>2, <3>3
  <2>7. r.ret = p + Len(c) + 1
    BY <1>3, <2>2
  <2> QED BY <2>1, <2>5, <2>6, <2>7, Zenon DEF CutCopied, r
<1>7. CASE ~(Len(w) < n)
  <2>1. Len(c) = n /\ x = Strs!NULL
    BY <1>2, <1>4, <1>7
  <2>2. l = Len(c) /\ l \in Nat /\ Len(c) <= l /\ l <= n /\ ~(Len(c) < n)
    BY <1>4, <2>1 DEF l
  <2>3. l \in Nat /\ Len(c) <= l /\ l <= n
    BY <2>2
  <2>4. /\ Strs!Piece(Strs!Forward(m, p, q, l), p, Len(c)) = c
        /\ Untouched(Strs!Forward(m, p, q, l), m, p, l)
        /\ Copied(Strs!Forward(m, p, q, l), m, p, q, l)
    BY <1>1, <2>3, MemccpyCopies, Zenon
  <2>5. Strs!Piece(r.m, p, Len(c)) = c /\ Untouched(r.m, m, p, Len(c))
    BY <1>3, <2>2, <2>4, Zenon
  <2>7. r.ret = Strs!NULL
    BY <1>3, <2>1
  <2> QED BY <2>2, <2>5, <2>7, Zenon DEF CutCopied, r
<1> QED BY <1>6, <1>7

-----------------------------------------------------------------------------
(* The promises, of one call.                                              *)

FindsAt(f, m, p, q, n, ret) ==
  /\ f = "strchr" => ret = Strs!Least({a \in p .. (p + Len(Strs!Str(m, p))) : m[a] = q})
  /\ f = "strrchr" => ret = Strs!Most({a \in p .. (p + Len(Strs!Str(m, p))) : m[a] = q})
  /\ f = "memchr" => ret = Strs!Least({a \in p .. (p + n - 1) : m[a] = q})
  /\ f = "memrchr" => ret = Strs!Most({a \in p .. (p + n - 1) : m[a] = q})
  /\ f = "strspn" =>
       ret = Strs!Most({k \in 0 .. Len(Strs!Str(m, p)) : \A x \in 1 .. k : Strs!Str(m, p)[x] \in SetOf(m, q)})
  /\ f = "strcspn" =>
       ret = Strs!Most({k \in 0 .. Len(Strs!Str(m, p)) : \A x \in 1 .. k : Strs!Str(m, p)[x] \notin SetOf(m, q)})
  /\ f = "strpbrk" => ret = Strs!Least({a \in p .. (p + Len(Strs!Str(m, p)) - 1) : m[a] \in SetOf(m, q)})
  /\ f = "strstr" => ret = Strs!Least(Places(m, p, q))
  /\ f = "strnstr" => ret = Strs!Least({a \in Places(m, p, q) : a + Strs!strlen(m, q) <= p + n})
  /\ f = "strcmp" => Strs!Agrees(ret, Strs!Str(m, p), Strs!Str(m, q))
  /\ f = "strncmp" => Strs!Agrees(ret, Strs!Cut(Strs!Str(m, p), n), Strs!Cut(Strs!Str(m, q), n))
  /\ f = "memcmp" => Strs!Agrees(ret, Strs!Piece(m, p, n), Strs!Piece(m, q, n))

WritesAt(f, m2, m, p, q, n, ret) ==
  /\ f = "memmove" => Strs!Piece(m2, p, n) = Strs!Piece(m, q, n) /\ Untouched(m2, m, p, n)
  /\ f = "memset" => Strs!Piece(m2, p, n) = [j \in 1 .. n |-> 1] /\ Untouched(m2, m, p, n)
  /\ f = "strcpy" =>
       Strs!Str(m2, p) = Strs!Str(m, q) /\ Untouched(m2, m, p, Len(Strs!Str(m, q)) + 1)
  /\ f = "strcat" =>
       /\ Strs!Str(m2, p) = Strs!Str(m, p) \o Strs!Str(m, q)
       /\ Untouched(m2, m, p, Len(Strs!Str(m, p) \o Strs!Str(m, q)) + 1)
  /\ f = "strncat" =>
       /\ Strs!Str(m2, p) = Strs!Str(m, p) \o Strs!Cut(Strs!Str(m, q), n)
       /\ Untouched(m2, m, p, Len(Strs!Str(m, p)) + n + 1)
  /\ f = "strncpy" => Padded(m2, p, Strs!Cut(Strs!Str(m, q), n), n) /\ Untouched(m2, m, p, n)
  /\ f = "memccpy" =>
       /\ Strs!Piece(m2, p, Len(Strs!Cut(Strs!Str(m, q), n))) = Strs!Cut(Strs!Str(m, q), n)
       /\ Untouched(m2, m, p, IF Len(Strs!Cut(Strs!Str(m, q), n)) < n
                           THEN Len(Strs!Cut(Strs!Str(m, q), n)) + 1 ELSE Len(Strs!Cut(Strs!Str(m, q), n)))
       /\ IF Len(Strs!Cut(Strs!Str(m, q), n)) < n
          THEN ret = p + Len(Strs!Cut(Strs!Str(m, q), n)) + 1 /\ m2[p + Len(Strs!Cut(Strs!Str(m, q), n))] = 0
          ELSE ret = Strs!NULL

LEMMA FindsRightIs == FindsAt(st.f, st.old, st.p, st.q, st.n, st.ret) => Strs!FindsRight
BY Zenon DEF FindsAt, Strs!FindsRight, SetOf, Places

LEMMA WritesRightIs == WritesAt(st.f, st.m, st.old, st.p, st.q, st.n, st.ret) => Strs!WritesRight
<1>1. \A a, k : Untouched(st.m, st.old, a, k) <=> Strs!Rest(a, k)
  BY Zenon DEF Untouched, Strs!Rest, Addr
<1>2. \A c, p, n : Padded(st.m, p, c, n) <=> Strs!Piece(st.m, p, n) = c \o [j \in 1 .. (n - Len(c)) |-> 0]
  BY Zenon DEF Padded, Zeros
<1> QED BY <1>1, <1>2, Zenon DEF WritesAt, Strs!WritesRight

\* A state of the call: before it the memory is as it was, after it the promise is kept.
Shape(t) == t = [old |-> t.old, m |-> t.m, f |-> t.f, p |-> t.p, q |-> t.q, n |-> t.n, ret |-> t.ret]
Kept ==
  /\ Shape(st) /\ Closed(st.old) /\ (st.f = "none" => st.m = st.old)
  /\ FindsAt(st.f, st.old, st.p, st.q, st.n, st.ret)
  /\ WritesAt(st.f, st.m, st.old, st.p, st.q, st.n, st.ret)

Waiting(m) == Shape(st) /\ Closed(m) /\ st.f = "none" /\ st.m = m /\ st.old = m

LEMMA CallKept ==
  ASSUME NEW m, Waiting(m), NEW f, NEW p, NEW q, NEW n, NEW m2, NEW ret, f # "none",
         Strs!Called(f, p, q, n, m2, ret), FindsAt(f, m, p, q, n, ret), WritesAt(f, m2, m, p, q, n, ret)
  PROVE  Kept'
<1>1. st' = [st EXCEPT !.f = f, !.p = p, !.q = q, !.n = n, !.m = m2, !.ret = ret]
  BY DEF Strs!Called
<1>2. /\ st'.f = f /\ st'.p = p /\ st'.q = q /\ st'.n = n /\ st'.m = m2 /\ st'.ret = ret /\ st'.old = st.old
      /\ st' = [old |-> st.old, m |-> m2, f |-> f, p |-> p, q |-> q, n |-> n, ret |-> ret]
  BY <1>1 DEF Waiting, Shape
<1>3. Shape(st')
  BY <1>2 DEF Shape
<1>4. st'.old = m /\ Closed(m)
  BY <1>2 DEF Waiting
<1> QED BY <1>2, <1>3, <1>4, Zenon DEF Kept

FindNames ==
  {"strchr", "strrchr", "memchr", "memrchr", "strspn", "strcspn", "strpbrk", "strstr", "strnstr",
   "strcmp", "strncmp", "memcmp"}
WriteNames == {"memmove", "memset", "strcpy", "strcat", "strncat", "strncpy", "memccpy"}

LEMMA OneKind ==
  /\ \A f \in FindNames : \A m2, m, p, q, n, ret : WritesAt(f, m2, m, p, q, n, ret)
  /\ \A f \in WriteNames : \A m, p, q, n, ret : FindsAt(f, m, p, q, n, ret)
<1>1. \A f \in FindNames : f \notin WriteNames
  BY DEF FindNames, WriteNames
<1>2. /\ \A f \in FindNames : /\ f # "memmove" /\ f # "memset" /\ f # "strcpy" /\ f # "strcat"
                              /\ f # "strncat" /\ f # "strncpy" /\ f # "memccpy"
      /\ \A f \in WriteNames : /\ f # "strchr" /\ f # "strrchr" /\ f # "memchr" /\ f # "memrchr" /\ f # "strspn"
                               /\ f # "strcspn" /\ f # "strpbrk" /\ f # "strstr" /\ f # "strnstr"
                               /\ f # "strcmp" /\ f # "strncmp" /\ f # "memcmp"
  BY <1>1 DEF FindNames, WriteNames
<1>3. ASSUME NEW f \in FindNames, NEW m2, NEW m, NEW p, NEW q, NEW n, NEW ret PROVE WritesAt(f, m2, m, p, q, n, ret)
  <2>1. /\ f # "memmove" /\ f # "memset" /\ f # "strcpy" /\ f # "strcat"
        /\ f # "strncat" /\ f # "strncpy" /\ f # "memccpy"
    BY <1>2
  <2> QED BY <2>1, Zenon DEF WritesAt
<1>4. ASSUME NEW f \in WriteNames, NEW m, NEW p, NEW q, NEW n, NEW ret PROVE FindsAt(f, m, p, q, n, ret)
  <2>1. /\ f # "strchr" /\ f # "strrchr" /\ f # "memchr" /\ f # "memrchr" /\ f # "strspn"
        /\ f # "strcspn" /\ f # "strpbrk" /\ f # "strstr" /\ f # "strnstr"
        /\ f # "strcmp" /\ f # "strncmp" /\ f # "memcmp"
    BY <1>2
  <2> QED BY <2>1, Zenon DEF FindsAt
<1> QED BY <1>3, <1>4

\* A call that looks.
LEMMA FoundKept ==
  ASSUME NEW m, Waiting(m), NEW f \in FindNames, NEW p, NEW q, NEW n, NEW ret,
         Strs!Finds(f, p, q, n, ret), FindsAt(f, m, p, q, n, ret)
  PROVE  Kept'
<1>1. Strs!Called(f, p, q, n, st.m, ret) /\ f # "none"
  BY DEF Strs!Finds, FindNames
<1>2. WritesAt(f, st.m, m, p, q, n, ret)
  BY OneKind
<1> QED BY <1>1, <1>2, CallKept, Zenon

LEMMA WrittenKept ==
  ASSUME NEW m, Waiting(m), NEW f \in WriteNames, NEW p, NEW q, NEW n, NEW m2, NEW ret,
         Strs!Called(f, p, q, n, m2, ret), WritesAt(f, m2, m, p, q, n, ret)
  PROVE  Kept'
<1>1. f # "none"
  BY DEF WriteNames
<1>2. FindsAt(f, m, p, q, n, ret)
  BY OneKind
<1> QED BY <1>1, <1>2, CallKept, Zenon

LEMMA InStringKept ==
  ASSUME NEW m, Waiting(m), NEW p \in Addr, NEW c \in Chars, Strs!in_string(p, c)
  PROVE  Kept'
<1>1. c \in Nat /\ p \in Nat /\ m \in Mem /\ Closed(m)
  BY StringsAssumption, AddrIs DEF Waiting, Closed
<1>2. \/ Strs!Finds("strchr", p, c, 0, Strs!strchr(m, p, c))
      \/ Strs!Finds("strrchr", p, c, 0, Strs!strrchr(m, p, c))
      \/ \E n \in Addr : Strs!Inside(p, n) /\ Strs!Finds("memchr", p, c, n, Strs!memchr(m, p, c, n))
      \/ \E n \in Addr : Strs!Inside(p, n) /\ Strs!Finds("memrchr", p, c, n, Strs!memrchr(m, p, c, n))
  BY Zenon DEF Strs!in_string, Waiting, Addr
<1>3. CASE Strs!Finds("strchr", p, c, 0, Strs!strchr(m, p, c))
  <2>1. EndIs(m, p, p + Strs!strlen(m, p))
    BY <1>1, ClosedEnds
  <2>2. Strs!strchr(m, p, c) = Strs!Least({a \in p .. (p + Len(Strs!Str(m, p))) : m[a] = c})
    BY <1>1, <2>1, StrchrRight, Zenon
  <2>3. FindsAt("strchr", m, p, c, 0, Strs!strchr(m, p, c))
    BY <2>2 DEF FindsAt
  <2>4. "strchr" \in FindNames
    BY DEF FindNames
  <2> QED BY <1>3, <2>3, <2>4, FoundKept, Zenon
<1>4. CASE Strs!Finds("strrchr", p, c, 0, Strs!strrchr(m, p, c))
  <2>2. Strs!strrchr(m, p, c) = Strs!Most({a \in p .. (p + Len(Strs!Str(m, p))) : m[a] = c})
    BY <1>1, StrrchrRight, ZenonT(60)
  <2>3. FindsAt("strrchr", m, p, c, 0, Strs!strrchr(m, p, c))
    BY <2>2 DEF FindsAt
  <2>4. "strrchr" \in FindNames
    BY DEF FindNames
  <2> QED BY <1>4, <2>3, <2>4, FoundKept, Zenon
<1>5. ASSUME NEW n \in Addr, Strs!Inside(p, n), Strs!Finds("memchr", p, c, n, Strs!memchr(m, p, c, n)) PROVE Kept'
  <2>1. n \in Nat
    BY AddrIs
  <2>2. Strs!memchr(m, p, c, n) = Strs!Least({a \in p .. (p + n - 1) : m[a] = c})
    BY <1>1, <1>5, <2>1, MemchrRight, ZenonT(60)
  <2>3. FindsAt("memchr", m, p, c, n, Strs!memchr(m, p, c, n))
    BY <2>2 DEF FindsAt
  <2>4. "memchr" \in FindNames
    BY DEF FindNames
  <2> QED BY <1>5, <2>3, <2>4, FoundKept, Zenon
<1>6. ASSUME NEW n \in Addr, Strs!Finds("memrchr", p, c, n, Strs!memrchr(m, p, c, n)) PROVE Kept'
  <2>1. n \in Nat
    BY AddrIs
  <2>2. Strs!memrchr(m, p, c, n) = Strs!Most({a \in p .. (p + n - 1) : m[a] = c})
    BY <1>1, <2>1, MemrchrRight, ZenonT(60)
  <2>3. FindsAt("memrchr", m, p, c, n, Strs!memrchr(m, p, c, n))
    BY <2>2 DEF FindsAt
  <2>4. "memrchr" \in FindNames
    BY DEF FindNames
  <2> QED BY <1>6, <2>3, <2>4, FoundKept, Zenon
<1> QED BY <1>2, <1>3, <1>4, <1>5, <1>6

LEMMA TwoStringsKept ==
  ASSUME NEW m, Waiting(m), NEW p \in Addr, NEW q \in Addr, Strs!two_strings(p, q)
  PROVE  Kept'
<1>1. p \in Nat /\ q \in Nat /\ m \in Mem /\ Closed(m)
  BY AddrIs DEF Waiting, Closed
<1>2. \/ Strs!Finds("strspn", p, q, 0, Strs!strspn(m, p, q))
      \/ Strs!Finds("strcspn", p, q, 0, Strs!strcspn(m, p, q))
      \/ Strs!Finds("strpbrk", p, q, 0, Strs!strpbrk(m, p, q))
      \/ Strs!Finds("strstr", p, q, 0, Strs!strstr(m, p, q))
      \/ Strs!Finds("strcmp", p, q, 0, Strs!strcmp(m, p, q))
      \/ \E n \in Addr : Strs!Finds("strncmp", p, q, n, Strs!strncmp(m, p, q, n))
      \/ \E n \in Addr : /\ Strs!Inside(p, n) /\ Strs!Inside(q, n)
                         /\ Strs!Finds("memcmp", p, q, n, Strs!memcmp(m, p, q, n))
      \/ \E n \in Addr : Strs!Inside(p, n) /\ Strs!Finds("strnstr", p, q, n, Strs!strnstr(m, p, q, n))
  BY Zenon DEF Strs!two_strings, Waiting, Addr
<1>3. CASE Strs!Finds("strspn", p, q, 0, Strs!strspn(m, p, q))
  <2>2. Strs!strspn(m, p, q) = Strs!Most({k \in 0 .. Len(Strs!Str(m, p)) : \A x \in 1 .. k : Strs!Str(m, p)[x] \in SetOf(m, q)})
    BY <1>1, StrspnRight, ZenonT(60)
  <2>3. FindsAt("strspn", m, p, q, 0, Strs!strspn(m, p, q))
    BY <2>2 DEF FindsAt
  <2>4. "strspn" \in FindNames
    BY DEF FindNames
  <2> QED BY <1>3, <2>3, <2>4, FoundKept, Zenon
<1>4. CASE Strs!Finds("strcspn", p, q, 0, Strs!strcspn(m, p, q))
  <2>2. Strs!strcspn(m, p, q) = Strs!Most({k \in 0 .. Len(Strs!Str(m, p)) : \A x \in 1 .. k : Strs!Str(m, p)[x] \notin SetOf(m, q)})
    BY <1>1, StrcspnRight, ZenonT(60)
  <2>3. FindsAt("strcspn", m, p, q, 0, Strs!strcspn(m, p, q))
    BY <2>2 DEF FindsAt
  <2>4. "strcspn" \in FindNames
    BY DEF FindNames
  <2> QED BY <1>4, <2>3, <2>4, FoundKept, Zenon
<1>5. CASE Strs!Finds("strpbrk", p, q, 0, Strs!strpbrk(m, p, q))
  <2>2. Strs!strpbrk(m, p, q) = Strs!Least({a \in p .. (p + Len(Strs!Str(m, p)) - 1) : m[a] \in SetOf(m, q)})
    BY <1>1, StrpbrkRight, ZenonT(60)
  <2>3. FindsAt("strpbrk", m, p, q, 0, Strs!strpbrk(m, p, q))
    BY <2>2 DEF FindsAt
  <2>4. "strpbrk" \in FindNames
    BY DEF FindNames
  <2> QED BY <1>5, <2>3, <2>4, FoundKept, Zenon
<1>6. CASE Strs!Finds("strstr", p, q, 0, Strs!strstr(m, p, q))
  <2>2. Strs!strstr(m, p, q) = Strs!Least(Places(m, p, q))
    BY <1>1, StrstrRight, Zenon
  <2>3. FindsAt("strstr", m, p, q, 0, Strs!strstr(m, p, q))
    BY <2>2 DEF FindsAt
  <2>4. "strstr" \in FindNames
    BY DEF FindNames
  <2> QED BY <1>6, <2>3, <2>4, FoundKept, Zenon
<1>7. CASE Strs!Finds("strcmp", p, q, 0, Strs!strcmp(m, p, q))
  <2>2. Strs!Agrees(Strs!strcmp(m, p, q), Strs!Str(m, p), Strs!Str(m, q))
    BY <1>1, StrcmpRight, Zenon
  <2>3. FindsAt("strcmp", m, p, q, 0, Strs!strcmp(m, p, q))
    BY <2>2 DEF FindsAt
  <2>4. "strcmp" \in FindNames
    BY DEF FindNames
  <2> QED BY <1>7, <2>3, <2>4, FoundKept, Zenon
<1>8. ASSUME NEW n \in Addr, Strs!Finds("strncmp", p, q, n, Strs!strncmp(m, p, q, n)) PROVE Kept'
  <2>1. n \in Nat
    BY AddrIs
  <2>2. Strs!Agrees(Strs!strncmp(m, p, q, n), Strs!Cut(Strs!Str(m, p), n), Strs!Cut(Strs!Str(m, q), n))
    BY <1>1, <2>1, StrncmpRight, Zenon
  <2>3. FindsAt("strncmp", m, p, q, n, Strs!strncmp(m, p, q, n))
    BY <2>2 DEF FindsAt
  <2>4. "strncmp" \in FindNames
    BY DEF FindNames
  <2> QED BY <1>8, <2>3, <2>4, FoundKept, Zenon
<1>9. ASSUME NEW n \in Addr, Strs!Inside(p, n), Strs!Inside(q, n), Strs!Finds("memcmp", p, q, n, Strs!memcmp(m, p, q, n))
      PROVE Kept'
  <2>1. n \in Nat
    BY AddrIs
  <2>2. Strs!Agrees(Strs!memcmp(m, p, q, n), Strs!Piece(m, p, n), Strs!Piece(m, q, n))
    BY <1>1, <1>9, <2>1, MemcmpRight, Zenon
  <2>3. FindsAt("memcmp", m, p, q, n, Strs!memcmp(m, p, q, n))
    BY <2>2 DEF FindsAt
  <2>4. "memcmp" \in FindNames
    BY DEF FindNames
  <2> QED BY <1>9, <2>3, <2>4, FoundKept, Zenon
<1>10. ASSUME NEW n \in Addr, Strs!Inside(p, n), Strs!Finds("strnstr", p, q, n, Strs!strnstr(m, p, q, n)) PROVE Kept'
  <2>1. n \in Nat
    BY AddrIs
  <2>2. Strs!strnstr(m, p, q, n) = Strs!Least({a \in Places(m, p, q) : a + Strs!strlen(m, q) <= p + n})
    BY <1>1, <1>10, <2>1, StrnstrRight
  <2>3. FindsAt("strnstr", m, p, q, n, Strs!strnstr(m, p, q, n))
    BY <2>2 DEF FindsAt
  <2>4. "strnstr" \in FindNames
    BY DEF FindNames
  <2> QED BY <1>10, <2>3, <2>4, FoundKept, Zenon
<1> QED BY <1>2, <1>3, <1>4, <1>5, <1>6, <1>7, <1>8, <1>9, <1>10

\* Pieces of memory that lie apart may be copied.
LEMMA ApartMayCopy ==
  ASSUME NEW m \in Mem, NEW p \in Nat, NEW q \in Nat, NEW d \in Nat, NEW n \in Nat, NEW a \in Nat, NEW l \in Nat,
         p <= d, d + n <= p + a, p + a <= MemSize, q + l <= MemSize, n <= l, Strs!Apart(p, a, q, l)
  PROVE  MayCopy(m, d, q, n)
<1>1. p + a <= q \/ q + l <= p
  BY DEF Strs!Apart
<1>2. q + n <= MemSize /\ d + n <= MemSize
  BY StringsAssumption
<1>3. Forwards(d, q, n)
  BY <1>1 DEF Forwards
<1> QED BY <1>2, <1>3 DEF MayCopy

LEMMA WritesKept ==
  ASSUME NEW m, Waiting(m), NEW p \in Addr, NEW q \in Addr, Strs!writes(p, q)
  PROVE  Kept'
<1> DEFINE v == Strs!Str(m, p)
           w == Strs!Str(m, q)
           h == Strs!strlen(m, p)
           k == Strs!strlen(m, q)
           end == p + h
<1>1. p \in Nat /\ q \in Nat /\ m \in Mem /\ Closed(m) /\ MemSize \in Nat
  BY AddrIs DEF Waiting, Closed
<1>2. Holds(m, p, v) /\ Holds(m, q, w) /\ Len(v) = h /\ Len(w) = k
  BY <1>1, StrHolds
<1>3. \/ /\ Strs!Inside(p, k + 1) /\ Strs!Apart(p, k + 1, q, k + 1)
         /\ Strs!Writes("strcpy", p, q, 0, Strs!strcpy(m, p, q))
      \/ /\ Strs!Inside(end, k + 1) /\ Strs!Apart(p, end + k + 1 - p, q, k + 1)
         /\ Strs!Writes("strcat", p, q, 0, Strs!strcat(m, p, q))
      \/ \E n \in Addr :
           \/ Strs!Inside(p, n) /\ Strs!Inside(q, n) /\ Strs!Writes("memmove", p, q, n, Strs!memmove(m, p, q, n))
           \/ Strs!Inside(p, n) /\ Strs!Writes("memset", p, q, n, Strs!memset(m, p, 1, n))
           \/ /\ Strs!Inside(p, n) /\ Strs!Apart(p, n, q, k + 1)
              /\ Strs!Writes("strncpy", p, q, n, Strs!strncpy(m, p, q, n))
           \/ /\ Strs!Inside(end, n + 1) /\ Strs!Apart(p, end + n + 1 - p, q, k + 1)
              /\ Strs!Writes("strncat", p, q, n, Strs!strncat(m, p, q, n))
           \/ /\ Strs!Inside(p, n) /\ Strs!Inside(q, n) /\ Strs!Apart(p, n, q, n)
              /\ Strs!Called("memccpy", p, q, n, Strs!memccpy(m, p, q, 0, n).m, Strs!memccpy(m, p, q, 0, n).ret)
  BY Zenon DEF Strs!writes, Waiting, Addr
<1>4. /\ h \in Nat /\ k \in Nat /\ end \in Nat /\ end + 1 <= MemSize /\ q + (k + 1) <= MemSize
      /\ Len(v) \in Nat /\ Len(w) \in Nat
  BY <1>1, <1>2, AddrIs DEF Holds
<1> HIDE DEF v, w, h, k, end
<1>5. ASSUME Strs!Inside(p, k + 1), Strs!Apart(p, k + 1, q, k + 1),
             Strs!Writes("strcpy", p, q, 0, Strs!strcpy(m, p, q))
      PROVE  Kept'
  <2>1. MayCopy(m, p, q, k + 1)
    BY <1>1, <1>4, <1>5, ApartMayCopy DEF Strs!Inside
  <2>2. MayCopy(m, p, q, Len(w) + 1)
    BY <1>2, <2>1
  <2>3. Holds(Strs!strcpy(m, p, q), p, w) /\ Untouched(Strs!strcpy(m, p, q), m, p, Len(w) + 1)
    BY <1>2, <2>2, StrcpyRight, Zenon
  <2>4. Strs!Str(Strs!strcpy(m, p, q), p) = w
    BY <2>3, HoldsStr, Zenon
  <2>5. WritesAt("strcpy", Strs!strcpy(m, p, q), m, p, q, 0, p)
    BY <2>3, <2>4 DEF WritesAt, w
  <2>6. "strcpy" \in WriteNames /\ Strs!Called("strcpy", p, q, 0, Strs!strcpy(m, p, q), p)
    BY <1>5 DEF WriteNames, Strs!Writes
  <2> QED BY <2>5, <2>6, WrittenKept, Zenon
<1>6. ASSUME Strs!Inside(end, k + 1), Strs!Apart(p, end + k + 1 - p, q, k + 1),
             Strs!Writes("strcat", p, q, 0, Strs!strcat(m, p, q))
      PROVE  Kept'
  <2>1. MayCopy(m, end, q, k + 1)
    <3>1. end + k + 1 - p \in Nat /\ p <= end /\ end + (k + 1) <= p + (end + k + 1 - p) /\ p + (end + k + 1 - p) <= MemSize
          /\ k + 1 \in Nat
      BY <1>1, <1>4, <1>6 DEF Strs!Inside, end
    <3> QED BY <1>1, <1>4, <1>6, <3>1, ApartMayCopy, SMTT(40)
  <2>2. MayCopy(m, p + Len(v), q, Len(w) + 1)
    BY <1>2, <2>1 DEF end
  <2>3. Holds(Strs!strcat(m, p, q), p, v \o w) /\ Untouched(Strs!strcat(m, p, q), m, p, Len(v \o w) + 1)
    BY <1>2, <2>2, StrcatRight, Zenon
  <2>4. Strs!Str(Strs!strcat(m, p, q), p) = v \o w
    BY <2>3, HoldsStr, Zenon
  <2>5. WritesAt("strcat", Strs!strcat(m, p, q), m, p, q, 0, p)
    BY <2>3, <2>4 DEF WritesAt, v, w
  <2>6. "strcat" \in WriteNames /\ Strs!Called("strcat", p, q, 0, Strs!strcat(m, p, q), p)
    BY <1>6 DEF WriteNames, Strs!Writes
  <2> QED BY <2>5, <2>6, WrittenKept, Zenon
<1>7. ASSUME NEW n \in Addr, Strs!Inside(p, n), Strs!Inside(q, n), Strs!Writes("memmove", p, q, n, Strs!memmove(m, p, q, n))
      PROVE  Kept'
  <2>1. n \in Nat
    BY AddrIs
  <2>2. Strs!Piece(Strs!memmove(m, p, q, n), p, n) = Strs!Piece(m, q, n) /\ Untouched(Strs!memmove(m, p, q, n), m, p, n)
    BY <1>1, <1>7, <2>1, MemmoveRight
  <2>5. WritesAt("memmove", Strs!memmove(m, p, q, n), m, p, q, n, p)
    BY <2>2 DEF WritesAt
  <2>6. "memmove" \in WriteNames /\ Strs!Called("memmove", p, q, n, Strs!memmove(m, p, q, n), p)
    BY <1>7 DEF WriteNames, Strs!Writes
  <2> QED BY <2>5, <2>6, WrittenKept, Zenon
<1>8. ASSUME NEW n \in Addr, Strs!Inside(p, n), Strs!Writes("memset", p, q, n, Strs!memset(m, p, 1, n))
      PROVE  Kept'
  <2>1. n \in Nat
    BY AddrIs
  <2>2. Strs!Piece(Strs!memset(m, p, 1, n), p, n) = [j \in 1 .. n |-> 1] /\ Untouched(Strs!memset(m, p, 1, n), m, p, n)
    BY <1>1, <1>8, <2>1, MemsetRight
  <2>5. WritesAt("memset", Strs!memset(m, p, 1, n), m, p, q, n, p)
    BY <2>2 DEF WritesAt
  <2>6. "memset" \in WriteNames /\ Strs!Called("memset", p, q, n, Strs!memset(m, p, 1, n), p)
    BY <1>8 DEF WriteNames, Strs!Writes
  <2> QED BY <2>5, <2>6, WrittenKept, Zenon
<1>9. ASSUME NEW n \in Addr PROVE n \in Nat /\ CutTo(Strs!Cut(w, n), w, n) /\ Strs!strnlen(m, q, n) = Len(Strs!Cut(w, n))
      /\ Len(Strs!Cut(w, n)) \in Nat /\ Len(Strs!Cut(w, n)) <= n /\ Len(Strs!Cut(w, n)) <= k
  <2>1. n \in Nat
    BY AddrIs
  <2>2. CutTo(Strs!Cut(w, n), w, n) /\ Strs!strnlen(m, q, n) = Len(Strs!Cut(w, n))
    BY <1>1, <2>1, CutStr, Zenon DEF w
  <2>3. Len(Strs!Cut(w, n)) \in Nat /\ Len(Strs!Cut(w, n)) <= n /\ Len(Strs!Cut(w, n)) <= Len(w)
    BY <1>2, <2>2, CutPart, Zenon
  <2> QED BY <1>2, <2>1, <2>2, <2>3
<1>10. ASSUME NEW n \in Addr, Strs!Inside(p, n), Strs!Apart(p, n, q, k + 1),
              Strs!Writes("strncpy", p, q, n, Strs!strncpy(m, p, q, n))
       PROVE  Kept'
  <2> DEFINE c == Strs!Cut(w, n)
  <2>1. n \in Nat /\ CutTo(c, w, n) /\ Strs!strnlen(m, q, n) = Len(c) /\ Len(c) \in Nat /\ Len(c) <= n /\ Len(c) <= k
    BY <1>9
  <2> HIDE DEF c
  <2>2. MayCopy(m, p, q, Len(c)) /\ p + n <= MemSize
    <3>1. /\ p <= p /\ p + Len(c) <= p + n /\ p + n <= MemSize /\ q + (k + 1) <= MemSize
          /\ k + 1 \in Nat /\ Len(c) <= k + 1
      BY <1>1, <1>4, <1>10, <2>1 DEF Strs!Inside
    <3> QED BY <1>1, <1>10, <2>1, <3>1, ApartMayCopy
  <2>3. Padded(Strs!strncpy(m, p, q, n), p, c, n) /\ Untouched(Strs!strncpy(m, p, q, n), m, p, n)
    BY <1>1, <2>1, <2>2, StrncpyRight, Zenon DEF w
  <2>5. WritesAt("strncpy", Strs!strncpy(m, p, q, n), m, p, q, n, p)
    BY <2>3 DEF WritesAt, c, w
  <2>6. "strncpy" \in WriteNames /\ Strs!Called("strncpy", p, q, n, Strs!strncpy(m, p, q, n), p)
    BY <1>10 DEF WriteNames, Strs!Writes
  <2> QED BY <2>5, <2>6, WrittenKept, Zenon
<1>11. ASSUME NEW n \in Addr, Strs!Inside(end, n + 1), Strs!Apart(p, end + n + 1 - p, q, k + 1),
              Strs!Writes("strncat", p, q, n, Strs!strncat(m, p, q, n))
       PROVE  Kept'
  <2> DEFINE c == Strs!Cut(w, n)
  <2>1. n \in Nat /\ CutTo(c, w, n) /\ Strs!strnlen(m, q, n) = Len(c) /\ Len(c) \in Nat /\ Len(c) <= n /\ Len(c) <= k
    BY <1>9
  <2> HIDE DEF c
  <2>2. MayCopy(m, end, q, Len(c))
    <3>1. end + n + 1 - p \in Nat /\ p <= end /\ end + Len(c) <= p + (end + n + 1 - p) /\ p + (end + n + 1 - p) <= MemSize
          /\ k + 1 \in Nat /\ Len(c) <= k + 1
      BY <1>1, <1>4, <1>11, <2>1 DEF Strs!Inside, end
    <3> QED BY <1>1, <1>4, <1>11, <2>1, <3>1, ApartMayCopy
  <2>3. MayCopy(m, p + Len(v), q, Len(c)) /\ p + Len(v) + n + 1 <= MemSize
    BY <1>2, <1>11, <1>4, <1>1, <2>1, <2>2 DEF end, Strs!Inside
  <2>4. Holds(Strs!strncat(m, p, q, n), p, v \o c) /\ Untouched(Strs!strncat(m, p, q, n), m, p, Len(v) + n + 1)
    BY <1>1, <2>1, <2>3, StrncatRight, Zenon DEF w, v
  <2>7. Strs!Str(Strs!strncat(m, p, q, n), p) = v \o c
    BY <2>4, HoldsStr, Zenon
  <2>5. WritesAt("strncat", Strs!strncat(m, p, q, n), m, p, q, n, p)
    BY <2>4, <2>7 DEF WritesAt, c, w, v
  <2>6. "strncat" \in WriteNames /\ Strs!Called("strncat", p, q, n, Strs!strncat(m, p, q, n), p)
    BY <1>11 DEF WriteNames, Strs!Writes
  <2> QED BY <2>5, <2>6, WrittenKept, Zenon
<1>12. ASSUME NEW n \in Addr, Strs!Inside(p, n), Strs!Inside(q, n), Strs!Apart(p, n, q, n),
              Strs!Called("memccpy", p, q, n, Strs!memccpy(m, p, q, 0, n).m, Strs!memccpy(m, p, q, 0, n).ret)
       PROVE  Kept'
  <2> DEFINE c == Strs!Cut(w, n)
             r == Strs!memccpy(m, p, q, 0, n)
  <2>1. n \in Nat /\ CutTo(c, w, n)
    BY <1>9
  <2>2. MayCopy(m, p, q, n)
    BY <1>1, <1>12, <2>1, ApartMayCopy DEF Strs!Inside
  <2> HIDE DEF c
  <2>3. CutCopied(r, m, p, c, n)
    BY <1>1, <2>1, <2>2, MemccpyRight, Zenon DEF w
  <2> HIDE DEF r
  <2>4. /\ Strs!Piece(r.m, p, Len(c)) = c
        /\ Untouched(r.m, m, p, IF Len(c) < n THEN Len(c) + 1 ELSE Len(c))
        /\ IF Len(c) < n THEN r.ret = p + Len(c) + 1 /\ r.m[p + Len(c)] = 0 ELSE r.ret = Strs!NULL
    BY <2>3 DEF CutCopied
  <2>5. WritesAt("memccpy", r.m, m, p, q, n, r.ret)
    BY <2>4 DEF WritesAt, c, w
  <2>6. "memccpy" \in WriteNames /\ Strs!Called("memccpy", p, q, n, r.m, r.ret)
    BY <1>12 DEF WriteNames, r
  <2> QED BY <2>5, <2>6, WrittenKept, Zenon
<1> QED BY <1>3, <1>5, <1>6, <1>7, <1>8, <1>10, <1>11, <1>12

StringsInv == prog = "strings" => Kept

LEMMA StartKept == StringsInit => StringsInv
<1> SUFFICES ASSUME Strs!Init PROVE Kept
  BY DEF StringsInit, StringsInv
<1>1. PICK m \in [Strs!Addr -> Chars] :
        m[MemSize - 1] = 0 /\ st = [old |-> m, m |-> m, f |-> "none", p |-> 0, q |-> 0, n |-> 0, ret |-> 0]
  BY Zenon DEF Strs!Init
<1>2. Closed(m)
  BY <1>1, StringsAssumption DEF Closed, Mem, Addr
<1>3. st.old = m /\ st.m = m /\ st.f = "none" /\ Shape(st)
  BY <1>1 DEF Shape
<1>4. FindsAt("none", st.old, st.p, st.q, st.n, st.ret)
  <2>1. /\ "none" # "strchr" /\ "none" # "strrchr" /\ "none" # "memchr" /\ "none" # "memrchr" /\ "none" # "strspn"
        /\ "none" # "strcspn" /\ "none" # "strpbrk" /\ "none" # "strstr" /\ "none" # "strnstr"
        /\ "none" # "strcmp" /\ "none" # "strncmp" /\ "none" # "memcmp"
    OBVIOUS
  <2> QED BY <2>1, Zenon DEF FindsAt
<1>5. WritesAt("none", st.m, st.old, st.p, st.q, st.n, st.ret)
  <2>1. /\ "none" # "memmove" /\ "none" # "memset" /\ "none" # "strcpy" /\ "none" # "strcat"
        /\ "none" # "strncat" /\ "none" # "strncpy" /\ "none" # "memccpy"
    OBVIOUS
  <2> QED BY <2>1, Zenon DEF WritesAt
<1> QED BY <1>2, <1>3, <1>4, <1>5, Zenon DEF Kept

LEMMA StepKept == StringsInv /\ [strings]_<<prog, st>> => StringsInv'
<1> SUFFICES ASSUME StringsInv, [strings]_<<prog, st>>, prog' = "strings" PROVE Kept'
  BY DEF StringsInv
<1>1. CASE strings
  <2>1. Kept
    BY <1>1 DEF strings, StringsInv
  <2>2. Shape(st) /\ Closed(st.old) /\ (st.f = "none" => st.m = st.old)
    BY <2>1 DEF Kept
  <2>3. ASSUME st.f = "none" PROVE Waiting(st.old)
    BY <2>2, <2>3 DEF Waiting
  <2>4. CASE \E p \in Strs!Addr : \E c \in Chars : Strs!in_string(p, c)
    <3>1. PICK p \in Addr, c \in Chars : Strs!in_string(p, c)
      BY <2>4, Zenon DEF Addr
    <3>2. st.f = "none"
      BY <3>1, Zenon DEF Strs!in_string
    <3> QED BY <2>3, <3>1, <3>2, InStringKept, Zenon
  <2>5. CASE \E p, q \in Strs!Addr : Strs!two_strings(p, q) \/ Strs!writes(p, q)
    <3>1. PICK p \in Addr, q \in Addr : Strs!two_strings(p, q) \/ Strs!writes(p, q)
      BY <2>5, Zenon DEF Addr
    <3>2. CASE Strs!two_strings(p, q)
      <4>1. st.f = "none"
        BY <3>2, Zenon DEF Strs!two_strings
      <4> QED BY <2>3, <3>2, <4>1, TwoStringsKept, Zenon
    <3>3. CASE Strs!writes(p, q)
      <4>1. st.f = "none"
        BY <3>3, Zenon DEF Strs!writes
      <4> QED BY <2>3, <3>3, <4>1, WritesKept, Zenon
    <3> QED BY <3>1, <3>2, <3>3
  <2> QED BY <1>1, <2>4, <2>5, Zenon DEF strings, Strs!Next
<1>3. CASE UNCHANGED <<prog, st>>
  <2>1. Kept /\ st' = st
    BY <1>3 DEF StringsInv
  <2> QED BY <2>1, Zenon DEF Kept
<1> QED BY <1>1, <1>3

LEMMA KeptIsPromise == StringsInv => Strings_KeepPromises
BY FindsRightIs, WritesRightIs DEF StringsInv, Kept, Strings_KeepPromises

\* The string functions find, compare and write what they promise, whatever the
\* memory, the pointers and the counts, memmove also when source and target overlap.
THEOREM StringsKeepPromises == StringsSpec => []Strings_KeepPromises
<1>1. StringsInit => StringsInv
  BY StartKept
<1>2. StringsInv /\ [strings]_<<prog, st>> => StringsInv'
  BY StepKept
<1>3. StringsInv => Strings_KeepPromises
  BY KeptIsPromise
<1> QED BY <1>1, <1>2, <1>3, PTL DEF StringsSpec

-----------------------------------------------------------------------------
(* The filters.  Counting places of a text.                                *)


Upto(P, k) == {e \in P : e <= k}
Count(P, k) == Cardinality(Upto(P, k))
Positive(P) == \A e \in P : e \in Nat /\ e > 0

LEMMA UptoIs ==
  ASSUME NEW P, NEW k, NEW e
  PROVE  e \in Upto(P, k) <=> e \in P /\ e <= k
BY Zenon DEF Upto

LEMMA CountIs ==
  ASSUME NEW P, Positive(P), NEW k \in Nat
  PROVE  IsFiniteSet(Upto(P, k)) /\ Count(P, k) \in Nat
<1>1. ASSUME NEW e \in Upto(P, k) PROVE e \in 1 .. k
  BY UptoIs DEF Positive
<1>2. IsFiniteSet(1 .. k) /\ Upto(P, k) \in SUBSET (1 .. k)
  BY <1>1, FS_Interval
<1>3. IsFiniteSet(Upto(P, k))
  BY <1>2, FS_Subset, Zenon
<1> QED BY <1>3, FS_CardinalityType DEF Count

LEMMA CountNone ==
  ASSUME NEW P, Positive(P)
  PROVE  Count(P, 0) = 0
<1>1. ASSUME NEW e \in Upto(P, 0) PROVE FALSE
  BY UptoIs DEF Positive
<1>2. Upto(P, 0) = {}
  BY <1>1, Zenon
<1> QED BY <1>2, FS_EmptySet DEF Count

LEMMA CountNext ==
  ASSUME NEW P, Positive(P), NEW k \in Nat
  PROVE  Count(P, k + 1) = IF k + 1 \in P THEN Count(P, k) + 1 ELSE Count(P, k)
<1>0. \A e \in P : e <= k + 1 <=> e <= k \/ e = k + 1
  BY DEF Positive
<1>1. CASE k + 1 \in P
  <2>1. \A e : e \in Upto(P, k + 1) <=> e \in Upto(P, k) \cup {k + 1}
    BY <1>0, <1>1, UptoIs
  <2>2. k + 1 \notin Upto(P, k)
    BY UptoIs
  <2>3. Upto(P, k + 1) = Upto(P, k) \cup {k + 1}
    BY <2>1
  <2>4. Cardinality(Upto(P, k) \cup {k + 1}) = Cardinality(Upto(P, k)) + 1
    BY <2>2, CountIs, FS_AddElement
  <2> QED BY <1>1, <2>3, <2>4 DEF Count
<1>2. CASE k + 1 \notin P
  <2>1. \A e : e \in Upto(P, k + 1) <=> e \in Upto(P, k)
    BY <1>0, <1>2, UptoIs
  <2>2. Upto(P, k + 1) = Upto(P, k)
    BY <2>1
  <2> QED BY <1>2, <2>2 DEF Count
<1> QED BY <1>1, <1>2

\* Between two places there are as many as the counts differ, none if no place is
\* between, and more at a place than before it.
LEMMA CountGrows ==
  ASSUME NEW P, Positive(P), NEW j \in Nat, NEW k \in Nat, j <= k
  PROVE  /\ Count(P, j) <= Count(P, k)
         /\ (\A e \in P : e <= j \/ k < e) => Count(P, j) = Count(P, k)
         /\ k \in P /\ j < k => Count(P, j) < Count(P, k)
<1>1. Upto(P, j) \in SUBSET Upto(P, k)
  <2>1. ASSUME NEW e \in Upto(P, j) PROVE e \in Upto(P, k)
    BY UptoIs DEF Positive
  <2> QED BY <2>1, Zenon
<1>2. IsFiniteSet(Upto(P, k)) /\ Cardinality(Upto(P, j)) \in Nat /\ Cardinality(Upto(P, k)) \in Nat
  BY CountIs DEF Count
<1>3. /\ Cardinality(Upto(P, j)) <= Cardinality(Upto(P, k))
      /\ Cardinality(Upto(P, j)) = Cardinality(Upto(P, k)) => Upto(P, j) = Upto(P, k)
  BY <1>1, <1>2, FS_Subset
<1>4. ASSUME \A e \in P : e <= j \/ k < e PROVE Upto(P, j) = Upto(P, k)
  <2>1. ASSUME NEW e \in Upto(P, k) PROVE e \in Upto(P, j)
    BY UptoIs, <1>4 DEF Positive
  <2> QED BY <2>1, <1>1
<1>5. ASSUME k \in P, j < k PROVE Upto(P, j) # Upto(P, k)
  BY <1>5, UptoIs
<1> QED BY <1>2, <1>3, <1>4, <1>5 DEF Count

LEMMA CountAll ==
  ASSUME NEW P, NEW k \in Nat, \A e \in P : e <= k
  PROVE  Count(P, k) = Cardinality(P)
<1>1. \A e : e \in Upto(P, k) <=> e \in P
  BY UptoIs, Zenon
<1>2. Upto(P, k) = P
  BY <1>1
<1> QED BY <1>2 DEF Count

-----------------------------------------------------------------------------
(* What wc counts and what head shows of a text.                           *)

LEMMA PlacesIn ==
  ASSUME NEW t \in Seq(Nat)
  PROVE  /\ Positive(Filt!Newlines(t)) /\ Positive(Filt!WordStarts(t))
         /\ \A e \in Filt!Newlines(t) : e <= Len(t)
         /\ \A e \in Filt!WordStarts(t) : e <= Len(t)
         /\ \A e \in 1 .. Len(t) : e \in Filt!Newlines(t) <=> t[e] = Filt!NEWLINE
         /\ \A e \in 1 .. Len(t) : e \in Filt!WordStarts(t) <=> ~Filt!Space(t[e]) /\ (e = 1 \/ Filt!Space(t[e - 1]))
<1>1. DOMAIN t = 1 .. Len(t)
  OBVIOUS
<1>2. /\ \A e : e \in Filt!Newlines(t) <=> e \in 1 .. Len(t) /\ t[e] = Filt!NEWLINE
      /\ \A e : e \in Filt!WordStarts(t) <=>
                  e \in 1 .. Len(t) /\ ~Filt!Space(t[e]) /\ (e = 1 \/ Filt!Space(t[e - 1]))
  BY <1>1, Zenon DEF Filt!Newlines, Filt!WordStarts
<1>3. \A e \in 1 .. Len(t) : e \in Nat /\ e > 0 /\ e <= Len(t)
  OBVIOUS
<1>4. (\A e \in Filt!Newlines(t) : e \in 1 .. Len(t)) /\ (\A e \in Filt!WordStarts(t) : e \in 1 .. Len(t))
  BY <1>2, Zenon
<1> QED BY <1>2, <1>3, <1>4, Zenon DEF Positive

\* What wc knows behind k bytes of t.
CountsOf(t, k) ==
  [l |-> Count(Filt!Newlines(t), k), w |-> Count(Filt!WordStarts(t), k), c |-> k,
   inword |-> k > 0 /\ ~Filt!Space(t[k])]

LEMMA CountsStart ==
  ASSUME NEW t \in Seq(Nat)
  PROVE  CountsOf(t, 0) = Filt!Zero
<1>1. Count(Filt!Newlines(t), 0) = 0 /\ Count(Filt!WordStarts(t), 0) = 0
  BY PlacesIn, CountNone
<1>2. (0 > 0 /\ ~Filt!Space(t[0])) = FALSE
  OBVIOUS
<1> QED BY <1>1, <1>2, Zenon DEF CountsOf, Filt!Zero

LEMMA CountsStep ==
  ASSUME NEW t \in Seq(Nat), NEW k \in Nat, k < Len(t)
  PROVE  Filt!Counted(CountsOf(t, k), t[k + 1]) = CountsOf(t, k + 1)
<1> DEFINE nl == Filt!Newlines(t)
           ws == Filt!WordStarts(t)
           c == t[k + 1]
           q == CountsOf(t, k)
<1>1. /\ q.l = Count(nl, k) /\ q.w = Count(ws, k) /\ q.c = k
      /\ q.inword = (k > 0 /\ ~Filt!Space(t[k]))
  BY DEF CountsOf
<1>2. /\ Count(nl, k + 1) = IF k + 1 \in nl THEN Count(nl, k) + 1 ELSE Count(nl, k)
      /\ Count(ws, k + 1) = IF k + 1 \in ws THEN Count(ws, k) + 1 ELSE Count(ws, k)
  BY PlacesIn, CountNext
<1>3. k + 1 \in nl <=> c = Filt!NEWLINE
  BY PlacesIn
<1>4. k + 1 \in ws <=> ~Filt!Space(c) /\ ~q.inword
  <2>1. k + 1 \in ws <=> ~Filt!Space(c) /\ (k + 1 = 1 \/ Filt!Space(t[k + 1 - 1]))
    BY PlacesIn
  <2>2. k + 1 - 1 = k /\ (k + 1 = 1 <=> ~(k > 0))
    OBVIOUS
  <2> QED BY <2>1, <2>2, <1>1
<1>5. k + 1 > 0
  OBVIOUS
<1> HIDE DEF nl, ws, c, q
<1>6. Filt!Counted(q, c) =
        [l |-> Count(nl, k + 1), w |-> Count(ws, k + 1), c |-> k + 1, inword |-> ~Filt!Space(c)]
  BY <1>1, <1>2, <1>3, <1>4 DEF Filt!Counted
<1>7. CountsOf(t, k + 1) =
        [l |-> Count(nl, k + 1), w |-> Count(ws, k + 1), c |-> k + 1, inword |-> ~Filt!Space(c)]
  BY <1>5 DEF CountsOf, nl, ws, c
<1> QED BY <1>6, <1>7 DEF q, c

LEMMA CountsEnd ==
  ASSUME NEW t \in Seq(Nat)
  PROVE  /\ CountsOf(t, Len(t)).l = Cardinality(Filt!Newlines(t))
         /\ CountsOf(t, Len(t)).w = Cardinality(Filt!WordStarts(t))
         /\ CountsOf(t, Len(t)).c = Len(t)
<1>1. /\ Count(Filt!Newlines(t), Len(t)) = Cardinality(Filt!Newlines(t))
      /\ Count(Filt!WordStarts(t), Len(t)) = Cardinality(Filt!WordStarts(t))
  BY PlacesIn, CountAll
<1> QED BY <1>1 DEF CountsOf

\* The lines that head shows end at a newline with LINES newlines up to it, or
\* there is no such newline and they are all of the text.
Lines(t, k) == Count(Filt!Newlines(t), k)
LastShown(t, z) == z \in Filt!Newlines(t) /\ Lines(t, z) = LINES

LEMMA LinesAre ==
  ASSUME NEW t \in Seq(Nat)
  PROVE  /\ \A k \in Nat : Lines(t, k) \in Nat
         /\ Lines(t, 0) = 0
         /\ \A j, k \in Nat : j <= k => Lines(t, j) <= Lines(t, k)
         /\ \A j, k \in Nat : j < k /\ k \in Filt!Newlines(t) => Lines(t, j) < Lines(t, k)
         /\ \A j, k \in Nat : j <= k /\ (\A e \in Filt!Newlines(t) : e <= j \/ k < e) => Lines(t, j) = Lines(t, k)
         /\ \A k \in Nat : Lines(t, k + 1) = IF k + 1 \in Filt!Newlines(t) THEN Lines(t, k) + 1 ELSE Lines(t, k)
<1>0. Positive(Filt!Newlines(t))
  BY PlacesIn
<1> DEFINE P == Filt!Newlines(t)
<1> HIDE DEF P
<1>1. Positive(P)
  BY <1>0 DEF P
<1>2. /\ \A k \in Nat : Count(P, k) \in Nat
      /\ Count(P, 0) = 0
      /\ \A k \in Nat : Count(P, k + 1) = IF k + 1 \in P THEN Count(P, k) + 1 ELSE Count(P, k)
  BY <1>1, CountIs, CountNone, CountNext
<1>3. ASSUME NEW j \in Nat, NEW k \in Nat
      PROVE  /\ j <= k => Count(P, j) <= Count(P, k)
             /\ j < k /\ k \in P => Count(P, j) < Count(P, k)
             /\ j <= k /\ (\A e \in P : e <= j \/ k < e) => Count(P, j) = Count(P, k)
  <2>1. j < k => j <= k
    OBVIOUS
  <2> QED BY <1>1, <2>1, CountGrows, Zenon
<1> QED BY <1>2, <1>3, Zenon DEF Lines, P

LEMMA SameCardinality == \A S : Filt!Cardinality(S) = Cardinality(S)
BY Zenon DEF Filt!Cardinality, Cardinality

LEMMA FirstLinesAre ==
  ASSUME NEW t \in Seq(Nat)
  PROVE  \E z \in 0 .. Len(t) :
           /\ Filt!FirstLines(t) = SubSeq(t, 1, z)
           /\ LastShown(t, z) \/ (z = Len(t) /\ \A e \in Filt!Newlines(t) : ~LastShown(t, e))
<1> DEFINE ends == {e \in Filt!Newlines(t) : Filt!Cardinality({j \in Filt!Newlines(t) : j <= e}) = LINES}
<1>1. \A e : e \in ends <=> LastShown(t, e)
  BY SameCardinality, ZenonT(60) DEF LastShown, Lines, Count, Upto
<1>2. Filt!FirstLines(t) = IF ends = {} THEN t ELSE SubSeq(t, 1, CHOOSE e \in ends : TRUE)
  BY ZenonT(60) DEF Filt!FirstLines
<1> HIDE DEF ends
<1>3. CASE ends = {}
  <2>1. SubSeq(t, 1, Len(t)) = t /\ Len(t) \in 0 .. Len(t)
    OBVIOUS
  <2>2. \A e \in Filt!Newlines(t) : ~LastShown(t, e)
    BY <1>1, <1>3, Zenon
  <2> QED BY <1>2, <1>3, <2>1, <2>2, Zenon
<1>4. CASE ends # {}
  <2>1. PICK z : z = (CHOOSE e \in ends : TRUE) /\ z \in ends
    BY <1>4, Zenon
  <2>2. z \in 0 .. Len(t)
    BY <1>1, <2>1, PlacesIn DEF LastShown, Positive
  <2> QED BY <1>1, <1>2, <1>4, <2>1, <2>2, Zenon
<1> QED BY <1>3, <1>4

LEMMA FirstLinesAt ==
  ASSUME NEW t \in Seq(Nat), NEW x \in 0 .. Len(t),
         LastShown(t, x) \/ (x = Len(t) /\ Lines(t, x) < LINES)
  PROVE  Filt!FirstLines(t) = SubSeq(t, 1, x)
<1>1. PICK z \in 0 .. Len(t) :
        /\ Filt!FirstLines(t) = SubSeq(t, 1, z)
        /\ LastShown(t, z) \/ (z = Len(t) /\ \A e \in Filt!Newlines(t) : ~LastShown(t, e))
  BY FirstLinesAre
<1>2. /\ Lines(t, x) \in Nat /\ Lines(t, z) \in Nat
      /\ x < z /\ z \in Filt!Newlines(t) => Lines(t, x) < Lines(t, z)
      /\ z < x /\ x \in Filt!Newlines(t) => Lines(t, z) < Lines(t, x)
      /\ z <= x => Lines(t, z) <= Lines(t, x)
  <2>1. x \in Nat /\ z \in Nat
    OBVIOUS
  <2> QED BY <2>1, LinesAre, Zenon
<1>3. LINES \in Nat
  BY FiltersAssumption
<1>4. z = x
  BY <1>1, <1>2, <1>3 DEF LastShown
<1> QED BY <1>1, <1>4

\* Before that place there is always more to show.
LEMMA FirstLinesUnder ==
  ASSUME NEW t \in Seq(Nat), NEW x \in 0 .. Len(t), x = 0 \/ Lines(t, x - 1) < LINES
  PROVE  \E k \in 0 .. Len(Filt!FirstLines(t)) : SubSeq(t, 1, x) = SubSeq(Filt!FirstLines(t), 1, k)
<1>1. PICK z \in 0 .. Len(t) :
        /\ Filt!FirstLines(t) = SubSeq(t, 1, z)
        /\ LastShown(t, z) \/ (z = Len(t) /\ \A e \in Filt!Newlines(t) : ~LastShown(t, e))
  BY FirstLinesAre
<1>2. x <= z
  <2>1. CASE z < x
    <3>1. x - 1 \in Nat /\ z <= x - 1 /\ z \in Nat
      BY <2>1
    <3>2. Lines(t, z) <= Lines(t, x - 1) /\ Lines(t, z) \in Nat /\ Lines(t, x - 1) \in Nat
      BY <3>1, LinesAre
    <3>3. LINES \in Nat
      BY FiltersAssumption
    <3> QED BY <1>1, <2>1, <3>1, <3>2, <3>3 DEF LastShown
  <2> QED BY <2>1
<1>3. Len(SubSeq(t, 1, z)) = z /\ SubSeq(SubSeq(t, 1, z), 1, x) = SubSeq(t, 1, x)
  BY <1>2
<1> QED BY <1>1, <1>2, <1>3

-----------------------------------------------------------------------------
(* The file under way.                                                     *)

\* What a program should give for t.
Due(prg, t) ==
  IF prg = "cat" THEN t
  ELSE IF prg = "wc" THEN << <<Cardinality(Filt!Newlines(t)), Cardinality(Filt!WordStarts(t)), Len(t)>> >>
  ELSE Filt!FirstLines(t)
Begun(due, o) == \E k \in 0 .. Len(due) : o = SubSeq(due, 1, k)

\* The last n bytes in front of off are in buf, and zeros behind the longest read.
InBuf(b, t, off, n) == \A a \in 0 .. (n - 1) : b[a] = t[(off - n) + a + 1]
ZerosFrom(b, k) == \A a \in 0 .. BUFSIZE : a >= k => b[a] = 0

\* head has shown the beginning o, with that many lines, LINES only at a newline.
Showing(t, o, line) ==
  /\ Len(o) \in 0 .. Len(t) /\ o = SubSeq(t, 1, Len(o))
  /\ line = Lines(t, Len(o)) /\ line <= LINES /\ (line = LINES => Len(o) \in Filt!Newlines(t))

AtRead(prg, t, off, o, line, count) ==
  /\ off \in 0 .. Len(t)
  /\ prg = "cat" => o = SubSeq(t, 1, off) /\ line = 0
  /\ prg = "wc" => o = <<>> /\ line = 0 /\ count = CountsOf(t, off)
  /\ prg = "head" => Showing(t, o, line) /\ Len(o) <= off /\ (line < LINES => Len(o) = off)
AtBytes(prg, t, off, o, n, p, line, count, b) ==
  /\ prg = "wc" /\ o = <<>> /\ line = 0
  /\ off \in 0 .. Len(t) /\ n \in 0 .. off /\ p \in 0 .. n
  /\ InBuf(b, t, off, n) /\ count = CountsOf(t, (off - n) + p)
AtLines(prg, t, off, o, n, p, line, b, k) ==
  /\ prg = "head" /\ Showing(t, o, line)
  /\ off \in 0 .. Len(t) /\ n \in 0 .. off /\ p \in 0 .. n
  /\ InBuf(b, t, off, n) /\ k = n /\ Len(o) = (off - n) + p

LEMMA BegunAtStart ==
  ASSUME NEW prg, NEW t \in Seq(Nat)
  PROVE  Begun(Due(prg, t), <<>>)
<1>1. ASSUME NEW T, NEW u \in Seq(T) PROVE Begun(u, <<>>)
  <2>1. 0 \in 0 .. Len(u) /\ SubSeq(u, 1, 0) = <<>>
    OBVIOUS
  <2> QED BY <2>1 DEF Begun
<1>2. \A x : <<x>> \in Seq({x})
  OBVIOUS
<1>3. Filt!FirstLines(t) \in Seq(Nat)
  <2>1. PICK z \in 0 .. Len(t) : Filt!FirstLines(t) = SubSeq(t, 1, z)
    BY FirstLinesAre
  <2>2. SubSeq(t, 1, z) \in Seq(Nat)
    OBVIOUS
  <2> QED BY <2>1, <2>2
<1> QED BY <1>1, <1>2, <1>3, Zenon DEF Due

LEMMA Opened ==
  ASSUME NEW prg, NEW t \in Seq(Nat)
  PROVE  AtRead(prg, t, 0, <<>>, 0, Filt!Zero)
<1>1. SubSeq(t, 1, 0) = <<>> /\ Len(<<>>) = 0 /\ Len(t) \in Nat
  OBVIOUS
<1>2. Lines(t, 0) = 0 /\ CountsOf(t, 0) = Filt!Zero
  BY LinesAre, CountsStart
<1>3. LINES \in Nat \ {0}
  BY FiltersAssumption
<1> QED BY <1>1, <1>2, <1>3 DEF AtRead, Showing

\* k bytes of memory are the next ones of t behind x, and more of t is shown.
NextOf(t, x, b, p, k) == \A a \in 0 .. (k - 1) : b[p + a] = t[x + a + 1]
Extended(t, x, b, p, k) == SubSeq(t, 1, x) \o Filt!Piece(b, p, k) = SubSeq(t, 1, x + k)

LEMMA Appended ==
  ASSUME NEW t \in Seq(Nat), NEW x \in Nat, NEW b, NEW p \in Nat, NEW k \in Nat, x + k <= Len(t),
         NextOf(t, x, b, p, k)
  PROVE  Extended(t, x, b, p, k)
<1>1. Len(t) \in Nat /\ x <= Len(t)
  OBVIOUS
<1>2. \A e \in 1 .. k : b[p + e - 1] = t[x + e]
  <2>1. ASSUME NEW e \in 1 .. k PROVE b[p + e - 1] = t[x + e]
    <3>1. e - 1 \in 0 .. (k - 1) /\ p + (e - 1) = p + e - 1 /\ x + (e - 1) + 1 = x + e
      OBVIOUS
    <3>2. b[p + (e - 1)] = t[x + (e - 1) + 1]
      BY <3>1 DEF NextOf
    <3> QED BY <3>1, <3>2
  <2> QED BY <2>1
<1>3. Filt!Piece(b, p, k) = [e \in 1 .. k |-> t[x + e]]
  BY <1>2 DEF Filt!Piece
<1>4. \A e \in 1 .. k : t[x + e] \in Nat
  BY <1>1
<1> DEFINE u == [e \in 1 .. k |-> t[x + e]]
<1>5. u \in Seq(Nat) /\ Len(u) = k /\ \A e \in 1 .. k : u[e] = t[x + e]
  BY <1>4
<1>6. SubSeq(t, 1, x) \in Seq(Nat) /\ Len(SubSeq(t, 1, x)) = x /\ \A e \in 1 .. x : SubSeq(t, 1, x)[e] = t[e]
  BY <1>1
<1>7. SubSeq(t, 1, x + k) \in Seq(Nat) /\ Len(SubSeq(t, 1, x + k)) = x + k
      /\ \A e \in 1 .. (x + k) : SubSeq(t, 1, x + k)[e] = t[e]
  BY <1>1
<1> HIDE DEF u
<1>8. SubSeq(t, 1, x) \o u = SubSeq(t, 1, x + k)
  <2> DEFINE v == SubSeq(t, 1, x)
             w == SubSeq(t, 1, x + k)
  <2>1. /\ v \in Seq(Nat) /\ Len(v) = x /\ \A e \in 1 .. x : v[e] = t[e]
        /\ w \in Seq(Nat) /\ Len(w) = x + k /\ \A e \in 1 .. (x + k) : w[e] = t[e]
    BY <1>6, <1>7
  <2> HIDE DEF v, w
  <2>2. v \o u \in Seq(Nat) /\ Len(v \o u) = x + k
        /\ \A e \in 1 .. (x + k) : (v \o u)[e] = IF e <= x THEN v[e] ELSE u[e - x]
    <3>1. /\ v \o u \in Seq(Nat) /\ Len(v \o u) = Len(v) + Len(u)
          /\ \A e \in 1 .. (Len(v) + Len(u)) : (v \o u)[e] = IF e <= Len(v) THEN v[e] ELSE u[e - Len(v)]
      <4>1. v \in Seq(Nat) /\ u \in Seq(Nat)
        BY <2>1, <1>5
      <4> QED BY <4>1, ConcatProperties, Zenon
    <3> QED BY <3>1, <2>1, <1>5
  <2>3. ASSUME NEW e \in 1 .. (x + k) PROVE (v \o u)[e] = w[e]
    <3>1. CASE e <= x
      <4>1. e \in 1 .. x
        BY <3>1
      <4>2. (v \o u)[e] = v[e]
        BY <2>2, <3>1
      <4> QED BY <2>1, <4>1, <4>2
    <3>2. CASE ~(e <= x)
      <4>1. e - x \in 1 .. k /\ x + (e - x) = e
        BY <3>2
      <4>2. (v \o u)[e] = u[e - x]
        BY <2>2, <3>2, Zenon
      <4>3. u[e - x] = t[x + (e - x)]
        BY <1>5, <4>1, Zenon
      <4>4. w[e] = t[e]
        BY <2>1, Zenon
      <4> QED BY <4>1, <4>2, <4>3, <4>4, Zenon
    <3> QED BY <3>1, <3>2
  <2>4. v \o u = w
    BY <2>1, <2>2, <2>3, SeqEqual
  <2> QED BY <2>4 DEF v, w
<1> QED BY <1>3, <1>8, Zenon DEF u, Extended

\* What head has shown is always the beginning of the first lines.
LEMMA ShowingBegun ==
  ASSUME NEW t \in Seq(Nat), NEW o, NEW line, Showing(t, o, line)
  PROVE  Begun(Filt!FirstLines(t), o)
<1> DEFINE x == Len(o)
<1>1. x \in 0 .. Len(t) /\ o = SubSeq(t, 1, x) /\ line = Lines(t, x) /\ line <= LINES
      /\ (line = LINES => x \in Filt!Newlines(t))
  BY DEF Showing
<1> HIDE DEF x
<1>2. x = 0 \/ Lines(t, x - 1) < LINES
  <2>1. CASE x # 0
    <3>1. x - 1 \in Nat /\ x \in Nat /\ x - 1 <= x /\ x - 1 < x
      BY <1>1, <2>1
    <3>2. /\ Lines(t, x - 1) \in Nat /\ Lines(t, x) \in Nat /\ Lines(t, x - 1) <= Lines(t, x)
          /\ x \in Filt!Newlines(t) => Lines(t, x - 1) < Lines(t, x)
      BY <3>1, LinesAre, Zenon
    <3>3. LINES \in Nat
      BY FiltersAssumption
    <3> QED BY <1>1, <3>2, <3>3
  <2> QED BY <2>1
<1>3. \E k \in 0 .. Len(Filt!FirstLines(t)) : SubSeq(t, 1, x) = SubSeq(Filt!FirstLines(t), 1, k)
  BY <1>1, <1>2, FirstLinesUnder
<1> QED BY <1>1, <1>3, Zenon DEF Begun

Programs == {"cat", "wc", "head"}

LEMMA ReadBegun ==
  ASSUME NEW prg \in Programs, NEW t \in Seq(Nat), NEW off, NEW o, NEW line, NEW count,
         AtRead(prg, t, off, o, line, count)
  PROVE  Begun(Due(prg, t), o)
<1>1. CASE prg = "cat"
  <2>1. off \in 0 .. Len(t) /\ o = SubSeq(t, 1, off) /\ Due(prg, t) = t
    BY <1>1 DEF AtRead, Due
  <2> QED BY <2>1, Zenon DEF Begun
<1>2. CASE prg = "wc"
  BY <1>2, BegunAtStart DEF AtRead
<1>3. CASE prg = "head"
  <2>1. Showing(t, o, line) /\ Due(prg, t) = Filt!FirstLines(t)
    BY <1>3 DEF AtRead, Due
  <2> QED BY <2>1, ShowingBegun
<1> QED BY <1>1, <1>2, <1>3 DEF Programs

\* At the end of the file, or when head has its lines, everything is out.
Printed(prg, o, count) == IF prg = "wc" THEN << <<count.l, count.w, count.c>> >> ELSE o

LEMMA ReadEnds ==
  ASSUME NEW prg \in Programs, NEW t \in Seq(Nat), NEW off, NEW o, NEW line, NEW count,
         AtRead(prg, t, off, o, line, count), off = Len(t) \/ line = LINES
  PROVE  Printed(prg, o, count) = Due(prg, t)
<1>0. LINES \in Nat \ {0}
  BY FiltersAssumption
<1>1. CASE prg = "cat"
  <2>1. o = SubSeq(t, 1, off) /\ line = 0 /\ Due(prg, t) = t /\ Printed(prg, o, count) = o
    BY <1>1 DEF AtRead, Due, Printed
  <2>2. off = Len(t) /\ SubSeq(t, 1, Len(t)) = t
    BY <2>1, <1>0
  <2> QED BY <2>1, <2>2
<1>2. CASE prg = "wc"
  <2>1. line = 0 /\ count = CountsOf(t, off)
    BY <1>2 DEF AtRead
  <2>2. off = Len(t)
    BY <2>1, <1>0
  <2>3. /\ count.l = Cardinality(Filt!Newlines(t)) /\ count.w = Cardinality(Filt!WordStarts(t))
        /\ count.c = Len(t)
    BY <2>1, <2>2, CountsEnd
  <2>4. /\ Printed(prg, o, count) = << <<count.l, count.w, count.c>> >>
        /\ Due(prg, t) = << <<Cardinality(Filt!Newlines(t)), Cardinality(Filt!WordStarts(t)), Len(t)>> >>
    BY <1>2 DEF Printed, Due
  <2> QED BY <2>3, <2>4, Zenon
<1>3. CASE prg = "head"
  <2>1. Showing(t, o, line) /\ (line < LINES => Len(o) = off) /\ off \in 0 .. Len(t)
    BY <1>3, ZenonT(60) DEF AtRead
  <2>2. /\ Len(o) \in 0 .. Len(t) /\ o = SubSeq(t, 1, Len(o)) /\ line = Lines(t, Len(o)) /\ line <= LINES
        /\ (line = LINES => Len(o) \in Filt!Newlines(t))
    BY <2>1, Zenon DEF Showing
  <2>3. Lines(t, Len(o)) \in Nat
    BY <2>2, LinesAre
  <2>4. LastShown(t, Len(o)) \/ (Len(o) = Len(t) /\ Lines(t, Len(o)) < LINES)
    <3>1. CASE line = LINES
      BY <2>2, <3>1, Zenon DEF LastShown
    <3>2. CASE line < LINES
      BY <2>1, <2>2, <3>2, <1>0
    <3> QED BY <2>2, <2>3, <3>1, <3>2, <1>0
  <2>5. Filt!FirstLines(t) = SubSeq(t, 1, Len(o))
    BY <2>2, <2>4, FirstLinesAt
  <2>6. Due(prg, t) = Filt!FirstLines(t) /\ Printed(prg, o, count) = o
    BY <1>3 DEF Due, Printed
  <2> QED BY <2>2, <2>5, <2>6
<1> QED BY <1>1, <1>2, <1>3 DEF Programs

\* A read: buf afterwards.
FilledBy(b2, b, t, off, n) == \A a \in 0 .. BUFSIZE : b2[a] = IF a < n THEN t[off + a + 1] ELSE b[a]

LEMMA FilledInBuf ==
  ASSUME NEW t \in Seq(Nat), NEW off \in Nat, NEW n \in 1 .. BUFSIZE, NEW b, NEW b2, FilledBy(b2, b, t, off, n)
  PROVE  /\ NextOf(t, off, b2, 0, n)
         /\ InBuf(b2, t, off + n, n)
         /\ \A k \in Nat : k <= n /\ ZerosFrom(b, k) => ZerosFrom(b2, n)
<1>0. BUFSIZE \in Nat
  BY FiltersAssumption
<1>1. ASSUME NEW a \in 0 .. (n - 1) PROVE b2[0 + a] = t[off + a + 1] /\ b2[a] = t[((off + n) - n) + a + 1]
  <2>1. a \in 0 .. BUFSIZE /\ a < n /\ 0 + a = a /\ ((off + n) - n) + a + 1 = off + a + 1
    BY <1>0
  <2> QED BY <2>1 DEF FilledBy
<1>2. ASSUME NEW k \in Nat, k <= n, ZerosFrom(b, k) PROVE ZerosFrom(b2, n)
  BY <1>0, <1>2 DEF ZerosFrom, FilledBy
<1> QED BY <1>1, <1>2, Zenon DEF InBuf, NextOf

LEMMA CatReads ==
  ASSUME NEW t \in Seq(Nat), NEW off, NEW o, NEW line, NEW count, AtRead("cat", t, off, o, line, count),
         NEW n \in 1 .. BUFSIZE, n <= Len(t) - off, NEW k \in 0 .. n,
         NEW b, NEW b2, FilledBy(b2, b, t, off, n)
  PROVE  /\ k = n => AtRead("cat", t, off + n, o \o Filt!Piece(b2, 0, k), line, count)
         /\ Begun(Due("cat", t), o \o Filt!Piece(b2, 0, k))
<1>1. off \in 0 .. Len(t) /\ o = SubSeq(t, 1, off) /\ line = 0
  BY DEF AtRead
<1>2. off \in Nat /\ off + k <= Len(t) /\ n \in Nat /\ k \in Nat /\ 0 \in Nat /\ off + k \in 0 .. Len(t)
  BY <1>1
<1>3. NextOf(t, off, b2, 0, k)
  <2>1. NextOf(t, off, b2, 0, n)
    BY <1>2, FilledInBuf, Zenon
  <2>2. \A a \in 0 .. (k - 1) : a \in 0 .. (n - 1)
    OBVIOUS
  <2> QED BY <2>1, <2>2, Zenon DEF NextOf
<1>4. o \o Filt!Piece(b2, 0, k) = SubSeq(t, 1, off + k)
  <2>1. Extended(t, off, b2, 0, k)
    BY <1>2, <1>3, Appended, Zenon
  <2> QED BY <1>1, <2>1, Zenon DEF Extended
<1>5. Due("cat", t) = t
  BY DEF Due
<1>6. Begun(t, SubSeq(t, 1, off + k))
  BY <1>2, Zenon DEF Begun
<1>7. ASSUME k = n PROVE AtRead("cat", t, off + n, SubSeq(t, 1, off + k), line, count)
  BY <1>1, <1>2, <1>7 DEF AtRead
<1> QED BY <1>4, <1>5, <1>6, <1>7

LEMMA WcReads ==
  ASSUME NEW t \in Seq(Nat), NEW off, NEW o, NEW line, NEW count, AtRead("wc", t, off, o, line, count),
         NEW n \in 1 .. BUFSIZE, n <= Len(t) - off, NEW b, NEW b2, FilledBy(b2, b, t, off, n)
  PROVE  AtBytes("wc", t, off + n, o, n, 0, line, count, b2)
<1>1. off \in 0 .. Len(t) /\ o = <<>> /\ line = 0 /\ count = CountsOf(t, off)
  BY DEF AtRead
<1>2. off \in Nat /\ off + n \in 0 .. Len(t) /\ n \in 0 .. (off + n) /\ 0 \in 0 .. n /\ ((off + n) - n) + 0 = off
  BY <1>1
<1>3. InBuf(b2, t, off + n, n)
  BY <1>2, FilledInBuf
<1> QED BY <1>1, <1>2, <1>3 DEF AtBytes

LEMMA WcByte ==
  ASSUME NEW t \in Seq(Nat), NEW prg, NEW off, NEW o, NEW n, NEW p, NEW line, NEW count, NEW b,
         AtBytes(prg, t, off, o, n, p, line, count, b), p < n
  PROVE  AtBytes(prg, t, off, o, n, p + 1, line, Filt!Counted(count, b[p]), b)
<1>1. /\ prg = "wc" /\ o = <<>> /\ line = 0
      /\ off \in 0 .. Len(t) /\ n \in 0 .. off /\ p \in 0 .. n
      /\ InBuf(b, t, off, n) /\ count = CountsOf(t, (off - n) + p)
  BY DEF AtBytes
<1> DEFINE k == (off - n) + p
<1>2. k \in Nat /\ k < Len(t) /\ p \in 0 .. (n - 1) /\ (off - n) + p + 1 = k + 1 /\ (off - n) + (p + 1) = k + 1
      /\ p + 1 \in 0 .. n
  BY <1>1
<1>3. b[p] = t[k + 1]
  <2>1. b[p] = t[(off - n) + p + 1]
    BY <1>1, <1>2 DEF InBuf
  <2> QED BY <2>1, <1>2
<1> HIDE DEF k
<1>4. Filt!Counted(CountsOf(t, k), t[k + 1]) = CountsOf(t, k + 1)
  BY <1>2, CountsStep
<1>5. Filt!Counted(count, b[p]) = CountsOf(t, (off - n) + (p + 1))
  BY <1>1, <1>2, <1>3, <1>4 DEF k
<1> QED BY <1>1, <1>2, <1>5 DEF AtBytes

LEMMA WcEnds ==
  ASSUME NEW t \in Seq(Nat), NEW prg, NEW off, NEW o, NEW n, NEW p, NEW line, NEW count, NEW b,
         AtBytes(prg, t, off, o, n, p, line, count, b), p = n
  PROVE  AtRead(prg, t, off, o, line, count)
<1>1. /\ prg = "wc" /\ o = <<>> /\ line = 0
      /\ off \in 0 .. Len(t) /\ n \in 0 .. off /\ p \in 0 .. n
      /\ count = CountsOf(t, (off - n) + p)
  BY DEF AtBytes
<1>2. (off - n) + p = off
  BY <1>1
<1> QED BY <1>1, <1>2 DEF AtRead

LEMMA HeadReads ==
  ASSUME NEW t \in Seq(Nat), NEW off, NEW o, NEW line, NEW count, AtRead("head", t, off, o, line, count),
         line < LINES, NEW n \in 1 .. BUFSIZE, n <= Len(t) - off, NEW b, NEW b2, FilledBy(b2, b, t, off, n)
  PROVE  AtLines("head", t, off + n, o, n, 0, line, b2, n)
<1>1. off \in 0 .. Len(t) /\ Showing(t, o, line) /\ Len(o) = off
  BY DEF AtRead
<1>2. off \in Nat /\ off + n \in 0 .. Len(t) /\ n \in 0 .. (off + n) /\ 0 \in 0 .. n /\ ((off + n) - n) + 0 = off
  BY <1>1
<1>3. InBuf(b2, t, off + n, n)
  BY <1>2, FilledInBuf
<1> QED BY <1>1, <1>2, <1>3 DEF AtLines

LEMMA HeadEnough ==
  ASSUME NEW t \in Seq(Nat), NEW prg, NEW off, NEW o, NEW n, NEW p, NEW line, NEW b, NEW k, NEW count,
         AtLines(prg, t, off, o, n, p, line, b, k), line = LINES
  PROVE  AtRead(prg, t, off, o, line, count)
<1>1. /\ prg = "head" /\ Showing(t, o, line)
      /\ off \in 0 .. Len(t) /\ n \in 0 .. off /\ p \in 0 .. n /\ Len(o) = (off - n) + p
  BY DEF AtLines
<1>2. Len(o) <= off /\ ~(line < LINES)
  BY <1>1, FiltersAssumption
<1> QED BY <1>1, <1>2 DEF AtRead

-----------------------------------------------------------------------------
(* The inner loop of head.                                                 *)

Bytes == [0 .. BUFSIZE -> Nat]

\* strchr and strlen stop at the first place that there is.
LEMMA StopsAt ==
  ASSUME NEW b \in Bytes, NEW p \in Nat, NEW e \in 0 .. BUFSIZE, p <= e, NEW c \in Nat,
         \A a \in 0 .. BUFSIZE : p <= a /\ a < e => b[a] # 0 /\ b[a] # c
  PROVE  /\ b[e] \in {0, c} => Filt!strchr(b, p, c) = IF b[e] = c THEN e ELSE Filt!NULL
         /\ b[e] = 0 => Filt!strlen(b, p) = e - p
<1>1. /\ DOMAIN b = 0 .. BUFSIZE
      /\ \A a : a \in Filt!From(b, p) <=> a \in 0 .. BUFSIZE /\ a >= p
  BY DEF Bytes, Filt!From
<1>2. ASSUME NEW S, \A a \in S : a \in Filt!From(b, p) /\ a \in Int /\ e <= a, e \in S
      PROVE  Filt!First(S) = e
  <2>1. \A q \in S : (\A r \in S : q <= r) => q = e
    BY <1>2
  <2>2. \A r \in S : e <= r
    BY <1>2
  <2> QED BY <1>2, <2>1, <2>2, Zenon DEF Filt!First
<1>3. e \in Filt!From(b, p)
  BY <1>1
<1>4. ASSUME b[e] \in {0, c} PROVE Filt!strchr(b, p, c) = IF b[e] = c THEN e ELSE Filt!NULL
  <2> DEFINE S == {r \in Filt!From(b, p) : b[r] \in {0, c}}
  <2>1. ASSUME NEW a \in S PROVE a \in Filt!From(b, p) /\ a \in Int /\ e <= a
    BY <1>1
  <2>2. e \in S
    BY <1>3, <1>4
  <2>3. Filt!strchr(b, p, c) = IF b[Filt!First(S)] = c THEN Filt!First(S) ELSE Filt!NULL
    BY Zenon DEF Filt!strchr
  <2> HIDE DEF S
  <2>4. Filt!First(S) = e
    BY <2>1, <2>2, <1>2
  <2> QED BY <2>3, <2>4
<1>5. ASSUME b[e] = 0 PROVE Filt!strlen(b, p) = e - p
  <2> DEFINE S == {q \in Filt!From(b, p) : b[q] = 0}
  <2>1. ASSUME NEW a \in S PROVE a \in Filt!From(b, p) /\ a \in Int /\ e <= a
    BY <1>1
  <2>2. e \in S
    BY <1>3, <1>5
  <2>3. Filt!strlen(b, p) = Filt!First(S) - p
    BY DEF Filt!strlen
  <2> HIDE DEF S
  <2>4. Filt!First(S) = e
    BY <2>1, <2>2, <1>2
  <2> QED BY <2>3, <2>4
<1> QED BY <1>4, <1>5

\* In front of place y of buf, from p on, there is no newline.
NoLineEnds(b, p, y) == \A a \in 0 .. BUFSIZE : p <= a /\ a < y => b[a] # Filt!NEWLINE

LEMMA LinesStay ==
  ASSUME NEW t \in Seq(Nat), NEW off \in 0 .. Len(t), NEW n \in 0 .. off, n <= BUFSIZE, NEW b, InBuf(b, t, off, n),
         NEW p \in 0 .. n, NEW y \in p .. n, NoLineEnds(b, p, y), NEW k \in 0 .. (y - p)
  PROVE  Lines(t, ((off - n) + p) + k) = Lines(t, (off - n) + p)
<1> DEFINE x == (off - n) + p
<1>1. x \in Nat /\ x + k \in Nat /\ x <= x + k /\ x + k <= Len(t)
  OBVIOUS
<1>2. ASSUME NEW e \in Filt!Newlines(t) PROVE e <= x \/ x + k < e
  <2>1. e \in Nat /\ e > 0 /\ e \in 1 .. Len(t) /\ t[e] = Filt!NEWLINE
    BY PlacesIn DEF Positive
  <2>2. CASE x < e /\ e <= x + k
    <3> DEFINE a == (e - (off - n)) - 1
    <3>1. a \in 0 .. (n - 1) /\ a \in 0 .. BUFSIZE /\ p <= a /\ a < y /\ (off - n) + a + 1 = e
      BY <2>1, <2>2, FiltersAssumption
    <3> HIDE DEF a
    <3>2. b[a] = t[(off - n) + a + 1]
      BY <3>1 DEF InBuf
    <3>3. b[a] # Filt!NEWLINE
      BY <3>1 DEF NoLineEnds
    <3> QED BY <2>1, <3>1, <3>2, <3>3
  <2> QED BY <2>1, <2>2, <1>1
<1> HIDE DEF x
<1>3. Lines(t, x) = Lines(t, x + k)
  BY <1>1, <1>2, LinesAre, Zenon
<1> QED BY <1>3 DEF x

\* What head_line needs of the state, and that it may show any part of such a piece.
LEMMA PieceBegun ==
  ASSUME NEW t \in Seq(Nat), NEW off, NEW o, NEW n, NEW p, NEW line, NEW b, NEW z,
         AtLines("head", t, off, o, n, p, line, b, z), n <= BUFSIZE, line < LINES,
         NEW y \in p .. n, NoLineEnds(b, p, y - 1), NEW k \in 0 .. (y - p)
  PROVE  /\ o \o Filt!Piece(b, p, k) = SubSeq(t, 1, Len(o) + k)
         /\ Len(o) + k \in 0 .. Len(t) /\ Len(o \o Filt!Piece(b, p, k)) = Len(o) + k
         /\ Begun(Due("head", t), o \o Filt!Piece(b, p, k))
<1>1. /\ Showing(t, o, line) /\ off \in 0 .. Len(t) /\ n \in 0 .. off /\ p \in 0 .. n
      /\ InBuf(b, t, off, n) /\ Len(o) = (off - n) + p
  BY DEF AtLines
<1> DEFINE x == (off - n) + p
<1>2. x \in Nat /\ x + k \in 0 .. Len(t) /\ k \in Nat /\ p \in Nat
  BY <1>1
<1>3. NextOf(t, x, b, p, k)
  <2>1. ASSUME NEW a \in 0 .. (k - 1) PROVE b[p + a] = t[x + a + 1]
    <3>1. p + a \in 0 .. (n - 1) /\ (off - n) + (p + a) + 1 = x + a + 1
      BY <1>1
    <3>2. b[p + a] = t[(off - n) + (p + a) + 1]
      BY <1>1, <3>1 DEF InBuf
    <3> QED BY <3>1, <3>2
  <2> QED BY <2>1, Zenon DEF NextOf
<1>4. o = SubSeq(t, 1, x) /\ line = Lines(t, x) /\ Len(o) = x
  BY <1>1 DEF Showing
<1> HIDE DEF x
<1>5. SubSeq(t, 1, x) \o Filt!Piece(b, p, k) = SubSeq(t, 1, x + k)
  <2>1. x + k <= Len(t)
    BY <1>2
  <2>2. Extended(t, x, b, p, k)
    BY <1>2, <2>1, <1>3, Appended, Zenon
  <2> QED BY <2>2, Zenon DEF Extended
<1>6. x + k = 0 \/ Lines(t, (x + k) - 1) < LINES
  <2>1. CASE k = 0
    <3>1. CASE x # 0
      <4>1. x - 1 \in Nat /\ x - 1 <= x /\ x \in Nat /\ (x + k) - 1 = x - 1
        BY <1>2, <2>1, <3>1
      <4>2. Lines(t, x - 1) <= Lines(t, x) /\ Lines(t, x - 1) \in Nat /\ Lines(t, x) \in Nat
        BY <4>1, LinesAre, Zenon
      <4>3. LINES \in Nat
        BY FiltersAssumption
      <4> QED BY <1>4, <4>1, <4>2, <4>3
    <3> QED BY <2>1, <3>1, <1>2
  <2>2. CASE k # 0
    <3>1. k - 1 \in 0 .. ((y - 1) - p) /\ y - 1 \in p .. n /\ x + (k - 1) = (x + k) - 1
      BY <1>1, <1>2, <2>2
    <3>2. Lines(t, x + (k - 1)) = Lines(t, x)
      BY <1>1, <3>1, LinesStay DEF x
    <3> QED BY <1>4, <3>1, <3>2
  <2> QED BY <2>1, <2>2
<1>7. Begun(Filt!FirstLines(t), SubSeq(t, 1, x + k))
  BY <1>2, <1>6, FirstLinesUnder DEF Begun
<1>8. Due("head", t) = Filt!FirstLines(t)
  BY DEF Due
<1>9. Len(SubSeq(t, 1, x + k)) = x + k
  BY <1>2
<1> QED BY <1>2, <1>4, <1>5, <1>7, <1>8, <1>9

\* Where head looks for the end of a line, and what it finds.
HeadMay(t, off, o, n, p, line, b, z) ==
  /\ t \in Seq(Nat) /\ (\A j \in 1 .. Len(t) : t[j] # 0) /\ b \in Bytes
  /\ AtLines("head", t, off, o, n, p, line, b, z) /\ n <= BUFSIZE /\ line < LINES
May(t, o, b, p, c) == \A j \in 0 .. c : Begun(Due("head", t), o \o Filt!Piece(b, p, j))
Found(t, off, o, n, p, line, b, z, e) ==
  /\ Filt!strchr(b, p, Filt!NEWLINE) = e /\ e # Filt!NULL /\ May(t, o, b, p, (e - p) + 1)
  /\ AtLines("head", t, off, o \o Filt!Piece(b, p, (e - p) + 1), n, p + ((e - p) + 1), line + 1, b, z)
Unended(t, off, o, n, p, line, count, b) ==
  /\ Filt!strchr(b, p, Filt!NEWLINE) = Filt!NULL /\ Filt!strlen(b, p) = n - p /\ May(t, o, b, p, n - p)
  /\ AtRead("head", t, off, o \o Filt!Piece(b, p, n - p), line, count)

LEMMA LineFound ==
  ASSUME NEW t, NEW off, NEW o, NEW n, NEW p, NEW line, NEW b, NEW z, HeadMay(t, off, o, n, p, line, b, z),
         NEW e \in p .. (n - 1), b[e] = Filt!NEWLINE, NoLineEnds(b, p, e)
  PROVE  Found(t, off, o, n, p, line, b, z, e)
<1> /\ t \in Seq(Nat) /\ (\A j \in 1 .. Len(t) : t[j] # 0) /\ b \in Bytes
    /\ AtLines("head", t, off, o, n, p, line, b, z) /\ n <= BUFSIZE /\ line < LINES
  BY Zenon DEF HeadMay
<1>1. /\ Showing(t, o, line) /\ off \in 0 .. Len(t) /\ n \in 0 .. off /\ p \in 0 .. n
      /\ InBuf(b, t, off, n) /\ Len(o) = (off - n) + p /\ z = n
  BY DEF AtLines
<1>2. BUFSIZE \in Nat /\ LINES \in Nat /\ Filt!NEWLINE = 10 /\ Filt!NULL = -1
  BY FiltersAssumption DEF Filt!NEWLINE, Filt!NULL
<1>3. e \in 0 .. BUFSIZE /\ p \in Nat /\ p <= e /\ e # Filt!NULL /\ (e - p) + 1 \in 0 .. BUFSIZE /\ e + 1 \in p .. n
      /\ (e + 1) - 1 = e /\ (e + 1) - p = (e - p) + 1 /\ p + ((e - p) + 1) = e + 1 /\ (e - p) + 1 \in 0 .. ((e + 1) - p)
  BY <1>1, <1>2
<1>4. \A a \in 0 .. BUFSIZE : p <= a /\ a < e => b[a] # 0 /\ b[a] # Filt!NEWLINE
  <2>1. ASSUME NEW a \in 0 .. BUFSIZE, p <= a, a < e PROVE b[a] # 0
    <3>1. a \in 0 .. (n - 1) /\ (off - n) + a + 1 \in 1 .. Len(t)
      BY <1>1, <2>1
    <3> QED BY <1>1, <3>1 DEF InBuf
  <2> QED BY <2>1 DEF NoLineEnds
<1>5. Filt!strchr(b, p, Filt!NEWLINE) = e
  <2>1. b[e] \in {0, Filt!NEWLINE} /\ Filt!NEWLINE \in Nat
    BY <1>2
  <2> QED BY <2>1, <1>3, <1>4, StopsAt
<1>6. NoLineEnds(b, p, (e + 1) - 1)
  BY <1>3
<1>7. ASSUME NEW k \in 0 .. ((e + 1) - p)
      PROVE  /\ o \o Filt!Piece(b, p, k) = SubSeq(t, 1, Len(o) + k)
             /\ Len(o) + k \in 0 .. Len(t) /\ Len(o \o Filt!Piece(b, p, k)) = Len(o) + k
             /\ Begun(Due("head", t), o \o Filt!Piece(b, p, k))
  BY <1>3, <1>6, PieceBegun
<1> DEFINE c == (e - p) + 1
           x == Len(o)
           u == o \o Filt!Piece(b, p, c)
<1>8. u = SubSeq(t, 1, x + c) /\ Len(u) = x + c /\ x + c \in 0 .. Len(t)
  BY <1>3, <1>7
<1>9. Lines(t, x + c) = line + 1 /\ x + c \in Filt!Newlines(t)
  <2>1. line = Lines(t, x)
    BY <1>1 DEF Showing
  <2>2. e \in p .. n /\ e - p \in 0 .. (e - p)
    BY <1>1
  <2>3. Lines(t, x + (e - p)) = Lines(t, x)
    BY <1>1, <2>2, LinesStay
  <2>4. x + (e - p) \in Nat /\ (x + (e - p)) + 1 = x + c /\ x + c = (off - n) + e + 1 /\ e \in 0 .. (n - 1)
        /\ x + c \in 1 .. Len(t)
    BY <1>1
  <2>5. t[x + c] = Filt!NEWLINE
    BY <1>1, <2>4 DEF InBuf
  <2>6. x + c \in Filt!Newlines(t)
    BY <2>4, <2>5, PlacesIn
  <2> HIDE DEF c, x
  <2>7. Lines(t, (x + (e - p)) + 1) = IF (x + (e - p)) + 1 \in Filt!Newlines(t) THEN Lines(t, x + (e - p)) + 1
                                     ELSE Lines(t, x + (e - p))
    BY <2>4, LinesAre
  <2> QED BY <2>1, <2>3, <2>4, <2>6, <2>7
<1>10. line + 1 <= LINES
  <2>1. line \in Nat
    BY <1>1, LinesAre DEF Showing
  <2> QED BY <1>2, <2>1
<1>11. Showing(t, u, line + 1)
  <2> HIDE DEF u, c, x
  <2> QED BY <1>8, <1>9, <1>10 DEF Showing
<1>12. Len(u) = (off - n) + (p + c) /\ p + c \in 0 .. n
  <2> HIDE DEF u
  <2> QED BY <1>1, <1>3, <1>8
<1>13. AtLines("head", t, off, u, n, p + c, line + 1, b, z)
  <2> HIDE DEF u, c
  <2> QED BY <1>1, <1>11, <1>12 DEF AtLines
<1>14. \A k \in 0 .. c : Begun(Due("head", t), o \o Filt!Piece(b, p, k))
  BY <1>3, <1>7
<1> QED BY <1>3, <1>5, <1>13, <1>14, Zenon DEF Found, May

LEMMA LineUnended ==
  ASSUME NEW t, NEW off, NEW o, NEW n, NEW p, NEW line, NEW b, NEW z, HeadMay(t, off, o, n, p, line, b, z),
         NEW count, ZerosFrom(b, z), NoLineEnds(b, p, n)
  PROVE  Unended(t, off, o, n, p, line, count, b)
<1> /\ t \in Seq(Nat) /\ (\A j \in 1 .. Len(t) : t[j] # 0) /\ b \in Bytes
    /\ AtLines("head", t, off, o, n, p, line, b, z) /\ n <= BUFSIZE /\ line < LINES
  BY Zenon DEF HeadMay
<1>1. /\ Showing(t, o, line) /\ off \in 0 .. Len(t) /\ n \in 0 .. off /\ p \in 0 .. n
      /\ InBuf(b, t, off, n) /\ Len(o) = (off - n) + p /\ z = n
  BY DEF AtLines
<1>2. BUFSIZE \in Nat /\ LINES \in Nat /\ Filt!NEWLINE = 10 /\ Filt!NULL = -1
  BY FiltersAssumption DEF Filt!NEWLINE, Filt!NULL
<1>3. n \in 0 .. BUFSIZE /\ p \in Nat /\ p <= n /\ n - p \in 0 .. BUFSIZE /\ n \in p .. n
      /\ n - p \in 0 .. (n - p)
  BY <1>1, <1>2
<1>4. \A a \in 0 .. BUFSIZE : p <= a /\ a < n => b[a] # 0 /\ b[a] # Filt!NEWLINE
  <2>1. ASSUME NEW a \in 0 .. BUFSIZE, p <= a, a < n PROVE b[a] # 0
    <3>1. a \in 0 .. (n - 1) /\ (off - n) + a + 1 \in 1 .. Len(t)
      BY <1>1, <2>1
    <3> QED BY <1>1, <3>1 DEF InBuf
  <2> QED BY <2>1 DEF NoLineEnds
<1>5. Filt!strchr(b, p, Filt!NEWLINE) = Filt!NULL /\ Filt!strlen(b, p) = n - p
  <2>1. b[n] = 0
    BY <1>1, <1>3 DEF ZerosFrom
  <2>2. b[n] \in {0, Filt!NEWLINE} /\ b[n] # Filt!NEWLINE /\ Filt!NEWLINE \in Nat
    BY <1>2, <2>1
  <2> QED BY <2>1, <2>2, <1>3, <1>4, StopsAt
<1>6. NoLineEnds(b, p, n - 1)
  BY <1>1 DEF NoLineEnds
<1>7. ASSUME NEW k \in 0 .. (n - p)
      PROVE  /\ o \o Filt!Piece(b, p, k) = SubSeq(t, 1, Len(o) + k)
             /\ Len(o) + k \in 0 .. Len(t) /\ Len(o \o Filt!Piece(b, p, k)) = Len(o) + k
             /\ Begun(Due("head", t), o \o Filt!Piece(b, p, k))
  BY <1>3, <1>6, PieceBegun
<1> DEFINE x == Len(o)
           u == o \o Filt!Piece(b, p, n - p)
<1>8. u = SubSeq(t, 1, x + (n - p)) /\ Len(u) = x + (n - p) /\ x + (n - p) \in 0 .. Len(t) /\ x + (n - p) = off
  <2>1. u = SubSeq(t, 1, x + (n - p)) /\ x + (n - p) \in 0 .. Len(t) /\ Len(u) = x + (n - p)
    BY <1>3, <1>7
  <2>2. x + (n - p) = off
    BY <1>1
  <2> HIDE DEF u, x
  <2> QED BY <2>1, <2>2
<1>9. line = Lines(t, x + (n - p)) /\ ~(line = LINES) /\ line <= LINES
  <2>1. line = Lines(t, x) /\ line <= LINES
    BY <1>1 DEF Showing
  <2>2. Lines(t, x + (n - p)) = Lines(t, x)
    BY <1>1, <1>3, LinesStay
  <2>3. Lines(t, x) \in Nat
    <3>1. x \in Nat
      BY <1>1
    <3> QED BY <3>1, LinesAre
  <2> QED BY <1>2, <2>1, <2>2, <2>3
<1> HIDE DEF u, x
<1>10. Showing(t, u, line)
  BY <1>8, <1>9 DEF Showing
<1>11. AtRead("head", t, off, u, line, count)
  BY <1>1, <1>8, <1>10 DEF AtRead
<1>12. \A k \in 0 .. (n - p) : Begun(Due("head", t), o \o Filt!Piece(b, p, k))
  BY <1>7
<1> QED BY <1>5, <1>11, <1>12, Zenon DEF u, Unended, May

-----------------------------------------------------------------------------
(* The filters' state.  Good: what the property is claimed for.            *)

FilterFields(r) ==
  r = [prog |-> r.prog, files |-> r.files, f |-> r.f, off |-> r.off, pc |-> r.pc, buf |-> r.buf, n |-> r.n,
       p |-> r.p, line |-> r.line, count |-> r.count, out |-> r.out, longest |-> r.longest, stale |-> r.stale]
NoZeros(files) == \A e \in DOMAIN files : \A j \in DOMAIN files[e].text : files[e].text[j] # 0
Good(r) == r.prog = "head" => NoZeros(r.files) /\ ~r.stale

IsOut(files, o) == o = [e \in 1 .. Len(files) |-> o[e]]
Others(prg, files, f, o) ==
  \A e \in 1 .. Len(files) : (e < f => o[e] = Due(prg, files[e].text)) /\ (e > f => o[e] = <<>>)
Memory(prg, b, k) == b \in Bytes /\ k \in 0 .. BUFSIZE /\ (prg = "head" => ZerosFrom(b, k))
Here(prg, t, pc, off, o, n, p, line, count, b, k) ==
  /\ pc \in {"open", "read", "bytes", "lines", "failed"}
  /\ pc = "open" => o = <<>>
  /\ pc = "read" => AtRead(prg, t, off, o, line, count)
  /\ pc = "bytes" => AtBytes(prg, t, off, o, n, p, line, count, b)
  /\ pc = "lines" => AtLines(prg, t, off, o, n, p, line, b, k)
  /\ pc = "failed" => Begun(Due(prg, t), o)
HereIs(r) ==
  Here(r.prog, r.files[r.f].text, r.pc, r.off, r.out[r.f], r.n, r.p, r.line, r.count, r.buf, r.longest)

FilesOK(r) ==
  r.prog \in Programs /\ r.files \in Seq([there : BOOLEAN, text : Seq(Nat)]) /\ r.f \in Nat \ {0}
Sound(r) ==
  /\ FilesOK(r) /\ IsOut(r.files, r.out) /\ Memory(r.prog, r.buf, r.longest)
  /\ Others(r.prog, r.files, r.f, r.out)
  /\ r.f <= Len(r.files) => HereIs(r)
  /\ r.f > Len(r.files) => r.pc \in {"open", "done"}

FilterInv == prog = "filters" => FilterFields(st) /\ (Good(st) => Sound(st))

\* A step in the file under way, after which o2 is out.
SameFile(r2, r, o2) ==
  /\ r2.prog = r.prog /\ r2.files = r.files /\ r2.f = r.f /\ IsOut(r.files, r2.out) /\ r2.out[r.f] = o2
  /\ \A e \in 1 .. Len(r.files) : e # r.f => r2.out[e] = r.out[e]
\* A step that writes nothing.
NothingOut(r2, r) == r2.prog = r.prog /\ r2.files = r.files /\ r2.f = r.f /\ r2.out = r.out

LEMMA StaysSound ==
  ASSUME NEW r, NEW r2, NEW o2, Sound(r), r.f <= Len(r.files), SameFile(r2, r, o2),
         Memory(r.prog, r2.buf, r2.longest),
         Here(r.prog, r.files[r.f].text, r2.pc, r2.off, o2, r2.n, r2.p, r2.line, r2.count, r2.buf, r2.longest)
  PROVE  Sound(r2)
<1>1. FilesOK(r2) /\ r2.prog = r.prog /\ r2.files = r.files /\ r2.f = r.f /\ r2.out[r.f] = o2
  BY DEF Sound, FilesOK, SameFile
<1>2. IsOut(r2.files, r2.out) /\ Memory(r2.prog, r2.buf, r2.longest)
  BY <1>1 DEF SameFile
<1>3. Others(r2.prog, r2.files, r2.f, r2.out)
  <2>1. r.f \in Nat /\ Len(r.files) \in Nat
    BY DEF Sound, FilesOK
  <2>2. \A e \in 1 .. Len(r.files) : (e < r.f => e # r.f) /\ (e > r.f => e # r.f)
    BY <2>1
  <2>3. \A e \in 1 .. Len(r.files) : e # r.f => r2.out[e] = r.out[e]
    BY DEF SameFile
  <2>4. Others(r.prog, r.files, r.f, r.out)
    BY DEF Sound
  <2>5. Others(r.prog, r.files, r.f, r2.out)
    BY <2>2, <2>3, <2>4, Zenon DEF Others
  <2> QED BY <1>1, <2>5
<1>4. HereIs(r2)
  BY <1>1 DEF HereIs
<1>5. ~(r2.f > Len(r2.files))
  <2>1. r.f \in Nat /\ Len(r.files) \in Nat
    BY DEF Sound, FilesOK
  <2> QED BY <1>1, <2>1
<1> QED BY <1>1, <1>2, <1>3, <1>4, <1>5 DEF Sound

LEMMA NothingOutIs ==
  ASSUME NEW r, NEW r2, Sound(r), r.f <= Len(r.files), NothingOut(r2, r)
  PROVE  SameFile(r2, r, r.out[r.f])
<1>1. IsOut(r.files, r.out)
  BY DEF Sound
<1>2. r2.prog = r.prog /\ r2.files = r.files /\ r2.f = r.f /\ r2.out = r.out
  BY DEF NothingOut
<1>3. IsOut(r.files, r2.out) /\ r2.out[r.f] = r.out[r.f] /\ \A e \in 1 .. Len(r.files) : r2.out[e] = r.out[e]
  BY <1>1, <1>2
<1> QED BY <1>2, <1>3, Zenon DEF SameFile

\* What a write leaves.
Put(o, f, o2) == [o EXCEPT ![f] = o2]

LEMMA WriteIs ==
  ASSUME NEW files, NEW o, IsOut(files, o), NEW f \in 1 .. Len(files), NEW o2, NEW w, w = Put(o, f, o2)
  PROVE  IsOut(files, w) /\ w[f] = o2 /\ \A e \in 1 .. Len(files) : e # f => w[e] = o[e]
<1>1. DOMAIN o = 1 .. Len(files) /\ w = [o EXCEPT ![f] = o2]
  BY DEF IsOut, Put
<1>2. w = [e \in 1 .. Len(files) |-> IF e = f THEN o2 ELSE o[e]]
  BY <1>1
<1>3. w[f] = o2 /\ \A e \in 1 .. Len(files) : w[e] = IF e = f THEN o2 ELSE o[e]
  BY <1>2
<1>4. IsOut(files, w)
  BY <1>2 DEF IsOut
<1> QED BY <1>3, <1>4

\* The text of the file under way.
LEMMA TextIs ==
  ASSUME NEW r, FilesOK(r), r.f <= Len(r.files)
  PROVE  /\ r.files[r.f].text \in Seq(Nat) /\ r.f \in 1 .. Len(r.files) /\ r.files[r.f].there \in BOOLEAN
         /\ NoZeros(r.files) => \A j \in 1 .. Len(r.files[r.f].text) : r.files[r.f].text[j] # 0
<1>1. r.f \in 1 .. Len(r.files) /\ DOMAIN r.files = 1 .. Len(r.files)
  BY DEF FilesOK
<1>2. r.files[r.f] \in [there : BOOLEAN, text : Seq(Nat)]
  <2>1. r.files \in Seq([there : BOOLEAN, text : Seq(Nat)])
    BY DEF FilesOK
  <2> QED BY <1>1, <2>1, ElementOfSeq
<1>3. DOMAIN r.files[r.f].text = 1 .. Len(r.files[r.f].text)
  BY <1>2
<1> QED BY <1>1, <1>2, <1>3 DEF NoZeros

-----------------------------------------------------------------------------
(* The steps of the filters.                                              *)

LEMMA FiltersStart == FiltersInit => FilterInv
<1> SUFFICES ASSUME Filt!Init PROVE FilterFields(st) /\ Sound(st)
  BY DEF FiltersInit, FilterInv
<1>1. PICK prg \in {"cat", "wc", "head"}, files \in FileLists :
        st = [prog |-> prg, files |-> files, f |-> 1, off |-> 0, pc |-> "open",
         buf |-> [a \in 0 .. BUFSIZE |-> 0], n |-> 0, p |-> 0, line |-> 0, count |-> Filt!Zero,
         out |-> [e \in DOMAIN files |-> <<>>], longest |-> 0, stale |-> FALSE]
  BY Zenon DEF Filt!Init
<1>2. /\ st.prog = prg /\ st.files = files /\ st.f = 1 /\ st.pc = "open" /\ st.buf = [a \in 0 .. BUFSIZE |-> 0]
      /\ st.out = [e \in DOMAIN files |-> <<>>] /\ st.longest = 0
  BY <1>1
<1>3. FilterFields(st)
  BY <1>1 DEF FilterFields
<1>4. files \in Seq([there : BOOLEAN, text : Seq(Nat)]) /\ DOMAIN files = 1 .. Len(files) /\ Len(files) \in Nat
  BY FiltersAssumption
<1>5. FilesOK(st)
  BY <1>2, <1>4 DEF FilesOK, Programs
<1>6. IsOut(st.files, st.out) /\ \A e \in 1 .. Len(files) : st.out[e] = <<>>
  BY <1>2, <1>4 DEF IsOut
<1>7. Memory(st.prog, st.buf, st.longest)
  BY <1>2, FiltersAssumption DEF Memory, Bytes, ZerosFrom
<1>8. Others(st.prog, st.files, st.f, st.out)
  BY <1>2, <1>4, <1>6 DEF Others
<1>9. st.f <= Len(st.files) => HereIs(st)
  <2>1. ASSUME 1 <= Len(files) PROVE st.out[1] = <<>>
    BY <1>4, <1>6, <2>1
  <2> QED BY <1>2, <2>1 DEF HereIs, Here
<1> QED BY <1>2, <1>3, <1>5, <1>6, <1>7, <1>8, <1>9 DEF Sound

\* A step keeps FilterInv when it is right wherever the property is claimed.
Keeps(r2, r) == FilterFields(r2) /\ (Good(r2) => Good(r) /\ (Sound(r) => Sound(r2)))

LEMMA KeepsInv ==
  ASSUME FilterInv, prog = "filters", prog' = prog, FilterFields(st) => Keeps(st', st)
  PROVE  FilterInv'
<1>1. FilterFields(st) /\ (Good(st) => Sound(st))
  BY DEF FilterInv
<1>2. FilterFields(st') /\ (Good(st') => Sound(st'))
  BY <1>1 DEF Keeps
<1> QED BY <1>2 DEF FilterInv

\* Nothing that Good speaks of changes in most steps.
SameGood(r2, r) == r2.prog = r.prog /\ r2.files = r.files /\ r2.stale = r.stale

LEMMA GoodStays == \A r, r2 : SameGood(r2, r) /\ Good(r2) => Good(r)
BY DEF SameGood, Good

LEMMA OpenKeeps == ASSUME FilterFields(st), Filt!open PROVE Keeps(st', st)
<1> DEFINE pc == IF st.files[st.f].there THEN "read" ELSE "failed"
<1>1. st.pc = "open" /\ st.f <= Len(st.files)
      /\ st' = [st EXCEPT !.pc = pc, !.off = 0, !.line = 0, !.count = Filt!Zero]
  BY DEF Filt!open
<1> HIDE DEF pc
<1>2. /\ st' = [prog |-> st.prog, files |-> st.files, f |-> st.f, off |-> 0, pc |-> pc, buf |-> st.buf, n |-> st.n,
                p |-> st.p, line |-> 0, count |-> Filt!Zero, out |-> st.out, longest |-> st.longest, stale |-> st.stale]
  BY <1>1 DEF FilterFields
<1>3. /\ FilterFields(st') /\ SameGood(st', st) /\ NothingOut(st', st)
      /\ st'.pc = pc /\ st'.off = 0 /\ st'.buf = st.buf /\ st'.line = 0 /\ st'.count = Filt!Zero
      /\ st'.longest = st.longest
  BY <1>2 DEF FilterFields, SameGood, NothingOut
<1>4. ASSUME Sound(st) PROVE Sound(st')
  <2> DEFINE t == st.files[st.f].text
  <2>1. FilesOK(st) /\ Memory(st.prog, st.buf, st.longest) /\ HereIs(st)
    BY <1>1, <1>4 DEF Sound
  <2>2. t \in Seq(Nat) /\ pc \in {"read", "failed"} /\ st.prog \in Programs
    BY <1>1, <2>1, TextIs DEF pc, FilesOK
  <2>3. st.out[st.f] = <<>>
    BY <1>1, <2>1 DEF HereIs, Here
  <2> HIDE DEF t
  <2>4. AtRead(st.prog, t, 0, <<>>, 0, Filt!Zero) /\ Begun(Due(st.prog, t), <<>>)
    BY <2>2, Opened, BegunAtStart
  <2>5. Here(st.prog, t, pc, 0, <<>>, st'.n, st'.p, 0, Filt!Zero, st.buf, st.longest)
    BY <2>2, <2>4 DEF Here
  <2>6. SameFile(st', st, <<>>)
    BY <1>1, <1>3, <1>4, <2>3, NothingOutIs
  <2>7. /\ Memory(st.prog, st'.buf, st'.longest)
        /\ Here(st.prog, t, st'.pc, st'.off, <<>>, st'.n, st'.p, st'.line, st'.count, st'.buf, st'.longest)
    BY <1>3, <2>1, <2>5
  <2> QED BY <1>1, <1>4, <2>6, <2>7, StaysSound, Zenon DEF t
<1> QED BY <1>3, <1>4, GoodStays DEF Keeps

LEMMA ExitKeeps == ASSUME FilterFields(st), Filt!exit0 PROVE Keeps(st', st)
<1>1. st.pc = "open" /\ st.f > Len(st.files) /\ st' = [st EXCEPT !.pc = "done"]
  BY DEF Filt!exit0
<1>2. /\ st' = [prog |-> st.prog, files |-> st.files, f |-> st.f, off |-> st.off, pc |-> "done", buf |-> st.buf,
                n |-> st.n, p |-> st.p, line |-> st.line, count |-> st.count, out |-> st.out,
                longest |-> st.longest, stale |-> st.stale]
  BY <1>1 DEF FilterFields
<1>3. /\ FilterFields(st') /\ SameGood(st', st) /\ NothingOut(st', st)
      /\ st'.pc = "done" /\ st'.buf = st.buf /\ st'.longest = st.longest
  BY <1>2 DEF FilterFields, SameGood, NothingOut
<1>4. ASSUME Sound(st) PROVE Sound(st')
  <2>1. FilesOK(st) /\ IsOut(st.files, st.out) /\ Memory(st.prog, st.buf, st.longest)
        /\ Others(st.prog, st.files, st.f, st.out)
    BY <1>4 DEF Sound
  <2>2. ~(st.f <= Len(st.files))
    BY <1>1, <2>1 DEF FilesOK
  <2>3. FilesOK(st')
    BY <1>3, <2>1 DEF FilesOK, NothingOut
  <2> QED BY <1>3, <2>1, <2>2, <2>3 DEF Sound, NothingOut
<1> QED BY <1>3, <1>4, GoodStays DEF Keeps

LEMMA ErrorKeeps == ASSUME FilterFields(st), Filt!read_error PROVE Keeps(st', st)
<1>1. st.pc = "read" /\ st.line < LINES /\ st' = [st EXCEPT !.pc = "failed"]
  BY DEF Filt!read_error
<1>2. /\ st' = [prog |-> st.prog, files |-> st.files, f |-> st.f, off |-> st.off, pc |-> "failed", buf |-> st.buf,
                n |-> st.n, p |-> st.p, line |-> st.line, count |-> st.count, out |-> st.out,
                longest |-> st.longest, stale |-> st.stale]
  BY <1>1 DEF FilterFields
<1>3. /\ FilterFields(st') /\ SameGood(st', st) /\ NothingOut(st', st)
      /\ st'.pc = "failed" /\ st'.buf = st.buf /\ st'.longest = st.longest
  BY <1>2 DEF FilterFields, SameGood, NothingOut
<1>4. ASSUME Sound(st) PROVE Sound(st')
  <2> DEFINE t == st.files[st.f].text
             o == st.out[st.f]
  <2>1. FilesOK(st) /\ Memory(st.prog, st.buf, st.longest) /\ st.f <= Len(st.files) /\ HereIs(st)
    <3>1. FilesOK(st) /\ Memory(st.prog, st.buf, st.longest) /\ (st.f > Len(st.files) => st.pc \in {"open", "done"})
          /\ (st.f <= Len(st.files) => HereIs(st))
      BY <1>4 DEF Sound
    <3>2. st.f \in Nat /\ Len(st.files) \in Nat
      BY <3>1 DEF FilesOK
    <3> QED BY <1>1, <3>1, <3>2
  <2>2. t \in Seq(Nat) /\ st.prog \in Programs
    BY <2>1, TextIs DEF FilesOK
  <2>3. AtRead(st.prog, t, st.off, o, st.line, st.count)
    BY <1>1, <2>1 DEF HereIs, Here
  <2> HIDE DEF t, o
  <2>4. Begun(Due(st.prog, t), o)
    BY <2>2, <2>3, ReadBegun
  <2>5. Here(st.prog, t, "failed", st'.off, o, st'.n, st'.p, st'.line, st'.count, st.buf, st.longest)
    BY <2>4 DEF Here
  <2>6. SameFile(st', st, o)
    BY <1>3, <1>4, <2>1, NothingOutIs DEF o
  <2> QED BY <1>3, <1>4, <2>1, <2>5, <2>6, StaysSound DEF t
<1> QED BY <1>3, <1>4, GoodStays DEF Keeps

\* What Sound says while a file is under way.
LEMMA Under ==
  ASSUME NEW r, Sound(r), r.pc \notin {"open", "done"}
  PROVE  /\ FilesOK(r) /\ IsOut(r.files, r.out) /\ Memory(r.prog, r.buf, r.longest) /\ HereIs(r)
         /\ r.f <= Len(r.files) /\ r.f \in 1 .. Len(r.files) /\ r.prog \in Programs /\ r.files[r.f].text \in Seq(Nat)
         /\ NoZeros(r.files) => \A j \in 1 .. Len(r.files[r.f].text) : r.files[r.f].text[j] # 0
<1>1. FilesOK(r) /\ IsOut(r.files, r.out) /\ Memory(r.prog, r.buf, r.longest)
      /\ (r.f > Len(r.files) => r.pc \in {"open", "done"}) /\ (r.f <= Len(r.files) => HereIs(r))
  BY DEF Sound
<1>2. r.f \in Nat /\ Len(r.files) \in Nat /\ r.prog \in Programs
  BY <1>1 DEF FilesOK
<1>3. r.f <= Len(r.files)
  BY <1>1, <1>2
<1> QED BY <1>1, <1>2, <1>3, TextIs

LEMMA GotIs ==
  ASSUME NEW r, FilterFields(r), NEW n
  PROVE  Filt!Got(n, r) =
           [prog |-> r.prog, files |-> r.files, f |-> r.f, off |-> r.off + n, pc |-> r.pc, buf |-> Filt!Filled(n),
            n |-> n, p |-> 0, line |-> r.line, count |-> r.count, out |-> r.out,
            longest |-> IF n > r.longest THEN n ELSE r.longest, stale |-> r.stale \/ n < st.longest]
<1> DEFINE off == r.off + n
           b == Filt!Filled(n)
           z == IF n > r.longest THEN n ELSE r.longest
           w == r.stale \/ n < st.longest
<1>1. Filt!Got(n, r) = [r EXCEPT !.off = off, !.buf = b, !.n = n, !.p = 0, !.longest = z, !.stale = w]
  BY DEF Filt!Got
<1> HIDE DEF off, b, z, w
<1>2. ASSUME NEW q, q = [r EXCEPT !.off = off, !.buf = b, !.n = n, !.p = 0, !.longest = z, !.stale = w]
      PROVE  q = [prog |-> r.prog, files |-> r.files, f |-> r.f, off |-> off, pc |-> r.pc, buf |-> b,
            n |-> n, p |-> 0, line |-> r.line, count |-> r.count, out |-> r.out, longest |-> z, stale |-> w]
  BY <1>2 DEF FilterFields
<1> QED BY <1>1, <1>2, Zenon DEF off, b, z, w

\* buf after a read is memory again.
LEMMA FilledIs ==
  ASSUME NEW n \in 1 .. BUFSIZE, Memory(st.prog, st.buf, st.longest), st.files[st.f].text \in Seq(Nat),
         st.off \in Nat, n <= Len(st.files[st.f].text) - st.off
  PROVE  /\ FilledBy(Filt!Filled(n), st.buf, st.files[st.f].text, st.off, n)
         /\ Filt!Filled(n) \in Bytes
<1> DEFINE t == st.files[st.f].text
<1>1. Filt!Filled(n) = [a \in 0 .. BUFSIZE |-> IF a < n THEN t[st.off + a + 1] ELSE st.buf[a]]
  BY DEF Filt!Filled, Filt!Text
<1>2. t \in Seq(Nat) /\ n <= Len(t) - st.off
  OBVIOUS
<1> HIDE DEF t
<1>3. FilledBy(Filt!Filled(n), st.buf, t, st.off, n)
  BY <1>1 DEF FilledBy
<1>4. ASSUME NEW a \in 0 .. BUFSIZE PROVE (IF a < n THEN t[st.off + a + 1] ELSE st.buf[a]) \in Nat
  <2>1. CASE a < n
    <3>1. st.off + a + 1 \in 1 .. Len(t)
      <4>1. a \in Nat /\ a + 1 <= n /\ Len(t) \in Nat
        BY <1>2, <2>1
      <4>2. st.off + n <= Len(t)
        BY <1>2, <4>1
      <4> QED BY <4>1, <4>2
    <3>2. t[st.off + a + 1] \in Nat
      BY <1>2, <3>1, ElementOfSeq, Zenon
    <3> QED BY <2>1, <3>2, Zenon
  <2>2. CASE ~(a < n)
    BY <2>2 DEF Memory, Bytes
  <2> QED BY <2>1, <2>2
<1> QED BY <1>1, <1>3, <1>4 DEF Bytes, t

LEMMA LongestIs ==
  ASSUME NEW n \in 1 .. BUFSIZE, NEW k \in 0 .. BUFSIZE
  PROVE  (IF n > k THEN n ELSE k) \in 0 .. BUFSIZE /\ (~(n < k) => (IF n > k THEN n ELSE k) = n /\ k <= n)
<1> BUFSIZE \in Nat
  BY FiltersAssumption
<1> QED OBVIOUS

LEMMA CatKeeps ==
  ASSUME FilterFields(st), st.pc = "read", NEW n \in 1 .. BUFSIZE, n <= Filt!Left, NEW k \in 0 .. n, Filt!cat(n, k)
  PROVE  Keeps(st', st)
<1> DEFINE b2 == Filt!Filled(n)
           o2 == st.out[st.f] \o Filt!Piece(b2, 0, k)
           pc == IF k < n THEN "failed" ELSE st.pc
           z == IF n > st.longest THEN n ELSE st.longest
           out2 == [st.out EXCEPT ![st.f] = o2]
           r == [st EXCEPT !.out[st.f] = o2, !.pc = pc]
<1>1. st.prog = "cat" /\ st' = Filt!Got(n, r)
  BY DEF Filt!cat
<1> HIDE DEF b2, o2, pc, z
<1>2. r = [prog |-> st.prog, files |-> st.files, f |-> st.f, off |-> st.off, pc |-> pc, buf |-> st.buf, n |-> st.n,
           p |-> st.p, line |-> st.line, count |-> st.count, out |-> out2,
           longest |-> st.longest, stale |-> st.stale]
  <2>1. r = [st EXCEPT !.out = out2, !.pc = pc]
    OBVIOUS
  <2> HIDE DEF r, out2
  <2> QED BY <2>1, Zenon DEF FilterFields
<1> HIDE DEF r
<1>3. st' = [prog |-> st.prog, files |-> st.files, f |-> st.f, off |-> st.off + n, pc |-> pc, buf |-> b2, n |-> n,
             p |-> 0, line |-> st.line, count |-> st.count, out |-> out2,
             longest |-> z, stale |-> st.stale \/ n < st.longest]
  <2>1. FilterFields(r)
    BY <1>2 DEF FilterFields
  <2>2. Filt!Got(n, r) =
           [prog |-> r.prog, files |-> r.files, f |-> r.f, off |-> r.off + n, pc |-> r.pc, buf |-> Filt!Filled(n),
            n |-> n, p |-> 0, line |-> r.line, count |-> r.count, out |-> r.out,
            longest |-> IF n > r.longest THEN n ELSE r.longest, stale |-> r.stale \/ n < st.longest]
    BY <2>1, GotIs
  <2> QED BY <1>1, <1>2, <2>2 DEF b2, z
<1>4. /\ FilterFields(st') /\ st'.prog = st.prog /\ st'.files = st.files /\ st'.f = st.f
      /\ st'.pc = pc /\ st'.off = st.off + n /\ st'.buf = b2 /\ st'.line = st.line /\ st'.count = st.count
      /\ st'.longest = z /\ st'.out = [st.out EXCEPT ![st.f] = o2]
  BY <1>3 DEF FilterFields
<1> HIDE DEF out2
<1>5. ASSUME Sound(st) PROVE Sound(st')
  <2> DEFINE t == st.files[st.f].text
             o == st.out[st.f]
  <2>1. /\ IsOut(st.files, st.out) /\ Memory(st.prog, st.buf, st.longest) /\ HereIs(st)
        /\ st.f <= Len(st.files) /\ st.f \in 1 .. Len(st.files) /\ t \in Seq(Nat)
    BY <1>5, Under
  <2>2. AtRead("cat", t, st.off, o, st.line, st.count)
    BY <1>1, <2>1 DEF HereIs, Here
  <2>3. st.off \in Nat /\ n <= Len(t) - st.off
    BY <2>2 DEF AtRead, Filt!Left, Filt!Text
  <2>4. FilledBy(b2, st.buf, t, st.off, n) /\ b2 \in Bytes
    BY <2>1, <2>3, FilledIs DEF b2
  <2>5. z \in 0 .. BUFSIZE
    BY <2>1, LongestIs DEF Memory, z
  <2>6. o2 = o \o Filt!Piece(b2, 0, k)
    BY DEF o2
  <2> HIDE DEF t, o
  <2>7. (k = n => AtRead("cat", t, st.off + n, o2, st.line, st.count)) /\ Begun(Due("cat", t), o2)
    BY <2>1, <2>2, <2>3, <2>4, <2>6, CatReads
  <2>8. pc = IF k = n THEN "read" ELSE "failed"
    BY DEF pc
  <2>9. Here("cat", t, pc, st.off + n, o2, st'.n, st'.p, st.line, st.count, b2, z)
    BY <2>7, <2>8 DEF Here
  <2>10. Memory("cat", b2, z)
    BY <2>4, <2>5 DEF Memory
  <2>11. SameFile(st', st, o2)
    <3>1. /\ IsOut(st.files, st'.out) /\ st'.out[st.f] = o2
          /\ \A e \in 1 .. Len(st.files) : e # st.f => st'.out[e] = st.out[e]
      <4>1. st'.out = Put(st.out, st.f, o2) /\ IsOut(st.files, st.out) /\ st.f \in 1 .. Len(st.files)
        BY <1>4, <2>1 DEF Put
      <4> QED BY <4>1, WriteIs
    <3> QED BY <1>4, <3>1, Zenon DEF SameFile
  <2>12. /\ Memory(st.prog, st'.buf, st'.longest)
         /\ Here(st.prog, t, st'.pc, st'.off, o2, st'.n, st'.p, st'.line, st'.count, st'.buf, st'.longest)
    BY <1>1, <1>4, <2>9, <2>10
  <2> QED BY <1>5, <2>1, <2>11, <2>12, StaysSound, Zenon DEF t
<1>6. Good(st)
  BY <1>1 DEF Good
<1> QED BY <1>4, <1>5, <1>6 DEF Keeps

LEMMA ByteKeeps == ASSUME FilterFields(st), Filt!wc_byte PROVE Keeps(st', st)
<1> DEFINE c == Filt!Counted(st.count, st.buf[st.p])
<1>1. st.pc = "bytes" /\ st.p < st.n /\ st' = [st EXCEPT !.count = c, !.p = st.p + 1]
  BY DEF Filt!wc_byte
<1> HIDE DEF c
<1>2. /\ st' = [prog |-> st.prog, files |-> st.files, f |-> st.f, off |-> st.off, pc |-> st.pc, buf |-> st.buf,
                n |-> st.n, p |-> st.p + 1, line |-> st.line, count |-> c, out |-> st.out,
                longest |-> st.longest, stale |-> st.stale]
  BY <1>1 DEF FilterFields
<1>3. /\ FilterFields(st') /\ SameGood(st', st) /\ NothingOut(st', st)
      /\ st'.pc = st.pc /\ st'.off = st.off /\ st'.buf = st.buf /\ st'.n = st.n /\ st'.p = st.p + 1
      /\ st'.line = st.line /\ st'.count = c /\ st'.longest = st.longest
  BY <1>2 DEF FilterFields, SameGood, NothingOut
<1>4. ASSUME Sound(st) PROVE Sound(st')
  <2> DEFINE t == st.files[st.f].text
             o == st.out[st.f]
  <2>1. Memory(st.prog, st.buf, st.longest) /\ HereIs(st) /\ st.f <= Len(st.files) /\ t \in Seq(Nat)
    BY <1>1, <1>4, Under
  <2>2. AtBytes(st.prog, t, st.off, o, st.n, st.p, st.line, st.count, st.buf)
    BY <1>1, <2>1 DEF HereIs, Here
  <2>3. SameFile(st', st, o)
    BY <1>3, <1>4, <2>1, NothingOutIs
  <2> HIDE DEF t, o
  <2>4. AtBytes(st.prog, t, st.off, o, st.n, st.p + 1, st.line, c, st.buf)
    BY <1>1, <2>1, <2>2, WcByte DEF c
  <2>5. Here(st.prog, t, "bytes", st.off, o, st.n, st.p + 1, st.line, c, st.buf, st.longest)
    BY <2>4 DEF Here
  <2>6. /\ Memory(st.prog, st'.buf, st'.longest)
        /\ Here(st.prog, t, st'.pc, st'.off, o, st'.n, st'.p, st'.line, st'.count, st'.buf, st'.longest)
    BY <1>1, <1>3, <2>1, <2>5
  <2> QED BY <1>4, <2>1, <2>3, <2>6, StaysSound, Zenon DEF t
<1> QED BY <1>3, <1>4, GoodStays DEF Keeps

LEMMA WcEndKeeps == ASSUME FilterFields(st), Filt!wc_end PROVE Keeps(st', st)
<1>1. st.pc = "bytes" /\ st.p = st.n /\ st' = [st EXCEPT !.pc = "read"]
  BY DEF Filt!wc_end
<1>2. /\ st' = [prog |-> st.prog, files |-> st.files, f |-> st.f, off |-> st.off, pc |-> "read", buf |-> st.buf,
                n |-> st.n, p |-> st.p, line |-> st.line, count |-> st.count, out |-> st.out,
                longest |-> st.longest, stale |-> st.stale]
  BY <1>1 DEF FilterFields
<1>3. /\ FilterFields(st') /\ SameGood(st', st) /\ NothingOut(st', st)
      /\ st'.pc = "read" /\ st'.off = st.off /\ st'.buf = st.buf /\ st'.line = st.line /\ st'.count = st.count
      /\ st'.longest = st.longest
  BY <1>2 DEF FilterFields, SameGood, NothingOut
<1>4. ASSUME Sound(st) PROVE Sound(st')
  <2> DEFINE t == st.files[st.f].text
             o == st.out[st.f]
  <2>1. Memory(st.prog, st.buf, st.longest) /\ HereIs(st) /\ st.f <= Len(st.files) /\ t \in Seq(Nat)
    BY <1>1, <1>4, Under
  <2>2. AtBytes(st.prog, t, st.off, o, st.n, st.p, st.line, st.count, st.buf)
    BY <1>1, <2>1 DEF HereIs, Here
  <2>3. SameFile(st', st, o)
    BY <1>3, <1>4, <2>1, NothingOutIs
  <2> HIDE DEF t, o
  <2>4. AtRead(st.prog, t, st.off, o, st.line, st.count)
    BY <1>1, <2>1, <2>2, WcEnds
  <2>5. Here(st.prog, t, "read", st.off, o, st'.n, st'.p, st.line, st.count, st.buf, st.longest)
    BY <2>4 DEF Here
  <2> QED BY <1>3, <1>4, <2>1, <2>3, <2>5, StaysSound DEF t
<1> QED BY <1>3, <1>4, GoodStays DEF Keeps

LEMMA EnoughKeeps == ASSUME FilterFields(st), Filt!head_enough PROVE Keeps(st', st)
<1>1. st.pc = "lines" /\ st.line = LINES /\ st' = [st EXCEPT !.pc = "read"]
  BY DEF Filt!head_enough
<1>2. /\ st' = [prog |-> st.prog, files |-> st.files, f |-> st.f, off |-> st.off, pc |-> "read", buf |-> st.buf,
                n |-> st.n, p |-> st.p, line |-> st.line, count |-> st.count, out |-> st.out,
                longest |-> st.longest, stale |-> st.stale]
  BY <1>1 DEF FilterFields
<1>3. /\ FilterFields(st') /\ SameGood(st', st) /\ NothingOut(st', st)
      /\ st'.pc = "read" /\ st'.off = st.off /\ st'.buf = st.buf /\ st'.line = st.line /\ st'.count = st.count
      /\ st'.longest = st.longest
  BY <1>2 DEF FilterFields, SameGood, NothingOut
<1>4. ASSUME Sound(st) PROVE Sound(st')
  <2> DEFINE t == st.files[st.f].text
             o == st.out[st.f]
  <2>1. Memory(st.prog, st.buf, st.longest) /\ HereIs(st) /\ st.f <= Len(st.files) /\ t \in Seq(Nat)
    BY <1>1, <1>4, Under
  <2>2. AtLines(st.prog, t, st.off, o, st.n, st.p, st.line, st.buf, st.longest)
    BY <1>1, <2>1 DEF HereIs, Here
  <2>3. SameFile(st', st, o)
    BY <1>3, <1>4, <2>1, NothingOutIs
  <2> HIDE DEF t, o
  <2>4. AtRead(st.prog, t, st.off, o, st.line, st.count)
    BY <1>1, <2>1, <2>2, HeadEnough
  <2>5. Here(st.prog, t, "read", st.off, o, st'.n, st'.p, st.line, st.count, st.buf, st.longest)
    BY <2>4 DEF Here
  <2> QED BY <1>3, <1>4, <2>1, <2>3, <2>5, StaysSound DEF t
<1> QED BY <1>3, <1>4, GoodStays DEF Keeps

LEMMA WcKeeps ==
  ASSUME FilterFields(st), st.pc = "read", NEW n \in 1 .. BUFSIZE, n <= Filt!Left, Filt!wc(n)
  PROVE  Keeps(st', st)
<1> DEFINE b2 == Filt!Filled(n)
           z == IF n > st.longest THEN n ELSE st.longest
           r == [st EXCEPT !.pc = "bytes", !.count = st.count]
<1>1. st.prog = "wc" /\ st' = Filt!Got(n, r)
  BY DEF Filt!wc, Filt!Carried
<1> HIDE DEF b2, z
<1>2. r = [prog |-> st.prog, files |-> st.files, f |-> st.f, off |-> st.off, pc |-> "bytes", buf |-> st.buf,
           n |-> st.n, p |-> st.p, line |-> st.line, count |-> st.count, out |-> st.out,
           longest |-> st.longest, stale |-> st.stale]
  <2>1. r = [st EXCEPT !.pc = "bytes", !.count = st.count]
    OBVIOUS
  <2> HIDE DEF r
  <2> QED BY <2>1, Zenon DEF FilterFields
<1> HIDE DEF r
<1>3. st' = [prog |-> st.prog, files |-> st.files, f |-> st.f, off |-> st.off + n, pc |-> "bytes", buf |-> b2, n |-> n,
             p |-> 0, line |-> st.line, count |-> st.count, out |-> st.out,
             longest |-> z, stale |-> st.stale \/ n < st.longest]
  <2>1. FilterFields(r)
    BY <1>2 DEF FilterFields
  <2>2. Filt!Got(n, r) =
           [prog |-> r.prog, files |-> r.files, f |-> r.f, off |-> r.off + n, pc |-> r.pc, buf |-> Filt!Filled(n),
            n |-> n, p |-> 0, line |-> r.line, count |-> r.count, out |-> r.out,
            longest |-> IF n > r.longest THEN n ELSE r.longest, stale |-> r.stale \/ n < st.longest]
    BY <2>1, GotIs
  <2> QED BY <1>1, <1>2, <2>2 DEF b2, z
<1>4. /\ FilterFields(st') /\ NothingOut(st', st) /\ st'.pc = "bytes" /\ st'.off = st.off + n /\ st'.buf = b2
      /\ st'.n = n /\ st'.p = 0 /\ st'.line = st.line /\ st'.count = st.count /\ st'.longest = z
  BY <1>3 DEF FilterFields, NothingOut
<1>5. ASSUME Sound(st) PROVE Sound(st')
  <2> DEFINE t == st.files[st.f].text
             o == st.out[st.f]
  <2>1. Memory(st.prog, st.buf, st.longest) /\ HereIs(st) /\ st.f <= Len(st.files) /\ t \in Seq(Nat)
    BY <1>5, Under
  <2>2. AtRead("wc", t, st.off, o, st.line, st.count)
    BY <1>1, <2>1 DEF HereIs, Here
  <2>3. st.off \in Nat /\ n <= Len(t) - st.off
    BY <2>2 DEF AtRead, Filt!Left, Filt!Text
  <2>4. FilledBy(b2, st.buf, t, st.off, n) /\ b2 \in Bytes
    BY <2>1, <2>3, FilledIs DEF b2
  <2>5. z \in 0 .. BUFSIZE
    BY <2>1, LongestIs DEF Memory, z
  <2>6. SameFile(st', st, o)
    BY <1>4, <1>5, <2>1, NothingOutIs
  <2> HIDE DEF t, o
  <2>7. AtBytes("wc", t, st.off + n, o, n, 0, st.line, st.count, b2)
    BY <2>1, <2>2, <2>3, <2>4, WcReads
  <2>8. Here("wc", t, "bytes", st.off + n, o, n, 0, st.line, st.count, b2, z)
    BY <2>7 DEF Here
  <2>9. Memory("wc", b2, z)
    BY <2>4, <2>5 DEF Memory
  <2>10. /\ Memory(st.prog, st'.buf, st'.longest)
         /\ Here(st.prog, t, st'.pc, st'.off, o, st'.n, st'.p, st'.line, st'.count, st'.buf, st'.longest)
    BY <1>1, <1>4, <2>8, <2>9
  <2> QED BY <1>5, <2>1, <2>6, <2>10, StaysSound, Zenon DEF t
<1>6. Good(st)
  BY <1>1 DEF Good
<1> QED BY <1>4, <1>5, <1>6 DEF Keeps

LEMMA HeadKeeps ==
  ASSUME FilterFields(st), st.pc = "read", st.prog = "head" => st.line < LINES,
         NEW n \in 1 .. BUFSIZE, n <= Filt!Left, Filt!head(n)
  PROVE  Keeps(st', st)
<1> DEFINE b2 == Filt!Filled(n)
           z == IF n > st.longest THEN n ELSE st.longest
           r == [st EXCEPT !.pc = "lines"]
<1>1. st.prog = "head" /\ st' = Filt!Got(n, r)
  BY DEF Filt!head
<1> HIDE DEF b2, z
<1>2. r = [prog |-> st.prog, files |-> st.files, f |-> st.f, off |-> st.off, pc |-> "lines", buf |-> st.buf,
           n |-> st.n, p |-> st.p, line |-> st.line, count |-> st.count, out |-> st.out,
           longest |-> st.longest, stale |-> st.stale]
  <2>1. r = [st EXCEPT !.pc = "lines"]
    OBVIOUS
  <2> HIDE DEF r
  <2> QED BY <2>1, Zenon DEF FilterFields
<1> HIDE DEF r
<1>3. st' = [prog |-> st.prog, files |-> st.files, f |-> st.f, off |-> st.off + n, pc |-> "lines", buf |-> b2, n |-> n,
             p |-> 0, line |-> st.line, count |-> st.count, out |-> st.out,
             longest |-> z, stale |-> st.stale \/ n < st.longest]
  <2>1. FilterFields(r)
    BY <1>2 DEF FilterFields
  <2>2. Filt!Got(n, r) =
           [prog |-> r.prog, files |-> r.files, f |-> r.f, off |-> r.off + n, pc |-> r.pc, buf |-> Filt!Filled(n),
            n |-> n, p |-> 0, line |-> r.line, count |-> r.count, out |-> r.out,
            longest |-> IF n > r.longest THEN n ELSE r.longest, stale |-> r.stale \/ n < st.longest]
    BY <2>1, GotIs
  <2> QED BY <1>1, <1>2, <2>2 DEF b2, z
<1>4. /\ FilterFields(st') /\ NothingOut(st', st) /\ st'.pc = "lines" /\ st'.off = st.off + n /\ st'.buf = b2
      /\ st'.n = n /\ st'.p = 0 /\ st'.line = st.line /\ st'.count = st.count /\ st'.longest = z
      /\ st'.stale = (st.stale \/ n < st.longest)
  BY <1>3 DEF FilterFields, NothingOut
<1>5. ASSUME Good(st') PROVE Good(st) /\ ~(n < st.longest)
  <2>1. st'.prog = "head" /\ st'.files = st.files
    BY <1>1, <1>4 DEF NothingOut
  <2> QED BY <1>4, <1>5, <2>1 DEF Good
<1>6. ASSUME Sound(st), ~(n < st.longest) PROVE Sound(st')
  <2> DEFINE t == st.files[st.f].text
             o == st.out[st.f]
  <2>1. Memory(st.prog, st.buf, st.longest) /\ HereIs(st) /\ st.f <= Len(st.files) /\ t \in Seq(Nat)
    BY <1>6, Under
  <2>2. AtRead("head", t, st.off, o, st.line, st.count) /\ st.line < LINES
    BY <1>1, <2>1 DEF HereIs, Here
  <2>3. st.off \in Nat /\ n <= Len(t) - st.off
    BY <2>2 DEF AtRead, Filt!Left, Filt!Text
  <2>4. FilledBy(b2, st.buf, t, st.off, n) /\ b2 \in Bytes
    BY <2>1, <2>3, FilledIs DEF b2
  <2>5. ZerosFrom(st.buf, st.longest) /\ st.longest \in 0 .. BUFSIZE
    BY <1>1, <2>1 DEF Memory
  <2>6. z \in 0 .. BUFSIZE /\ z = n /\ st.longest <= n /\ st.longest \in Nat
    BY <2>5, <1>6, LongestIs DEF z
  <2>7. SameFile(st', st, o)
    BY <1>4, <1>6, <2>1, NothingOutIs
  <2> HIDE DEF t, o
  <2>8. ZerosFrom(b2, n)
    BY <2>1, <2>3, <2>4, <2>5, <2>6, FilledInBuf
  <2>9. AtLines("head", t, st.off + n, o, n, 0, st.line, b2, n)
    BY <2>1, <2>2, <2>3, <2>4, HeadReads
  <2>10. Here("head", t, "lines", st.off + n, o, n, 0, st.line, st.count, b2, z)
    BY <2>6, <2>9 DEF Here
  <2>11. Memory("head", b2, z)
    BY <2>4, <2>6, <2>8 DEF Memory
  <2>12. /\ Memory(st.prog, st'.buf, st'.longest)
         /\ Here(st.prog, t, st'.pc, st'.off, o, st'.n, st'.p, st'.line, st'.count, st'.buf, st'.longest)
    BY <1>1, <1>4, <2>10, <2>11
  <2> QED BY <1>6, <2>1, <2>7, <2>12, StaysSound, Zenon DEF t
<1> QED BY <1>4, <1>5, <1>6 DEF Keeps

\* The first newline between two places of buf, or none.
LEMMA NewlineOrNone ==
  ASSUME NEW b, NEW n \in 0 .. BUFSIZE, NEW p \in 0 .. n
  PROVE  NoLineEnds(b, p, n) \/ \E e \in p .. (n - 1) : b[e] = Filt!NEWLINE /\ NoLineEnds(b, p, e)
<1>0. BUFSIZE \in Nat
  BY FiltersAssumption
<1> DEFINE S == {a \in p .. (n - 1) : b[a] = Filt!NEWLINE}
<1>1. CASE S = {}
  <2>1. ASSUME NEW a \in 0 .. BUFSIZE, p <= a, a < n PROVE b[a] # Filt!NEWLINE
    <3>1. a \in p .. (n - 1)
      BY <1>0, <2>1
    <3> QED BY <3>1, <1>1
  <2> QED BY <2>1 DEF NoLineEnds
<1>2. CASE S # {}
  <2>1. S \in SUBSET Nat
    OBVIOUS
  <2> HIDE DEF S
  <2>2. PICK e \in S : \A y \in S : e <= y
    BY <1>2, <2>1, Smallest
  <2> USE DEF S
  <2>3. e \in p .. (n - 1) /\ b[e] = Filt!NEWLINE
    BY <2>2
  <2>4. ASSUME NEW a \in 0 .. BUFSIZE, p <= a, a < e PROVE b[a] # Filt!NEWLINE
    <3>1. a \in p .. (n - 1) /\ ~(e <= a)
      BY <1>0, <2>3, <2>4
    <3>2. a \notin S
      BY <2>2, <3>1
    <3> QED BY <3>1, <3>2
  <2> QED BY <2>3, <2>4 DEF NoLineEnds
<1> QED BY <1>1, <1>2

LEMMA LineKeeps ==
  ASSUME FilterFields(st), NEW k \in 0 .. BUFSIZE, Filt!head_line(k)
  PROVE  Keeps(st', st)
<1> DEFINE e == Filt!strchr(st.buf, st.p, Filt!NEWLINE)
           m == IF e = Filt!NULL THEN Filt!strlen(st.buf, st.p) ELSE (e - st.p) + 1
           o2 == st.out[st.f] \o Filt!Piece(st.buf, st.p, k)
           line == IF e = Filt!NULL THEN st.line ELSE st.line + 1
           p2 == st.p + m
           pc == IF k < m THEN "failed" ELSE IF e = Filt!NULL THEN "read" ELSE st.pc
           out2 == [st.out EXCEPT ![st.f] = o2]
<1>1. /\ st.pc = "lines" /\ st.line < LINES /\ k <= m
      /\ st' = [st EXCEPT !.out = out2, !.line = line, !.p = p2, !.pc = pc]
  BY DEF Filt!head_line
<1> HIDE DEF e, m, o2, line, p2, pc, out2
<1>2. /\ st' = [prog |-> st.prog, files |-> st.files, f |-> st.f, off |-> st.off, pc |-> pc, buf |-> st.buf,
                n |-> st.n, p |-> p2, line |-> line, count |-> st.count, out |-> out2,
                longest |-> st.longest, stale |-> st.stale]
  BY <1>1 DEF FilterFields
<1>3. /\ FilterFields(st') /\ SameGood(st', st) /\ st'.f = st.f
      /\ st'.pc = pc /\ st'.off = st.off /\ st'.buf = st.buf /\ st'.n = st.n /\ st'.p = p2
      /\ st'.line = line /\ st'.count = st.count /\ st'.longest = st.longest /\ st'.out = Put(st.out, st.f, o2)
  BY <1>2 DEF FilterFields, SameGood, Put, out2
<1>4. ASSUME Sound(st), Good(st) PROVE Sound(st')
  <2> DEFINE t == st.files[st.f].text
             o == st.out[st.f]
  <2>1. /\ IsOut(st.files, st.out) /\ Memory(st.prog, st.buf, st.longest) /\ HereIs(st)
        /\ st.f <= Len(st.files) /\ st.f \in 1 .. Len(st.files) /\ t \in Seq(Nat)
        /\ NoZeros(st.files) => \A j \in 1 .. Len(t) : t[j] # 0
    BY <1>1, <1>4, Under
  <2>2. AtLines(st.prog, t, st.off, o, st.n, st.p, st.line, st.buf, st.longest)
    BY <1>1, <2>1 DEF HereIs, Here
  <2>3. st.prog = "head" /\ st.n = st.longest /\ st.p \in 0 .. st.n
    BY <2>2 DEF AtLines
  <2>4. NoZeros(st.files)
    BY <1>4, <2>3 DEF Good
  <2>5. st.buf \in Bytes /\ st.longest \in 0 .. BUFSIZE /\ ZerosFrom(st.buf, st.longest)
    BY <2>1, <2>3 DEF Memory
  <2>6. st.n \in 0 .. BUFSIZE /\ st.n <= BUFSIZE
    BY <2>3, <2>5, FiltersAssumption
  <2>7. AtLines("head", t, st.off, o, st.n, st.p, st.line, st.buf, st.longest) /\ \A j \in 1 .. Len(t) : t[j] # 0
    BY <2>1, <2>2, <2>3, <2>4
  <2>8. o2 = o \o Filt!Piece(st.buf, st.p, k)
    BY DEF o2
  <2>9. SameFile(st', st, o2)
    <3>1. /\ IsOut(st.files, st'.out) /\ st'.out[st.f] = o2
          /\ \A a \in 1 .. Len(st.files) : a # st.f => st'.out[a] = st.out[a]
      <4>1. st'.out = Put(st.out, st.f, o2) /\ IsOut(st.files, st.out) /\ st.f \in 1 .. Len(st.files)
        BY <1>3, <2>1
      <4> QED BY <4>1, WriteIs
    <3> QED BY <1>3, <3>1, Zenon DEF SameFile, SameGood
  <2> HIDE DEF t, o
  <2>10. Here("head", t, pc, st.off, o2, st.n, p2, line, st.count, st.buf, st.longest)
    <3>0. HeadMay(t, st.off, o, st.n, st.p, st.line, st.buf, st.longest)
      BY <1>1, <2>1, <2>5, <2>6, <2>7 DEF HeadMay
    <3>1. CASE NoLineEnds(st.buf, st.p, st.n)
      <4>1. Unended(t, st.off, o, st.n, st.p, st.line, st.count, st.buf)
        BY <2>5, <3>0, <3>1, LineUnended, Zenon
      <4>2. /\ e = Filt!NULL /\ m = st.n - st.p /\ line = st.line /\ May(t, o, st.buf, st.p, m)
            /\ AtRead("head", t, st.off, o \o Filt!Piece(st.buf, st.p, m), line, st.count)
        <5>1. e = Filt!NULL /\ Filt!strlen(st.buf, st.p) = st.n - st.p
          BY <4>1, Zenon DEF e, Unended
        <5>2. m = st.n - st.p /\ line = st.line
          BY <5>1 DEF m, line
        <5> QED BY <4>1, <5>1, <5>2 DEF Unended
      <4>3. k \in 0 .. m
        BY <1>1, <2>3, <2>6, <4>2
      <4>4. Begun(Due("head", t), o2)
        BY <2>8, <4>2, <4>3, Zenon DEF May
      <4>5. CASE k < m
        <5>1. pc = "failed"
          BY <4>5 DEF pc
        <5> QED BY <4>4, <5>1 DEF Here
      <4>6. CASE ~(k < m)
        <5>1. pc = "read"
          BY <4>2, <4>6 DEF pc
        <5>2. k = m
          BY <2>3, <2>6, <4>2, <4>3, <4>6
        <5>3. AtRead("head", t, st.off, o2, line, st.count)
          BY <2>8, <4>2, <5>2, Zenon
        <5> QED BY <5>1, <5>3 DEF Here
      <4> QED BY <4>5, <4>6
    <3>2. CASE \E y \in st.p .. (st.n - 1) : st.buf[y] = Filt!NEWLINE /\ NoLineEnds(st.buf, st.p, y)
      <4>0. PICK y \in st.p .. (st.n - 1) : st.buf[y] = Filt!NEWLINE /\ NoLineEnds(st.buf, st.p, y)
        BY <3>2
      <4>1. Found(t, st.off, o, st.n, st.p, st.line, st.buf, st.longest, y)
        BY <3>0, <4>0, LineFound, Zenon
      <4>2. /\ e # Filt!NULL /\ m = (y - st.p) + 1 /\ May(t, o, st.buf, st.p, m)
            /\ AtLines("head", t, st.off, o \o Filt!Piece(st.buf, st.p, m), st.n, p2, line, st.buf, st.longest)
        <5>1. e = y /\ y # Filt!NULL
          BY <4>1, Zenon DEF e, Found
        <5>2. m = (y - st.p) + 1 /\ line = st.line + 1 /\ p2 = st.p + m
          BY <5>1 DEF m, line, p2
        <5> QED BY <4>1, <5>1, <5>2 DEF Found
      <4>3. k \in 0 .. m /\ m \in Nat
        BY <1>1, <2>3, <2>6, <4>0, <4>2
      <4>4. Begun(Due("head", t), o2)
        BY <2>8, <4>2, <4>3, Zenon DEF May
      <4>5. CASE k < m
        <5>1. pc = "failed"
          BY <4>5 DEF pc
        <5> QED BY <4>4, <5>1 DEF Here
      <4>6. CASE ~(k < m)
        <5>1. pc = "lines"
          BY <1>1, <4>2, <4>6 DEF pc
        <5>2. k = m
          BY <4>3, <4>6
        <5>3. AtLines("head", t, st.off, o2, st.n, p2, line, st.buf, st.longest)
          BY <2>8, <4>2, <5>2, Zenon
        <5> QED BY <5>1, <5>3 DEF Here
      <4> QED BY <4>5, <4>6
    <3> QED BY <2>3, <2>6, <3>1, <3>2, NewlineOrNone
  <2>11. /\ Memory(st.prog, st'.buf, st'.longest)
         /\ Here(st.prog, t, st'.pc, st'.off, o2, st'.n, st'.p, st'.line, st'.count, st'.buf, st'.longest)
    BY <1>3, <2>1, <2>3, <2>10
  <2> QED BY <1>4, <2>1, <2>9, <2>11, StaysSound, Zenon DEF t
<1> QED BY <1>3, <1>4, GoodStays DEF Keeps

LEMMA CloseKeeps == ASSUME FilterFields(st), Filt!close PROVE Keeps(st', st)
<1> DEFINE o2 == IF st.prog = "wc" THEN << <<st.count.l, st.count.w, st.count.c>> >> ELSE st.out[st.f]
           out2 == [st.out EXCEPT ![st.f] = o2]
<1>1. /\ st.pc = "read" /\ (Filt!Left = 0 \/ st.line = LINES)
      /\ st' = [st EXCEPT !.pc = "open", !.f = st.f + 1, !.out = out2]
  BY DEF Filt!close
<1> HIDE DEF o2, out2
<1>2. /\ st' = [prog |-> st.prog, files |-> st.files, f |-> st.f + 1, off |-> st.off, pc |-> "open", buf |-> st.buf,
                n |-> st.n, p |-> st.p, line |-> st.line, count |-> st.count, out |-> out2,
                longest |-> st.longest, stale |-> st.stale]
  BY <1>1 DEF FilterFields
<1>3. /\ FilterFields(st') /\ SameGood(st', st) /\ st'.prog = st.prog /\ st'.files = st.files /\ st'.f = st.f + 1
      /\ st'.pc = "open" /\ st'.buf = st.buf /\ st'.longest = st.longest /\ st'.out = Put(st.out, st.f, o2)
  BY <1>2 DEF FilterFields, SameGood, Put, out2
<1>4. ASSUME Sound(st) PROVE Sound(st')
  <2> DEFINE t == st.files[st.f].text
             o == st.out[st.f]
  <2>1. /\ IsOut(st.files, st.out) /\ Memory(st.prog, st.buf, st.longest) /\ HereIs(st) /\ FilesOK(st)
        /\ st.f <= Len(st.files) /\ st.f \in 1 .. Len(st.files) /\ t \in Seq(Nat) /\ st.prog \in Programs
    BY <1>1, <1>4, Under
  <2>2. AtRead(st.prog, t, st.off, o, st.line, st.count)
    BY <1>1, <2>1 DEF HereIs, Here
  <2>3. o2 = Printed(st.prog, o, st.count)
    BY DEF o2, Printed
  <2>4. st.off = Len(t) \/ st.line = LINES
    <3>1. st.off \in Nat /\ Len(t) \in Nat
      BY <2>2 DEF AtRead
    <3> QED BY <1>1, <3>1 DEF Filt!Left, Filt!Text
  <2>5. /\ IsOut(st.files, st'.out) /\ st'.out[st.f] = o2
        /\ \A a \in 1 .. Len(st.files) : a # st.f => st'.out[a] = st.out[a]
    BY <1>3, <2>1, WriteIs
  <2>6. Others(st.prog, st.files, st.f, st.out)
    BY <1>4 DEF Sound
  <2> HIDE DEF o
  <2>7. o2 = Due(st.prog, t)
    BY <2>1, <2>2, <2>3, <2>4, ReadEnds
  <2>8. Others(st.prog, st.files, st.f + 1, st'.out)
    <3>1. ASSUME NEW a \in 1 .. Len(st.files)
          PROVE  /\ a < st.f + 1 => st'.out[a] = Due(st.prog, st.files[a].text)
                 /\ a > st.f + 1 => st'.out[a] = <<>>
      <4>1. (a < st.f + 1 => a < st.f \/ a = st.f) /\ (a > st.f + 1 => a > st.f /\ a # st.f) /\ (a < st.f => a # st.f)
        BY <2>1
      <4>2. a # st.f => st'.out[a] = st.out[a]
        BY <2>5
      <4>3. (a < st.f => st.out[a] = Due(st.prog, st.files[a].text)) /\ (a > st.f => st.out[a] = <<>>)
        BY <2>6 DEF Others
      <4>4. a = st.f => st'.out[a] = Due(st.prog, st.files[a].text)
        BY <2>5, <2>7
      <4> QED BY <4>1, <4>2, <4>3, <4>4
    <3> QED BY <3>1 DEF Others
  <2>9. ASSUME st.f + 1 <= Len(st.files) PROVE st'.out[st.f + 1] = <<>>
    <3>1. st.f + 1 \in 1 .. Len(st.files) /\ st.f + 1 > st.f /\ st.f + 1 # st.f
      BY <2>1, <2>9
    <3> QED BY <2>5, <2>6, <3>1 DEF Others
  <2>10. FilesOK(st')
    <3>1. st.f + 1 \in Nat \ {0}
      BY <2>1
    <3> QED BY <1>3, <2>1, <3>1 DEF FilesOK
  <2>11. st'.f <= Len(st'.files) => HereIs(st')
    BY <1>3, <2>9 DEF HereIs, Here
  <2> QED BY <1>3, <2>1, <2>5, <2>8, <2>10, <2>11 DEF Sound
<1> QED BY <1>3, <1>4, GoodStays DEF Keeps

LEMMA ReadKeeps == ASSUME FilterFields(st), Filt!read PROVE Keeps(st', st)
<1>1. /\ st.pc = "read" /\ (st.prog = "head" => st.line < LINES)
      /\ \E n \in 1 .. BUFSIZE : n <= Filt!Left /\ (Filt!wc(n) \/ Filt!head(n) \/ \E k \in 0 .. n : Filt!cat(n, k))
  BY Zenon DEF Filt!read
<1>2. PICK n \in 1 .. BUFSIZE : n <= Filt!Left /\ (Filt!wc(n) \/ Filt!head(n) \/ \E k \in 0 .. n : Filt!cat(n, k))
  BY <1>1, Zenon
<1>3. CASE Filt!wc(n)
  BY <1>1, <1>2, <1>3, WcKeeps, Zenon
<1>4. CASE Filt!head(n)
  BY <1>1, <1>2, <1>4, HeadKeeps, Zenon
<1>5. CASE \E k \in 0 .. n : Filt!cat(n, k)
  BY <1>1, <1>2, <1>5, CatKeeps, Zenon
<1> QED BY <1>2, <1>3, <1>4, <1>5, Zenon

LEMMA FiltersNext == FilterInv /\ prog = "filters" /\ [filters]_<<prog, st>> => FilterInv'
<1> SUFFICES ASSUME FilterInv, prog = "filters", [filters]_<<prog, st>> PROVE FilterInv'
  OBVIOUS
<1>0. prog' = prog
  BY DEF filters
<1>1. ASSUME FilterFields(st) PROVE Keeps(st', st)
  <2>1. CASE UNCHANGED <<prog, st>>
    BY <1>1, <2>1 DEF Keeps
  <2>2. CASE filters
    <3>1. \/ Filt!open \/ Filt!exit0 \/ Filt!read \/ Filt!close \/ Filt!read_error \/ Filt!wc_byte \/ Filt!wc_end
          \/ Filt!head_enough \/ \E k \in 0 .. BUFSIZE : Filt!head_line(k)
      BY <2>2, Zenon DEF filters, Filt!Next
    <3> QED BY <1>1, <3>1, OpenKeeps, ExitKeeps, ReadKeeps, CloseKeeps, ErrorKeeps, ByteKeeps, WcEndKeeps,
               EnoughKeeps, LineKeeps, Zenon
  <2> QED BY <2>1, <2>2
<1> QED BY <1>0, <1>1, KeepsInv

LEMMA PromiseIs ==
  ASSUME st.prog \in Programs, NEW t PROVE Filt!Promise(t) = Due(st.prog, t)
<1>1. /\ Filt!Cardinality(Filt!Newlines(t)) = Cardinality(Filt!Newlines(t))
      /\ Filt!Cardinality(Filt!WordStarts(t)) = Cardinality(Filt!WordStarts(t))
  BY SameCardinality
<1> QED BY <1>1 DEF Filt!Promise, Due, Programs

\* Wherever the program is in a file, what is out of it is the beginning of its due.
LEMMA HereBegun ==
  ASSUME NEW prg \in Programs, NEW t \in Seq(Nat), NEW pc, NEW off, NEW o, NEW n, NEW p, NEW line, NEW count,
         NEW b, NEW k, Here(prg, t, pc, off, o, n, p, line, count, b, k)
  PROVE  Begun(Due(prg, t), o)
<1>1. CASE pc = "open"
  BY <1>1, BegunAtStart DEF Here
<1>2. CASE pc = "read"
  BY <1>2, ReadBegun DEF Here
<1>3. CASE pc = "bytes"
  BY <1>3, BegunAtStart DEF Here, AtBytes
<1>4. CASE pc = "lines"
  <2>1. prg = "head" /\ Showing(t, o, line) /\ Due("head", t) = Filt!FirstLines(t)
    BY <1>4 DEF Here, AtLines, Due
  <2> QED BY <2>1, ShowingBegun
<1>5. CASE pc = "failed"
  BY <1>5 DEF Here
<1> QED BY <1>1, <1>2, <1>3, <1>4, <1>5 DEF Here

LEMMA FiltersRight == FilterInv => Filters_Cuts
<1> SUFFICES ASSUME FilterFields(st) /\ (Good(st) => Sound(st)) PROVE Filt!CutsDoNotMatter
  BY DEF FilterInv, Filters_Cuts
<1> SUFFICES ASSUME st.prog = "head" => Filt!IsText /\ ~st.stale, NEW e \in DOMAIN st.files
             PROVE  LET due == Filt!Promise(st.files[e].text)
                    IN  /\ e < st.f \/ st.pc = "done" => st.out[e] = due
                        /\ e = st.f => \E k \in 0 .. Len(due) : st.out[e] = SubSeq(due, 1, k)
                        /\ e > st.f /\ st.pc # "done" => st.out[e] = <<>>
  BY Zenon DEF Filt!CutsDoNotMatter
<1>1. Sound(st)
  BY DEF Good, NoZeros, Filt!IsText
<1>2. /\ FilesOK(st) /\ Others(st.prog, st.files, st.f, st.out) /\ (st.f <= Len(st.files) => HereIs(st))
      /\ st.prog \in Programs /\ st.files \in Seq([there : BOOLEAN, text : Seq(Nat)]) /\ st.f \in Nat
  BY <1>1 DEF Sound, FilesOK
<1>3. e \in 1 .. Len(st.files) /\ Len(st.files) \in Nat
  BY <1>2
<1> DEFINE t == st.files[e].text
           due == Due(st.prog, t)
<1>4. Filt!Promise(t) = due
  BY <1>2, PromiseIs
<1>5. (e < st.f => st.out[e] = due) /\ (e > st.f => st.out[e] = <<>>)
  BY <1>2, <1>3 DEF Others
<1>6. e = st.f => Begun(due, st.out[e])
  <2>1. ASSUME e = st.f PROVE Begun(due, st.out[e])
    <3>1. st.f <= Len(st.files) /\ HereIs(st)
      BY <1>2, <1>3, <2>1
    <3>2. st.files[st.f].text \in Seq(Nat)
      BY <1>2, <3>1, TextIs
    <3>3. Begun(Due(st.prog, st.files[st.f].text), st.out[st.f])
      BY <1>2, <3>1, <3>2, HereBegun DEF HereIs
    <3> QED BY <2>1, <3>3
  <2> QED BY <2>1
<1>7. st.pc = "done" => e < st.f
  <2>1. st.f <= Len(st.files) => st.pc # "done"
    BY <1>2 DEF HereIs, Here
  <2> QED BY <1>2, <1>3, <2>1
<1> HIDE DEF t, due
<1>8. /\ e < st.f \/ st.pc = "done" => st.out[e] = due
      /\ e = st.f => \E k \in 0 .. Len(due) : st.out[e] = SubSeq(due, 1, k)
      /\ e > st.f /\ st.pc # "done" => st.out[e] = <<>>
  BY <1>5, <1>6, <1>7, Zenon DEF Begun
<1> QED BY <1>4, <1>8, Zenon DEF t

\* However read() cuts the files up and wherever a read or a write fails, for every
\* size of buf, number of lines and list of files of any length: cat prints the files,
\* wc counts their lines, words and bytes, and head shows their first lines, of text
\* and as long as no read is shorter than an earlier one; an error leaves the
\* beginning of what was due.
THEOREM CutsNeverMatter == FiltersSpec => []Filters_Cuts
<1>1. FiltersInit => FilterInv /\ prog = "filters"
  BY FiltersStart DEF FiltersInit
<1>2. FilterInv /\ prog = "filters" /\ [filters]_<<prog, st>> => (FilterInv /\ prog = "filters")'
  <2>1. prog = "filters" /\ [filters]_<<prog, st>> => prog' = "filters"
    BY DEF filters
  <2> QED BY <2>1, FiltersNext
<1> QED BY <1>1, <1>2, FiltersRight, PTL DEF FiltersSpec

=============================================================================
