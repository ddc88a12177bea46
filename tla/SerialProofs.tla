---------------------------- MODULE SerialProofs ----------------------------
(***************************************************************************)
(* Proofs about Serial, for every buffer size, set of keys and counts.     *)
(* ScreenIsInput is not inductive: it does not say that high is at least   *)
(* tail, without which push_back could overwrite a slot that still counts, *)
(* nor that a reader under way still wants a character.  IInv adds these,  *)
(* and what the readers have received.                                     *)
(***************************************************************************)
EXTENDS Serial, SequenceTheorems, TLAPS

IInv ==
  /\ ScreenIsInput
  /\ screen \in Seq(Chars)
  /\ high \in Nat /\ tail <= high
  /\ pc # "user" => want > 0
  /\ got \in Seq(Chars \cup {"nul"}) /\ Len(got) = head

-----------------------------------------------------------------------------
(* Arithmetic and sequences.                                               *)

\* A counter has a slot, and two counters less than a buffer apart have
\* different slots.
LEMMA SlotType ==
  ASSUME NEW n \in Nat
  PROVE  At(n) \in 0 .. (BUFFER_SIZE - 1)
BY SerialAssumption DEF At

LEMMA AtLeastOnce ==
  ASSUME NEW d \in Nat, NEW q \in Int, q > 0
  PROVE  d * q >= d
OBVIOUS

LEMMA SlotsDiffer ==
  ASSUME NEW m \in Nat, NEW n \in Nat, m < n, n < m + BUFFER_SIZE
  PROVE  At(m) # At(n)
<1> DEFINE d == BUFFER_SIZE
           q == (n \div d) - (m \div d)
<1> SUFFICES ASSUME m % d = n % d
             PROVE  FALSE
  BY DEF At
<1>1. d \in Nat \ {0}
  BY SerialAssumption
<1>2. /\ m = d * (m \div d) + (m % d) /\ n = d * (n \div d) + (n % d)
      /\ m \div d \in Int /\ n \div d \in Int /\ m % d \in Int
  BY <1>1
<1>3. n - m = d * q /\ q \in Int
  BY <1>1, <1>2
<1> HIDE DEF q
<1>4. CASE q <= 0
  BY <1>1, <1>3, <1>4
<1>5. CASE q > 0
  BY <1>1, <1>3, <1>5, AtLeastOnce
<1> QED BY <1>3, <1>4, <1>5

\* Erasing the last character, or echoing one more, leaves the characters
\* before it.
LEMMA EraseLast ==
  ASSUME NEW S, NEW s \in Seq(S), Len(s) > 0
  PROVE  LET t == SubSeq(s, 1, Len(s) - 1)
         IN  /\ t \in Seq(S) /\ Len(t) = Len(s) - 1
             /\ \A k \in 1 .. (Len(s) - 1) : t[k] = s[k]
<1> DEFINE n == Len(s) - 1
           t == SubSeq(s, 1, n)
<1>1. n \in Nat /\ \A k \in 1 .. n : s[k] \in S
  OBVIOUS
<1>2. /\ t \in Seq(S) /\ Len(t) = IF 1 <= n THEN n - 1 + 1 ELSE 0
      /\ \A k \in 1 .. n - 1 + 1 : t[k] = s[1 + k - 1]
  BY <1>1, SubSeqProperties, 1 \in Int
<1> HIDE DEF n, t
<1>3. Len(t) = n /\ \A k \in 1 .. n : t[k] = s[k]
  BY <1>1, <1>2
<1> QED BY <1>2, <1>3 DEF n, t

LEMMA EchoOne ==
  ASSUME NEW S, NEW s \in Seq(S), NEW ch \in S
  PROVE  LET t == Append(s, ch)
         IN  /\ t \in Seq(S) /\ Len(t) = Len(s) + 1 /\ t[Len(s) + 1] = ch
             /\ \A k \in 1 .. Len(s) : t[k] = s[k]
OBVIOUS

LEMMA SamePrefix ==
  ASSUME NEW S, NEW s \in Seq(S), NEW t \in Seq(S), NEW n \in Nat,
         n <= Len(s), n <= Len(t), \A k \in 1 .. n : s[k] = t[k]
  PROVE  SubSeq(s, 1, n) = SubSeq(t, 1, n)
OBVIOUS

-----------------------------------------------------------------------------
(* The invariant.                                                          *)

LEMMA InitIInv == Init => IInv
BY SerialAssumption DEF Init, IInv, ScreenIsInput, TypeOK, Chars

\* The conjuncts of the invariant about the screen and the buffer, as facts
\* about given counters.
Agree(s, b, h, c, t, hi) ==
  /\ Len(s) = t
  /\ c > 0 => s[c] = "nl"
  /\ \A n \in (c + 1) .. t : s[n] # "nl"
  /\ \A n \in h .. (t - 1) : hi <= n + BUFFER_SIZE => b[At(n)] = s[n + 1]

\* Backspace takes the last character of the current line.
LEMMA BackspaceKeeps ==
  ASSUME IInv, HandleBackspace
  PROVE  IInv'
<1>0. UNCHANGED <<buffer, head, clapboard, pc, want, got, high>>
  BY DEF HandleBackspace
<1>1. CASE CanErase
  <2> DEFINE s == SubSeq(screen, 1, Len(screen) - 1)
  <2>1. tail' = tail - 1 /\ screen' = s
    BY <1>1 DEF HandleBackspace
  <2>2. /\ head \in Nat /\ clapboard \in Nat /\ tail \in Nat /\ high \in Nat
        /\ head <= clapboard /\ clapboard < tail /\ tail <= high
        /\ screen \in Seq(Chars) /\ Agree(screen, buffer, head, clapboard, tail, high)
    BY <1>1 DEF IInv, ScreenIsInput, TypeOK, CanErase, Agree
  <2>3. /\ s \in Seq(Chars) /\ Len(s) = tail - 1
        /\ \A k \in 1 .. (tail - 1) : s[k] = screen[k]
    BY <2>2, EraseLast DEF Agree
  <2> HIDE DEF s
  <2>4. Agree(s, buffer, head, clapboard, tail - 1, high)
    BY <2>2, <2>3 DEF Agree
  <2> QED BY <1>0, <2>1, <2>2, <2>3, <2>4 DEF IInv, ScreenIsInput, TypeOK, Agree
<1>2. CASE ~CanErase
  <2>1. UNCHANGED <<tail, screen>>
    BY <1>2 DEF HandleBackspace
  <2> QED BY <1>0, <2>1 DEF IInv, ScreenIsInput, TypeOK, At
<1> QED BY <1>1, <1>2

\* push_back puts a character where no character lies that still counts.
LEMMA CharKeeps ==
  ASSUME IInv, HandleChar
  PROVE  IInv'
<1>1. PICK b \in Chars \cup {"cr"} :
        /\ screen' = Append(screen, Translate(b))
        /\ buffer' = [buffer EXCEPT ![At(tail)] = Translate(b)]
        /\ tail' = PushBack(Translate(b)).tail
        /\ clapboard' = PushBack(Translate(b)).clapboard
  BY DEF HandleChar
<1> DEFINE ch == Translate(b)
           s == Append(screen, ch)
           bf == [buffer EXCEPT ![At(tail)] = ch]
           c == IF ch = "nl" THEN tail + 1 ELSE clapboard
           hi == Top(high, tail + 1)
<1>2. ch \in Chars
  BY DEF Translate, Chars
<1> HIDE DEF ch
<1>3. /\ screen' = s /\ buffer' = bf /\ tail' = tail + 1 /\ clapboard' = c /\ high' = hi
      /\ UNCHANGED <<head, pc, want, got>>
  BY <1>1 DEF PushBack, HandleChar, ch
<1>4. /\ head \in Nat /\ clapboard \in Nat /\ tail \in Nat /\ high \in Nat
      /\ head <= clapboard /\ clapboard <= tail /\ tail <= high
      /\ screen \in Seq(Chars) /\ Agree(screen, buffer, head, clapboard, tail, high)
      /\ buffer \in [0 .. (BUFFER_SIZE - 1) -> Chars \cup {"nul"}]
  BY DEF IInv, ScreenIsInput, TypeOK, Agree
<1>5. /\ s \in Seq(Chars) /\ Len(s) = tail + 1 /\ s[tail + 1] = ch
      /\ \A k \in 1 .. tail : s[k] = screen[k]
  BY <1>2, <1>4, EchoOne DEF Agree
<1>6. /\ hi \in Nat /\ hi >= high /\ hi >= tail + 1
      /\ c \in Nat /\ head <= c /\ c <= tail + 1
  BY <1>4 DEF Top
<1>7. At(tail) \in 0 .. (BUFFER_SIZE - 1)
  BY <1>4, SlotType
<1>8. bf \in [0 .. (BUFFER_SIZE - 1) -> Chars \cup {"nul"}] /\ bf[At(tail)] = ch
  BY <1>2, <1>4, <1>7
<1>9. \A n \in head .. tail : hi <= n + BUFFER_SIZE => bf[At(n)] = s[n + 1]
  <2> SUFFICES ASSUME NEW n \in head .. tail, hi <= n + BUFFER_SIZE
               PROVE  bf[At(n)] = s[n + 1]
    OBVIOUS
  <2>1. CASE n = tail
    BY <2>1, <1>5, <1>8
  <2>2. CASE n < tail
    <3>1. n \in Nat /\ high <= n + BUFFER_SIZE /\ tail < n + BUFFER_SIZE
      BY <1>4, <1>6, SerialAssumption
    <3>2. At(n) # At(tail) /\ At(n) \in 0 .. (BUFFER_SIZE - 1)
      BY <2>2, <3>1, <1>4, SlotsDiffer, SlotType
    <3>3. bf[At(n)] = buffer[At(n)]
      BY <3>2, <1>4
    <3>4. buffer[At(n)] = screen[n + 1]
      BY <2>2, <3>1, <1>4 DEF Agree
    <3>5. s[n + 1] = screen[n + 1]
      BY <2>2, <3>1, <1>4, <1>5
    <3> QED BY <3>3, <3>4, <3>5
  <2>3. n = tail \/ n < tail
    BY <1>4
  <2> QED BY <2>1, <2>2, <2>3
<1> HIDE DEF s, bf, hi
<1>10. Agree(s, bf, head, c, tail + 1, hi)
  <2>1. c > 0 => s[c] = "nl"
    BY <1>4, <1>5 DEF Agree
  <2>2. \A n \in (c + 1) .. (tail + 1) : s[n] # "nl"
    BY <1>4, <1>5 DEF Agree
  <2> QED BY <1>4, <1>5, <1>9, <2>1, <2>2 DEF Agree
<1> HIDE DEF c
<1>11. pc \in {"user", "getchar", "handle", "drain"} /\ want \in Nat /\ (pc # "user" => want > 0)
  BY DEF IInv, ScreenIsInput, TypeOK
<1>12. got \in Seq(Chars \cup {"nul"}) /\ Len(got) = head
  BY DEF IInv
<1> QED BY <1>3, <1>4, <1>5, <1>6, <1>8, <1>10, <1>11, <1>12
        DEF IInv, ScreenIsInput, TypeOK, Agree, At

\* A reader takes the character at head.
LEMMA PopFrontKeeps ==
  ASSUME IInv, pop_front
  PROVE  IInv'
<1> DEFINE ch == buffer[At(head)]
<1>1. /\ head \in Nat /\ clapboard \in Nat /\ tail \in Nat /\ want \in Nat /\ want > 0
      /\ head < clapboard /\ clapboard <= tail
      /\ buffer \in [0 .. (BUFFER_SIZE - 1) -> Chars \cup {"nul"}]
      /\ got \in Seq(Chars \cup {"nul"}) /\ Len(got) = head
  BY DEF IInv, ScreenIsInput, TypeOK, pop_front, Ready
<1>2. ch \in Chars \cup {"nul"}
  BY <1>1, SlotType
<1>3. /\ got' = Append(got, ch) /\ head' = head + 1 /\ want' = want - 1
      /\ pc' = IF want = 1 \/ ch = "nl" THEN "user" ELSE "getchar"
      /\ UNCHANGED <<buffer, tail, clapboard, screen, high>>
  BY DEF pop_front
<1> HIDE DEF ch
<1>4. got' \in Seq(Chars \cup {"nul"}) /\ Len(got') = head + 1
  BY <1>1, <1>2, <1>3
<1>5. /\ want' \in Nat /\ (pc' # "user" => want' > 0)
      /\ pc' \in {"user", "getchar", "handle", "drain"}
      /\ head' \in Nat /\ head' <= clapboard
  BY <1>1, <1>3
<1>6. \A n \in head' .. (tail - 1) : n \in head .. (tail - 1)
  BY <1>1, <1>3
<1> QED BY <1>1, <1>3, <1>4, <1>5, <1>6 DEF IInv, ScreenIsInput, TypeOK, At

LEMMA StepKeepsIInv ==
  ASSUME IInv, [Next]_vars
  PROVE  IInv'
<1> USE DEF IInv, ScreenIsInput, TypeOK, At
<1>1. ASSUME NEW k \in Keys, Press(k) PROVE IInv'
  BY <1>1 DEF Press, hist
<1>2. CASE Arrive
  BY <1>2 DEF Arrive, hist
<1>3. ASSUME NEW count \in Counts, serial_read(count) PROVE IInv'
  BY <1>3, SerialAssumption DEF serial_read, hist
<1>4. CASE pop_front
  BY <1>4, PopFrontKeeps
<1>5. CASE Poll
  BY <1>5 DEF Poll, hist
<1>6. CASE HandleIgnore
  BY <1>6 DEF HandleIgnore, hist
<1>7. CASE HandleEscape
  BY <1>7 DEF HandleEscape, Take, hist
<1>8. CASE HandleBackspace
  BY <1>8, BackspaceKeeps
<1>9. CASE HandleChar
  BY <1>9, CharKeeps
<1>10. CASE HandleDone
  BY <1>10 DEF HandleDone, hist
<1>11. CASE Drain
  BY <1>11 DEF Drain, hist
<1>12. CASE UNCHANGED vars
  BY <1>12 DEF vars, hist
<1> QED BY <1>1, <1>2, <1>3, <1>4, <1>5, <1>6, <1>7, <1>8, <1>9, <1>10, <1>11, <1>12
        DEF Next, Kernel

\* Whatever is typed, erased and read, and however the bytes arrive: the echo,
\* the ring buffer and the counters of serial.c agree, for every buffer size.
THEOREM ScreenAlwaysInput == Spec => []ScreenIsInput
<1>1. Init => IInv
  BY InitIInv
<1>2. IInv /\ [Next]_vars => IInv'
  BY StepKeepsIInv
<1>3. IInv => ScreenIsInput
  BY DEF IInv
<1> QED BY <1>1, <1>2, <1>3, PTL DEF Spec

\* What a step of the kernel does to the screen and to what readers have got.
LEMMA StepDelivers ==
  ASSUME IInv, [Next]_vars
  PROVE  [Delivers]_vars
<1>0. /\ head \in Nat /\ tail \in Nat /\ clapboard \in Nat /\ head <= clapboard /\ clapboard <= tail
      /\ screen \in Seq(Chars) /\ Len(screen) = tail
      /\ got \in Seq(Chars \cup {"nul"}) /\ Len(got) = head
      /\ \A n \in head .. (tail - 1) :
           high <= n + BUFFER_SIZE => buffer[At(n)] = screen[n + 1]
      /\ buffer \in [0 .. (BUFFER_SIZE - 1) -> Chars \cup {"nul"}]
  BY DEF IInv, ScreenIsInput, TypeOK
<1>1. CASE pop_front
  <2>1. got' = Append(got, buffer[At(head)]) /\ screen' = screen /\ head < clapboard
    BY <1>1, <1>0 DEF pop_front, Ready
  <2>2. buffer[At(head)] \in Chars \cup {"nul"}
    BY <1>0, SlotType
  <2>3. Len(got') = head + 1 /\ got'[head + 1] = buffer[At(head)]
    BY <1>0, <2>1, <2>2, EchoOne
  <2>4. high <= head + BUFFER_SIZE => buffer[At(head)] = screen[head + 1]
    BY <1>0, <2>1
  <2> QED BY <1>0, <2>1, <2>3, <2>4 DEF Delivers
<1>2. CASE HandleBackspace /\ CanErase
  <2>1. UNCHANGED got /\ screen' = SubSeq(screen, 1, Len(screen) - 1) /\ clapboard < tail
    BY <1>0, <1>2 DEF HandleBackspace, CanErase
  <2>2. /\ screen' \in Seq(Chars) /\ Len(screen') = tail - 1
        /\ \A k \in 1 .. (tail - 1) : screen'[k] = screen[k]
    BY <1>0, <2>1, EraseLast
  <2>3. head <= tail - 1 /\ \A k \in 1 .. head : screen'[k] = screen[k]
    BY <1>0, <2>1, <2>2
  <2>4. SubSeq(screen', 1, head) = SubSeq(screen, 1, head)
    BY <1>0, <2>2, <2>3, SamePrefix
  <2> QED BY <2>1, <2>4 DEF Delivers
<1>3. CASE HandleChar
  <2>1. PICK ch \in Chars : UNCHANGED got /\ screen' = Append(screen, ch)
    BY <1>3 DEF HandleChar, Translate, Chars
  <2>2. /\ screen' \in Seq(Chars) /\ Len(screen') = tail + 1
        /\ \A k \in 1 .. tail : screen'[k] = screen[k]
    BY <1>0, <2>1, EchoOne
  <2>3. SubSeq(screen', 1, head) = SubSeq(screen, 1, head)
    BY <1>0, <2>2, SamePrefix
  <2> QED BY <2>1, <2>3 DEF Delivers
<1>4. CASE UNCHANGED <<got, screen>>
  BY <1>4 DEF Delivers
<1>5. pop_front \/ (HandleBackspace /\ CanErase) \/ HandleChar \/ UNCHANGED <<got, screen>>
  BY DEF Next, Kernel, vars, hist, Press, Arrive, serial_read, Poll, HandleIgnore, HandleEscape,
         HandleBackspace, HandleDone, Drain
<1> QED BY <1>1, <1>2, <1>3, <1>4, <1>5

\* serial_read hands out what stands on the screen, once and in order, and what
\* it has handed out can no longer be erased, for every buffer size.
THEOREM ReadersGetWhatWasTyped == Spec => ReadsWhatWasTyped
<1>1. Init => IInv
  BY InitIInv
<1>2. IInv /\ [Next]_vars => IInv'
  BY StepKeepsIInv
<1>3. IInv /\ [Next]_vars => [Delivers]_vars
  BY StepDelivers
<1> QED BY <1>1, <1>2, <1>3, PTL DEF Spec, ReadsWhatWasTyped

=============================================================================
