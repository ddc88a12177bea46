---------------------------- MODULE MallocProofs ----------------------------
(***************************************************************************)
(* Proofs about malloc and free, for every size of the address space and   *)
(* of the requests, and every sequence of calls.                           *)
(***************************************************************************)
EXTENDS Malloc, WellFoundedInduction, TLAPS

\* The headers that are linked, and with base: the ring.
Lk(m) == {b \in Addr : b # Base /\ m[b].ptr # NIL}
Ring(m) == Lk(m) \cup {Base}

\* The blocks of B cover C, and no unit twice.
Tiles(m, B, C) ==
  /\ \A b \in B : m[b].size > 0 /\ \A u \in Units(b, m[b].size) : u \in C
  /\ \A x, y \in B : x < y => x + m[x].size <= y
  /\ \A u \in C : \E b \in B : u \in Units(b, m[b].size)

\* Every block points to the next one above it, the last one to base, and there
\* is a gap between the two unless the lower one is in T.
Chain(m, T) ==
  /\ m[Base].size = 0
  /\ \A b \in Ring(m) :
       /\ m[b].ptr \in Ring(m)
       /\ m[b].ptr # Base => b < m[b].ptr /\ (b \notin T => b + m[b].size < m[b].ptr)
       /\ \A c \in Lk(m) : b < c => m[b].ptr # Base /\ m[b].ptr <= c

Mems == [Addr -> [ptr : Addr \cup {NIL}, size : 0 .. MaxAddr]]

\* The blocks that are not in the list.
Held == DOMAIN live \cup (IF pc = "find" THEN {bp} ELSE {})
\* The blocks between freep and p, in the order of the list.
Passed(b) == IF p > freep THEN freep < b /\ b < p ELSE freep < b \/ b < p

MTypes ==
  /\ mem \in Mems /\ freep \in Addr \cup {NIL} /\ brk \in (HeapStart .. MaxAddr) \cup {NIL}
  /\ pc \in {"idle", "scan", "find", "aborted"} /\ nunits \in Nat /\ inCore \in BOOLEAN
  /\ pc = "scan" \/ (pc = "find" /\ inCore) => nunits > 0
Arena ==
  /\ core \subseteq HeapStart .. (Break - 1) /\ raw \subseteq HeapStart .. (Break - 1)
  /\ core \cap raw = {}
  /\ raw # {} => \E lo, hi \in Addr : lo <= hi /\ raw = lo .. hi
Unused ==
  freep = NIL =>
    pc \in {"idle", "aborted"} /\ DOMAIN live = {} /\ core = {} /\ mem = [a \in Addr |-> Poison]
HeldOK ==
  /\ \A a \in Held : a \in Addr /\ a # Base /\ mem[a].ptr = NIL
  /\ \A a \in DOMAIN live : mem[a].size = live[a]
  /\ pc = "find" => bp \notin DOMAIN live /\ p \in Ring(mem)
ScanOK ==
  pc = "scan" =>
    /\ prevp \in Ring(mem) /\ p = mem[prevp].ptr
    /\ \A b \in Ring(mem) : Passed(b) => mem[b].size < nunits
ListInv ==
  freep # NIL =>
    /\ freep \in Ring(mem) /\ Chain(mem, {}) /\ Tiles(mem, Lk(mem) \cup Held, core)
    /\ HeldOK /\ ScanOK

MInv == MTypes /\ Arena /\ Unused /\ ListInv

-----------------------------------------------------------------------------
(* What the list operations do to a memory.                                *)

LEMMA Addresses ==
  /\ Addr \subseteq Nat /\ NIL \notin Addr /\ Base \in Addr /\ HeapStart \in Addr
  /\ Base = 0 /\ HeapStart = 2 /\ MaxAddr \in Nat
  /\ \A a \in Addr : a < MaxAddr
BY MallocAssumption DEF Addr, Base, HeapStart

LEMMA MemFields ==
  ASSUME NEW m \in Mems, NEW a \in Addr
  PROVE  /\ m[a].ptr \in Addr \cup {NIL} /\ m[a].size \in 0 .. MaxAddr /\ m[a].size \in Nat
         /\ m[a] = [ptr |-> m[a].ptr, size |-> m[a].size]
         /\ m[a] \in [ptr : Addr \cup {NIL}, size : 0 .. MaxAddr]
<1>1. m[a] \in [ptr : Addr \cup {NIL}, size : 0 .. MaxAddr]
  BY DEF Mems
<1> QED BY <1>1

\* Only the two fields of a header count.
LEMMA SameFields ==
  ASSUME NEW m \in Mems, NEW n \in Mems,
         \A a \in Addr : n[a].ptr = m[a].ptr /\ n[a].size = m[a].size
  PROVE  n = m
<1>1. \A a \in Addr : n[a] = m[a]
  BY MemFields, ZenonT(60)
<1> QED BY <1>1 DEF Mems

\* A tile ends inside the space that is covered, below every other tile.
LEMMA TileEnds ==
  ASSUME NEW m \in Mems, NEW B \in SUBSET Addr, NEW C \in SUBSET Addr, Tiles(m, B, C), NEW x \in B
  PROVE  /\ x \in Nat /\ m[x].size \in Nat /\ m[x].size > 0 /\ x + m[x].size <= MaxAddr
         /\ x + m[x].size - 1 \in C /\ x \in C
         /\ \A y \in B : x < y => x + m[x].size <= y
<1>1. x \in Addr /\ x \in Nat /\ m[x].size \in Nat
  BY MemFields, Addresses
<1>2. m[x].size > 0 /\ \A u \in Units(x, m[x].size) : u \in C
  BY DEF Tiles
<1>3. x + m[x].size - 1 \in Units(x, m[x].size) /\ x \in Units(x, m[x].size)
  BY <1>1, <1>2 DEF Units
<1>4. x + m[x].size - 1 \in Addr
  BY <1>2, <1>3
<1>5. x + m[x].size <= MaxAddr
  BY <1>1, <1>2, <1>4, Addresses
<1> QED BY <1>1, <1>2, <1>3, <1>5 DEF Tiles

\* A block that enters the list behind q: it points where q pointed.
Insert(m, b, q) == [m EXCEPT ![b].ptr = m[q].ptr, ![q].ptr = b]
\* A block swallows the one that it points to.
Join(m, x) ==
  [m EXCEPT ![x] = [ptr |-> m[m[x].ptr].ptr, size |-> m[x].size + m[m[x].ptr].size],
            ![m[x].ptr] = Poison]

LEMMA InsertOK ==
  ASSUME NEW m \in Mems, Chain(m, {}), NEW b \in Addr, b # Base, m[b].ptr = NIL,
         NEW q \in Ring(m), q < b, m[q].ptr = Base \/ b < m[q].ptr, NEW n, n = Insert(m, b, q)
  PROVE  /\ n \in Mems /\ Lk(n) = Lk(m) \cup {b} /\ Chain(n, {b, q})
         /\ n[b].ptr = m[q].ptr /\ n[q].ptr = b /\ q # b /\ q \in Addr
         /\ \A a \in Addr : n[a].size = m[a].size
         /\ \A a \in Addr : a \notin {b, q} => n[a].ptr = m[a].ptr
<1>1. q \in Addr /\ q # b /\ m[q].ptr \in Ring(m) /\ m[q].ptr \in Addr /\ q \in Nat /\ b \in Nat
  <2>1. q \in Addr /\ m[q].ptr \in Ring(m)
    BY Addresses DEF Ring, Lk, Chain
  <2> QED BY <2>1, Addresses DEF Ring, Lk
<1>2. n \in Mems
  <2>1. [m[b] EXCEPT !.ptr = m[q].ptr] \in [ptr : Addr \cup {NIL}, size : 0 .. MaxAddr]
    BY <1>1, MemFields, ZenonT(60)
  <2>2. [m[q] EXCEPT !.ptr = b] \in [ptr : Addr \cup {NIL}, size : 0 .. MaxAddr]
    BY <1>1, MemFields, ZenonT(60)
  <2> QED BY <1>1, <2>1, <2>2 DEF Mems, Insert
<1>3. n[b].ptr = m[q].ptr /\ n[b].size = m[b].size
  BY <1>1, MemFields DEF Mems, Insert
<1>4. n[q].ptr = b /\ n[q].size = m[q].size
  BY <1>1, MemFields DEF Mems, Insert
<1>5. \A a \in Addr : a \notin {b, q} => n[a] = m[a]
  BY <1>1 DEF Mems, Insert
<1>6. /\ \A a \in Addr : n[a].size = m[a].size
      /\ \A a \in Addr : a \notin {b, q} => n[a].ptr = m[a].ptr
  BY <1>3, <1>4, <1>5
<1>7. Lk(n) = Lk(m) \cup {b}
  BY <1>1, <1>3, <1>4, <1>6, Addresses DEF Lk, Ring
<1>8. Chain(n, {b, q})
  <2>1. n[Base].size = 0
    BY <1>6, Addresses DEF Chain
  <2>2. ASSUME NEW a \in Ring(n)
        PROVE  /\ n[a].ptr \in Ring(n)
               /\ n[a].ptr # Base => a < n[a].ptr /\ (a \notin {b, q} => a + n[a].size < n[a].ptr)
               /\ \A c \in Lk(n) : a < c => n[a].ptr # Base /\ n[a].ptr <= c
    <3>1. a \in Addr /\ a \in Nat /\ \A c \in Lk(n) : c \in Nat
      BY Addresses DEF Ring, Lk
    <3>2. \A c \in Lk(m) : c \in Nat /\ (q < c => m[q].ptr # Base /\ m[q].ptr <= c)
      BY Addresses DEF Chain, Lk
    <3>3. ASSUME NEW c \in Lk(m), q < c PROVE b < c
      <4>1. m[q].ptr # Base /\ m[q].ptr <= c /\ c \in Nat
        BY <3>2, <3>3
      <4>2. b < m[q].ptr /\ m[q].ptr \in Nat
        BY <1>1, <4>1, Addresses
      <4> QED BY <1>1, <4>1, <4>2
    <3>4. CASE a = b
      BY <1>1, <1>3, <1>7, <3>2, <3>4, Addresses DEF Ring
    <3>5. CASE a = q
      BY <1>1, <1>4, <1>7, <3>1, <3>3, <3>5, Addresses DEF Ring
    <3>6. CASE a \notin {b, q}
      <4>1. n[a].ptr = m[a].ptr /\ n[a].size = m[a].size /\ a \in Ring(m)
        BY <1>6, <1>7, <3>1, <3>6 DEF Ring
      <4>2. /\ m[a].ptr \in Ring(m) /\ (m[a].ptr # Base => a < m[a].ptr /\ a + m[a].size < m[a].ptr)
            /\ \A c \in Lk(m) : a < c => m[a].ptr # Base /\ m[a].ptr <= c
        BY <4>1 DEF Chain
      <4>3. a < b => m[a].ptr # Base /\ m[a].ptr <= b
        <5>1. ASSUME a < b PROVE a < q
          <6>1. ASSUME q < a PROVE FALSE
            BY <1>1, <3>1, <3>3, <4>1, <5>1, <6>1, Addresses DEF Ring
          <6> QED BY <1>1, <3>1, <3>6, <6>1
        <5>2. ASSUME a < q PROVE m[a].ptr # Base /\ m[a].ptr <= b
          <6>1. q \in Lk(m)
            BY <1>1, <3>1, <5>2, Addresses DEF Ring
          <6>2. m[a].ptr # Base /\ m[a].ptr <= q /\ m[a].ptr \in Nat
            BY <4>2, <5>2, <6>1, Addresses DEF Ring, Lk
          <6> QED BY <1>1, <6>2
        <5> QED BY <5>1, <5>2
      <4> QED BY <1>7, <3>6, <4>1, <4>2, <4>3 DEF Ring
    <3> QED BY <3>4, <3>5, <3>6
  <2> QED BY <2>1, <2>2 DEF Chain
<1> QED BY <1>1, <1>2, <1>3, <1>4, <1>6, <1>7, <1>8

\* y is the block that x swallows.
Joins(m, T, B, C, x, y) ==
  /\ m \in Mems /\ Chain(m, T) /\ B \in SUBSET Addr /\ Lk(m) \subseteq B
  /\ C \in SUBSET Addr /\ Tiles(m, B, C)
  /\ x \in Lk(m) /\ y \in Lk(m) /\ y = m[x].ptr /\ x + m[x].size = y /\ y \notin T

LEMMA JoinElsewhere ==
  ASSUME NEW m, NEW T, NEW B, NEW C, NEW x, NEW y, Joins(m, T, B, C, x, y),
         NEW a \in Addr, a # x, a # y
  PROVE  Join(m, x)[a] = m[a]
BY SMT DEF Join, Joins, Mems

LEMMA JoinOK ==
  ASSUME NEW m, NEW T, NEW B, NEW C, NEW x, NEW y, Joins(m, T, B, C, x, y)
  PROVE  /\ Join(m, x) \in Mems /\ Lk(Join(m, x)) = Lk(m) \ {y}
         /\ Chain(Join(m, x), T \ {x}) /\ Tiles(Join(m, x), B \ {y}, C)
<1> DEFINE n == Join(m, x)
<1>0. /\ m \in Mems /\ Chain(m, T) /\ B \in SUBSET Addr /\ Lk(m) \subseteq B
      /\ C \in SUBSET Addr /\ Tiles(m, B, C)
      /\ x \in Lk(m) /\ y \in Lk(m) /\ y = m[x].ptr /\ x + m[x].size = y /\ y \notin T
  BY DEF Joins
<1> USE <1>0
<1>1. /\ x \in Addr /\ y \in Addr /\ x \in Nat /\ y \in Nat /\ x # Base /\ y # Base
      /\ m[x].size \in Nat /\ m[y].size \in Nat /\ m[x].size > 0 /\ m[y].size > 0
      /\ y + m[y].size <= MaxAddr /\ MaxAddr \in Nat
  <2>1. x \in B /\ y \in B /\ x \in Addr /\ y \in Addr /\ x # Base /\ y # Base
    BY DEF Lk
  <2>2. \A z \in B : z \in Nat /\ m[z].size \in Nat /\ m[z].size > 0 /\ z + m[z].size <= MaxAddr
    BY TileEnds
  <2>3. /\ x \in Nat /\ m[x].size \in Nat /\ m[x].size > 0
        /\ y \in Nat /\ m[y].size \in Nat /\ m[y].size > 0 /\ y + m[y].size <= MaxAddr
    BY <2>1, <2>2, Zenon
  <2> QED BY <2>1, <2>2, <2>3, Addresses
<1>2. x < y /\ x # y
  BY <1>1
<1>3. /\ n = [m EXCEPT ![x] = [ptr |-> m[y].ptr, size |-> m[x].size + m[y].size], ![y] = Poison]
      /\ m[y].ptr \in Ring(m) /\ m[y].ptr \in Addr
  BY Addresses DEF Join, Chain, Ring, Lk
<1>4. [ptr |-> m[y].ptr, size |-> m[x].size + m[y].size] \in [ptr : Addr \cup {NIL}, size : 0 .. MaxAddr]
  <2>1. m[x].size + m[y].size \in 0 .. MaxAddr
    BY <1>1
  <2> QED BY <1>3, <2>1
<1>5. Poison \in [ptr : Addr \cup {NIL}, size : 0 .. MaxAddr]
  BY <1>1 DEF Poison
<1>6. n \in Mems
  BY <1>1, <1>3, <1>4, <1>5 DEF Mems
<1>7. n[x] = [ptr |-> m[y].ptr, size |-> m[x].size + m[y].size] /\ n[y] = Poison
  BY <1>1, <1>2, <1>3 DEF Mems
<1>8. \A a \in Addr : a \notin {x, y} => n[a] = m[a]
  BY <1>3 DEF Mems
<1>9. n[x].ptr = m[y].ptr /\ n[x].size = m[x].size + m[y].size /\ n[y].ptr = NIL
  BY <1>7 DEF Poison
<1> HIDE DEF n
<1>10. Lk(n) = Lk(m) \ {y}
  <2>1. m[y].ptr # NIL /\ m[x].ptr # NIL
    BY DEF Lk
  <2> QED BY <1>1, <1>2, <1>8, <1>9, <2>1 DEF Lk
<1>11. Chain(n, T \ {x})
  <2>1. n[Base].size = 0
    BY <1>1, <1>8, Addresses DEF Chain
  <2>2. /\ m[y].ptr # Base => y < m[y].ptr /\ y + m[y].size < m[y].ptr
        /\ \A c \in Lk(m) : y < c => m[y].ptr # Base /\ m[y].ptr <= c
    BY DEF Chain, Ring
  <2>3. \A c \in Lk(m) : c \in Nat /\ (x < c => y <= c)
    BY Addresses DEF Chain, Ring, Lk
  <2>4. ASSUME NEW a \in Ring(n)
        PROVE  /\ n[a].ptr \in Ring(n)
               /\ n[a].ptr # Base => a < n[a].ptr /\ (a \notin T \ {x} => a + n[a].size < n[a].ptr)
               /\ \A c \in Lk(n) : a < c => n[a].ptr # Base /\ n[a].ptr <= c
    <3>1. a \in Addr /\ a \in Nat /\ a # y /\ a \in Ring(m)
      BY <1>1, <1>10, Addresses DEF Ring, Lk
    <3>2. CASE a = x
      <4>1. m[y].ptr \in Nat /\ m[y].ptr # y
        BY <1>1, <1>3, <2>2, Addresses
      <4>2. n[a].ptr \in Ring(n)
        BY <1>3, <1>9, <1>10, <3>2, <4>1 DEF Ring
      <4>3. n[a].ptr # Base => a < n[a].ptr /\ a + n[a].size < n[a].ptr
        BY <1>1, <1>2, <1>9, <2>2, <3>2, <4>1
      <4>4. ASSUME NEW c \in Lk(n), a < c PROVE n[a].ptr # Base /\ n[a].ptr <= c
        <5>1. c \in Lk(m) /\ c # y /\ c \in Nat /\ y <= c
          BY <1>10, <2>3, <3>2, <4>4
        <5>2. y < c
          BY <1>1, <5>1
        <5> QED BY <1>9, <2>2, <3>2, <5>1, <5>2
      <4> QED BY <4>2, <4>3, <4>4
    <3>3. CASE a # x
      <4>1. n[a] = m[a]
        BY <1>8, <3>1, <3>3
      <4>2. /\ m[a].ptr \in Ring(m) /\ (m[a].ptr # Base => a < m[a].ptr)
            /\ m[a].ptr # Base => (a \notin T => a + m[a].size < m[a].ptr)
            /\ \A c \in Lk(m) : a < c => m[a].ptr # Base /\ m[a].ptr <= c
        BY <3>1 DEF Chain
      <4>3. m[a].ptr # y
        <5>1. ASSUME m[a].ptr = y PROVE FALSE
          <6>1. a < y /\ (a < x => y <= x)
            BY <1>1, <4>2, <5>1
          <6>2. x < a => a \in Lk(m) /\ y <= a
            BY <1>1, <2>3, <3>1, Addresses DEF Ring
          <6> QED BY <1>1, <1>2, <3>1, <3>3, <6>1, <6>2
        <5> QED BY <5>1
      <4> QED BY <1>10, <3>3, <4>1, <4>2, <4>3 DEF Ring
    <3> QED BY <3>2, <3>3
  <2> QED BY <2>1, <2>4 DEF Chain
<1>12. Tiles(n, B \ {y}, C)
  <2>1. \A b \in B : b \in Addr /\ b \in Nat /\ m[b].size \in Nat
    BY MemFields, Addresses
  <2>2. \A b \in B \ {y} : b # x => n[b] = m[b]
    BY <1>8, <2>1
  <2>3. x \in B /\ y \in B
    OBVIOUS
  <2>4. \A u : u \in Units(x, n[x].size) <=> u \in Units(x, m[x].size) \/ u \in Units(y, m[y].size)
    BY <1>1, <1>9 DEF Units
  <2>5. ASSUME NEW b \in B \ {y} PROVE n[b].size > 0 /\ \A u \in Units(b, n[b].size) : u \in C
    <3>1. CASE b = x
      BY <1>1, <1>9, <2>3, <2>4, <3>1 DEF Tiles
    <3>2. CASE b # x
      BY <2>2, <3>2 DEF Tiles
    <3> QED BY <3>1, <3>2
  <2>6. ASSUME NEW v \in B \ {y}, NEW w \in B \ {y}, v < w PROVE v + n[v].size <= w
    <3>1. CASE v = x
      <4>1. y <= w
        BY <1>1, <2>1, <2>3, <2>6, <3>1 DEF Tiles
      <4>2. y < w
        <5>1. w \in Nat /\ w # y
          BY <2>1
        <5> QED BY <1>1, <4>1, <5>1
      <4>3. y + m[y].size <= w
        BY <2>3, <4>2 DEF Tiles
      <4> QED BY <1>1, <1>9, <2>1, <3>1, <4>3
    <3>2. CASE v # x
      BY <2>2, <2>6, <3>2 DEF Tiles
    <3> QED BY <3>1, <3>2
  <2>7. ASSUME NEW u \in C PROVE \E b \in B \ {y} : u \in Units(b, n[b].size)
    <3>1. PICK b \in B : u \in Units(b, m[b].size)
      BY DEF Tiles
    <3>2. CASE b \in {x, y}
      BY <1>2, <2>3, <2>4, <3>1, <3>2
    <3>3. CASE b \notin {x, y}
      BY <2>2, <3>1, <3>3
    <3> QED BY <3>2, <3>3
  <2> QED BY <2>5, <2>6, <2>7 DEF Tiles
<1> QED BY <1>6, <1>7, <1>8, <1>9, <1>10, <1>11, <1>12 DEF n

\* A block with a gap above it need not be excused.
LEMMA GapSeen ==
  ASSUME NEW m, NEW T, Chain(m, T), NEW x, m[x].ptr # Base => x + m[x].size < m[x].ptr
  PROVE  Chain(m, T \ {x})
BY DEF Chain

LEMMA SameTiles ==
  ASSUME NEW m, NEW n, NEW B, NEW C, Tiles(m, B, C), \A b \in B : n[b].size = m[b].size
  PROVE  Tiles(n, B, C)
BY DEF Tiles

\* free, when it has found the place: the block enters the list behind q, and is
\* joined with the block above and the block below when they touch.
LEMMA LinkIs ==
  ASSUME NEW m \in Mems, NEW b \in Addr, NEW q \in Addr, q # b, m[q].ptr \in Addr,
         m[q].ptr # b, m[q].ptr # q \/ m[q].ptr # b + m[b].size
  PROVE  LET m1 == Insert(m, b, q)
             m2 == IF b + m1[b].size = m1[b].ptr THEN Join(m1, b) ELSE m1
         IN  LinkDown(LinkUp(m, b, q), b, q) = IF q + m2[q].size = b THEN Join(m2, q) ELSE m2
<1> DEFINE up == m[q].ptr
           m1 == Insert(m, b, q)
           m2 == IF b + m1[b].size = m1[b].ptr THEN Join(m1, b) ELSE m1
           u == LinkUp(m, b, q)
<1>1. m = [a \in Addr |-> m[a]] /\ \A a \in Addr : m[a] = [ptr |-> m[a].ptr, size |-> m[a].size]
  BY MemFields DEF Mems
<1>2. m1 = [a \in Addr |-> IF a = q THEN [ptr |-> b, size |-> m[q].size]
                           ELSE IF a = b THEN [ptr |-> up, size |-> m[b].size] ELSE m[a]]
  BY <1>1 DEF Insert
<1>3. m1[b].ptr = up /\ m1[b].size = m[b].size /\ m1[q].size = m[q].size /\ m1[q].ptr = b
  BY <1>2
<1>4. CASE b + m[b].size = up
  <2>0. up # q /\ up # b /\ up \in Addr /\ m1[up] = m[up]
    BY <1>2, <1>4
  <2>1. u = [a \in Addr |-> IF a = up THEN Poison
                            ELSE IF a = b THEN [ptr |-> m[up].ptr, size |-> m[b].size + m[up].size]
                            ELSE m[a]]
    BY <1>1, <1>4, <2>0 DEF LinkUp
  <2>2. m2 = [a \in Addr |-> IF a = up THEN Poison
                             ELSE IF a = b THEN [ptr |-> m[up].ptr, size |-> m[b].size + m[up].size]
                             ELSE IF a = q THEN [ptr |-> b, size |-> m[q].size] ELSE m[a]]
    <3>1. m2 = [m1 EXCEPT ![b] = [ptr |-> m1[up].ptr, size |-> m1[b].size + m1[up].size], ![up] = Poison]
      BY <1>3, <1>4 DEF Join
    <3> HIDE DEF m1, m2, up
    <3> QED BY <1>2, <1>3, <2>0, <3>1
  <2>3. m2[q].size = m[q].size /\ m2[q].ptr = b /\ m2[b] = u[b] /\ u[q] = m[q]
    BY <2>0, <2>1, <2>2
  <2> HIDE DEF m1, m2, u, up
  <2>4. CASE q + m[q].size = b
    <3>1. LinkDown(u, b, q) = [u EXCEPT ![q] = [ptr |-> u[b].ptr, size |-> m[q].size + u[b].size], ![b] = Poison]
      BY <2>1, <2>3, <2>4 DEF LinkDown
    <3>2. Join(m2, q) = [m2 EXCEPT ![q] = [ptr |-> u[b].ptr, size |-> m[q].size + u[b].size], ![b] = Poison]
      BY <2>3 DEF Join
    <3>3. LinkDown(u, b, q) = Join(m2, q)
      BY <2>0, <2>1, <2>2, <3>1, <3>2, ZenonT(60)
    <3> QED BY <2>3, <2>4, <3>3 DEF u, m2, m1
  <2>5. CASE q + m[q].size # b
    <3>1. LinkDown(u, b, q) = [u EXCEPT ![q].ptr = b]
      BY <2>3, <2>5 DEF LinkDown
    <3>2. [u EXCEPT ![q].ptr = b] = [u EXCEPT ![q] = [ptr |-> b, size |-> m[q].size]]
      <4>1. [u[q] EXCEPT !.ptr = b] = [ptr |-> b, size |-> m[q].size]
        BY <1>1, <2>3
      <4>2. [u EXCEPT ![q].ptr = b] = [u EXCEPT ![q] = [u[q] EXCEPT !.ptr = b]]
        BY <2>1
      <4> QED BY <4>1, <4>2
    <3>3. LinkDown(u, b, q) = m2
      BY <2>0, <2>1, <2>2, <3>1, <3>2
    <3> QED BY <2>3, <2>5, <3>3 DEF u, m2, m1
  <2> QED BY <2>4, <2>5
<1>5. CASE b + m[b].size # up
  <2>1. u = [a \in Addr |-> IF a = b THEN [ptr |-> up, size |-> m[b].size] ELSE m[a]]
    BY <1>1, <1>5 DEF LinkUp
  <2>2. m2 = m1
    BY <1>3, <1>5
  <2>3. u[q] = m[q] /\ u[b] = [ptr |-> up, size |-> m[b].size] /\ m1[b] = u[b]
    BY <1>2, <2>1
  <2> HIDE DEF m1, m2, u, up
  <2>4. CASE q + m[q].size = b
    <3>1. LinkDown(u, b, q) = [u EXCEPT ![q] = [ptr |-> u[b].ptr, size |-> m[q].size + u[b].size], ![b] = Poison]
      BY <2>1, <2>3, <2>4 DEF LinkDown
    <3>2. Join(m1, q) = [m1 EXCEPT ![q] = [ptr |-> u[b].ptr, size |-> m[q].size + u[b].size], ![b] = Poison]
      BY <1>3, <2>3 DEF Join
    <3>3. LinkDown(u, b, q) = Join(m1, q)
      BY <1>2, <2>1, <3>1, <3>2, ZenonT(60)
    <3> QED BY <1>3, <2>2, <2>4, <3>3 DEF u, m2, m1
  <2>5. CASE q + m[q].size # b
    <3>1. LinkDown(u, b, q) = [u EXCEPT ![q].ptr = b]
      BY <2>3, <2>5 DEF LinkDown
    <3>2. [u EXCEPT ![q].ptr = b] = [u EXCEPT ![q] = [ptr |-> b, size |-> m[q].size]]
      <4>1. [u[q] EXCEPT !.ptr = b] = [ptr |-> b, size |-> m[q].size]
        BY <1>1, <2>3
      <4>2. [u EXCEPT ![q].ptr = b] = [u EXCEPT ![q] = [u[q] EXCEPT !.ptr = b]]
        BY <2>1
      <4> QED BY <4>1, <4>2
    <3>3. LinkDown(u, b, q) = m1
      BY <1>2, <2>1, <3>1, <3>2
    <3> QED BY <1>3, <2>2, <2>5, <3>3 DEF u, m2, m1
  <2> QED BY <2>4, <2>5
<1> QED BY <1>4, <1>5

LEMMA LinkOK ==
  ASSUME NEW m \in Mems, Chain(m, {}), NEW B \in SUBSET Addr, Lk(m) \subseteq B,
         NEW C \in SUBSET Addr, Tiles(m, B, C), NEW b \in B, m[b].ptr = NIL,
         NEW q \in Ring(m), q < b, m[q].ptr = Base \/ b < m[q].ptr
  PROVE  LET d == LinkDown(LinkUp(m, b, q), b, q)
         IN  /\ d \in Mems /\ Chain(d, {}) /\ Lk(d) \subseteq Lk(m) \cup {b} /\ q \in Ring(d)
             /\ Tiles(d, (B \ (Lk(m) \cup {b})) \cup Lk(d), C)
             /\ \A a \in Addr : a \notin Ring(m) \cup {b} => d[a] = m[a]
<1> DEFINE up == m[q].ptr
           m1 == Insert(m, b, q)
           tight == b + m1[b].size = m1[b].ptr
           m2 == IF tight THEN Join(m1, b) ELSE m1
           d == LinkDown(LinkUp(m, b, q), b, q)
           B2 == IF tight THEN B \ {up} ELSE B
<1>1. /\ b \in Addr /\ b \in Nat /\ m[b].size \in Nat /\ m[b].size > 0
      /\ \A y \in B : b < y => b + m[b].size <= y
  BY TileEnds
<1>2. b # Base /\ b \notin Lk(m)
  BY <1>1 DEF Chain, Lk
<1>3. q \in Addr /\ q \in Nat /\ up \in Ring(m) /\ up \in Addr /\ up \in Nat /\ up # b /\ q # b
  <2>1. q \in Addr /\ up \in Ring(m)
    BY Addresses DEF Ring, Lk, Chain
  <2>2. up \in Addr
    BY <2>1, Addresses DEF Ring, Lk
  <2> QED BY <1>1, <1>2, <2>1, <2>2, Addresses DEF Ring
<1>4. up # b + m[b].size \/ up # q
  BY <1>1, <1>3
<1>5. d = IF q + m2[q].size = b THEN Join(m2, q) ELSE m2
  BY <1>1, <1>3, <1>4, LinkIs
<1>6. /\ m1 \in Mems /\ Lk(m1) = Lk(m) \cup {b} /\ Chain(m1, {b, q})
      /\ m1[b].ptr = up /\ m1[q].ptr = b
      /\ \A a \in Addr : m1[a].size = m[a].size
      /\ \A a \in Addr : a \notin {b, q} => m1[a].ptr = m[a].ptr
  BY <1>1, <1>2, InsertOK, SMTT(40)
<1>7. Tiles(m1, B, C) /\ Lk(m1) \subseteq B
  <2>1. \A a \in B : m1[a].size = m[a].size
    BY <1>6
  <2> HIDE DEF m1
  <2>2. Tiles(m1, B, C)
    BY <2>1, SameTiles
  <2> QED BY <1>6, <2>2
<1>8. \A a \in Addr : a \notin {b, q} => m1[a] = m[a]
  BY <1>1, <1>3 DEF Insert, Mems
<1>9. up # Base => up \in Lk(m) /\ up \in B /\ b < up
  BY <1>3 DEF Ring
<1> HIDE DEF up, m1, d
<1>10. /\ m2 \in Mems /\ Chain(m2, {q}) /\ Tiles(m2, B2, C) /\ Lk(m2) \subseteq B2
       /\ Lk(m2) = (Lk(m) \cup {b}) \ (IF tight THEN {up} ELSE {})
       /\ m2[q] = m1[q]
       /\ \A a \in Addr : a \notin {b, q, up} => m2[a] = m[a]
  <2>1. CASE tight
    <3>1. b + m1[b].size = up /\ up # Base /\ up # q
      BY <1>1, <1>3, <1>4, <1>6, <2>1, Addresses
    <3>2. up \in Lk(m1) /\ b \in Lk(m1) /\ up \notin {b, q}
      BY <1>3, <1>6, <1>9, <3>1
    <3>5. m2 = Join(m1, b) /\ B2 = B \ {up}
      BY <2>1
    <3> HIDE DEF m2, B2, tight
    <3>3. {q} = {b, q} \ {b}
      BY <1>3
    <3>4. /\ m2 \in Mems /\ Lk(m2) = Lk(m1) \ {up} /\ Chain(m2, {q}) /\ Tiles(m2, B2, C)
          /\ \A a \in Addr : a \notin {b, up} => m2[a] = m1[a]
      <4>1. Joins(m1, {b, q}, B, C, b, up)
        BY <1>6, <1>7, <3>1, <3>2 DEF Joins
      <4>2. /\ Join(m1, b) \in Mems /\ Lk(Join(m1, b)) = Lk(m1) \ {up}
            /\ Chain(Join(m1, b), {b, q} \ {b}) /\ Tiles(Join(m1, b), B \ {up}, C)
        BY <4>1, JoinOK
      <4>3. ASSUME NEW a \in Addr, a \notin {b, up} PROVE Join(m1, b)[a] = m1[a]
        BY <4>1, <4>3, JoinElsewhere
      <4> QED BY <3>3, <3>5, <4>2, <4>3
    <3>6. Lk(m2) = (Lk(m) \cup {b}) \ {up} /\ Lk(m2) \subseteq B2
      BY <1>6, <1>7, <3>4, <3>5
    <3>7. m2[q] = m1[q] /\ \A a \in Addr : a \notin {b, q, up} => m2[a] = m[a]
      BY <1>3, <1>8, <3>2, <3>4, <3>5
    <3> QED BY <2>1, <3>4, <3>6, <3>7
  <2>2. CASE ~tight
    <3>1. m1[b].ptr # Base => b + m1[b].size < m1[b].ptr
      <4>1. up # Base => b + m[b].size <= up
        BY <1>1, <1>9
      <4> QED BY <1>1, <1>3, <1>6, <2>2, <4>1
    <3>2. Chain(m1, {b, q} \ {b})
      BY <1>6, <3>1, GapSeen
    <3>3. {b, q} \ {b} = {q}
      BY <1>3
    <3>4. m2 = m1 /\ B2 = B
      BY <2>2
    <3> HIDE DEF m2, B2, tight
    <3> QED BY <1>6, <1>7, <1>8, <2>2, <3>2, <3>3, <3>4
  <2> QED BY <2>1, <2>2
<1>11. b \in Lk(m2) /\ b \in B2 /\ B2 \in SUBSET Addr /\ m2[q].ptr = b /\ m2[q].size = m[q].size
  BY <1>3, <1>6, <1>10
<1>12. (B \ (Lk(m) \cup {b})) \cup Lk(m2) = B2
  <2>1. tight => up \in Lk(m)
    BY <1>1, <1>6, <1>9, Addresses
  <2> QED BY <1>9, <1>10, <2>1
<1> HIDE DEF m2, B2, tight
<1>13. CASE q + m2[q].size = b
  <2>1. q # Base
    BY <1>2, <1>3, <1>11, <1>13, Addresses DEF Chain
  <2>2. q \in Lk(m)
    BY <2>1 DEF Ring
  <2>3. q \in Lk(m2)
    <3>1. q # up \/ ~tight
      BY <1>1, <1>4, <1>6 DEF tight
    <3> QED BY <1>10, <2>2, <3>1
  <2>4. d = Join(m2, q)
    BY <1>5, <1>13
  <2>5. /\ d \in Mems /\ Lk(d) = Lk(m2) \ {b} /\ Chain(d, {}) /\ Tiles(d, B2 \ {b}, C)
        /\ \A a \in Addr : a \notin {q, b} => d[a] = m2[a]
    <3>1. b \notin {q} /\ {} = {q} \ {q}
      BY <1>3
    <3>2. Joins(m2, {q}, B2, C, q, b)
      BY <1>10, <1>11, <1>13, <2>3, <3>1 DEF Joins
    <3>3. /\ Join(m2, q) \in Mems /\ Lk(Join(m2, q)) = Lk(m2) \ {b}
          /\ Chain(Join(m2, q), {q} \ {q}) /\ Tiles(Join(m2, q), B2 \ {b}, C)
      BY <3>2, JoinOK
    <3>4. ASSUME NEW a \in Addr, a \notin {q, b} PROVE Join(m2, q)[a] = m2[a]
      BY <3>2, <3>4, JoinElsewhere
    <3> QED BY <2>4, <3>1, <3>3, <3>4
  <2>7. (B \ (Lk(m) \cup {b})) \cup Lk(d) = B2 \ {b}
    BY <1>12, <2>4, <2>5
  <2>8. \A a \in Addr : a \notin Ring(m) \cup {b} => d[a] = m[a]
    BY <1>3, <1>10, <2>4, <2>5
  <2>9. q \in Ring(d) /\ Lk(d) \subseteq Lk(m) \cup {b}
    BY <1>3, <1>10, <2>3, <2>4, <2>5 DEF Ring
  <2> QED BY <2>4, <2>5, <2>7, <2>8, <2>9 DEF d
<1>14. CASE q + m2[q].size # b
  <2>1. d = m2
    BY <1>5, <1>14
  <2>2. q + m[q].size <= b
    <3>1. CASE q = Base
      BY <1>1, <3>1, Addresses DEF Chain
    <3>2. CASE q # Base
      <4>1. q \in B
        BY <3>2 DEF Ring
      <4> QED BY <4>1, TileEnds
    <3> QED BY <3>1, <3>2
  <2>3. q + m2[q].size < m2[q].ptr
    <3>1. m[q].size \in Nat
      BY <1>3, MemFields
    <3> QED BY <1>1, <1>3, <1>11, <1>14, <2>2, <3>1
  <2>4. Chain(m2, {q} \ {q})
    BY <1>10, <2>3, GapSeen
  <2>5. {q} \ {q} = {}
    OBVIOUS
  <2>6. q \in Ring(m2)
    <3>1. q # up \/ ~tight
      BY <1>1, <1>4, <1>6 DEF tight
    <3> QED BY <1>10, <3>1 DEF Ring
  <2>7. \A a \in Addr : a \notin Ring(m) \cup {b} => m2[a] = m[a]
    BY <1>3, <1>10
  <2> QED BY <1>10, <1>12, <2>1, <2>4, <2>5, <2>6, <2>7 DEF d
<1> QED BY <1>13, <1>14

\* Outside S the memory is what it was.
SameBut(m, n, S) == \A a \in Addr : a \notin S => n[a].ptr = m[a].ptr /\ n[a].size = m[a].size
SameSizes(m, n) == \A a \in Addr : n[a].size = m[a].size

\* malloc takes the block that r points to out of the list.
Unlinked(m, r, x) == [[m EXCEPT ![r].ptr = m[x].ptr] EXCEPT ![x].ptr = NIL]

LEMMA UnlinkOK ==
  ASSUME NEW m \in Mems, Chain(m, {}), NEW r \in Ring(m), NEW x \in Lk(m), x = m[r].ptr,
         NEW n, n = Unlinked(m, r, x)
  PROVE  /\ n \in Mems /\ Lk(n) = Lk(m) \ {x} /\ Chain(n, {}) /\ r \in Ring(n) /\ r # x
         /\ SameSizes(m, n) /\ SameBut(m, n, {r, x}) /\ n[x].ptr = NIL
<1>1. /\ r \in Addr /\ x \in Addr /\ r \in Nat /\ x \in Nat /\ x # Base /\ r < x /\ r # x
      /\ m[x].ptr \in Ring(m) /\ m[x].ptr \in Addr
  <2>1. r \in Addr /\ x \in Addr /\ x # Base /\ x \in Ring(m)
    BY Addresses DEF Ring, Lk
  <2>2. r < x /\ m[x].ptr \in Ring(m)
    BY <2>1 DEF Chain
  <2>3. m[x].ptr \in Addr
    BY <2>2, Addresses DEF Ring, Lk
  <2> QED BY <2>1, <2>2, <2>3, Addresses
<1>2. /\ m[r].size \in Nat /\ m[x].size \in Nat
      /\ [m[r] EXCEPT !.ptr = m[x].ptr] \in [ptr : Addr \cup {NIL}, size : 0 .. MaxAddr]
      /\ [m[x] EXCEPT !.ptr = NIL] \in [ptr : Addr \cup {NIL}, size : 0 .. MaxAddr]
  BY <1>1, MemFields, ZenonT(60)
<1>3. n \in Mems
  BY <1>1, <1>2 DEF Mems, Unlinked
<1>4. n[r].ptr = m[x].ptr /\ n[r].size = m[r].size
  BY <1>1, MemFields DEF Mems, Unlinked
<1>5. n[x].ptr = NIL /\ n[x].size = m[x].size
  BY <1>1, MemFields DEF Mems, Unlinked
<1>6. \A a \in Addr : a \notin {r, x} => n[a] = m[a]
  BY <1>1 DEF Mems, Unlinked
<1>7. Lk(n) = Lk(m) \ {x}
  BY <1>1, <1>4, <1>5, <1>6, Addresses, ZenonT(60) DEF Lk, Ring
<1>8. /\ \A a \in Addr : n[a].size = m[a].size
      /\ \A a \in Addr : a \notin {r, x} => n[a].ptr = m[a].ptr
  BY <1>4, <1>5, <1>6
<1>9. r \in Ring(n)
  BY <1>1, <1>7 DEF Ring
<1>10. Chain(n, {})
  <2>1. n[Base].size = 0
    BY <1>8, Addresses DEF Chain
  <2>2. /\ m[x].ptr # Base => x < m[x].ptr /\ x + m[x].size < m[x].ptr
        /\ \A c \in Lk(m) : c \in Nat /\ (x < c => m[x].ptr # Base /\ m[x].ptr <= c)
    BY Addresses DEF Chain, Ring, Lk
  <2>3. r + m[r].size < x /\ \A c \in Lk(m) : c \in Nat /\ (r < c => x <= c)
    BY <1>1, Addresses DEF Chain, Lk
  <2>4. ASSUME NEW a \in Ring(n)
        PROVE  /\ n[a].ptr \in Ring(n)
               /\ n[a].ptr # Base => a < n[a].ptr /\ a + n[a].size < n[a].ptr
               /\ \A c \in Lk(n) : a < c => n[a].ptr # Base /\ n[a].ptr <= c
    <3>1. a \in Addr /\ a \in Nat /\ a # x /\ a \in Ring(m)
      BY <1>1, <1>7, Addresses DEF Ring, Lk
    <3>2. CASE a = r
      <4>1. m[x].ptr # x /\ m[x].ptr \in Nat
        <5>1. m[x].ptr \in Nat
          BY <1>1, Addresses
        <5> QED BY <1>1, <2>2, <5>1
      <4>2. n[a].ptr \in Ring(n)
        BY <1>1, <1>4, <1>7, <3>2, <4>1 DEF Ring
      <4>3. n[a].ptr # Base => a < n[a].ptr /\ a + n[a].size < n[a].ptr
        BY <1>1, <1>2, <1>4, <2>2, <2>3, <3>2, <4>1
      <4>4. ASSUME NEW c \in Lk(n), a < c PROVE n[a].ptr # Base /\ n[a].ptr <= c
        <5>1. c \in Lk(m) /\ c # x /\ c \in Nat /\ x <= c
          BY <1>7, <2>3, <3>2, <4>4
        <5>2. x < c
          BY <1>1, <5>1
        <5> QED BY <1>4, <2>2, <3>2, <5>1, <5>2
      <4> QED BY <4>2, <4>3, <4>4
    <3>3. CASE a # r
      <4>1. n[a] = m[a]
        BY <1>6, <3>1, <3>3
      <4>2. /\ m[a].ptr \in Ring(m) /\ (m[a].ptr # Base => a < m[a].ptr /\ a + m[a].size < m[a].ptr)
            /\ \A c \in Lk(m) : a < c => m[a].ptr # Base /\ m[a].ptr <= c
        BY <3>1 DEF Chain
      <4>3. m[a].ptr # x
        <5>1. ASSUME m[a].ptr = x PROVE FALSE
          <6>1. a < x /\ (a < r => x <= r)
            BY <1>1, <3>1, <4>2, <5>1, Addresses DEF Ring
          <6>2. r < a => a \in Lk(m) /\ x <= a
            BY <1>1, <2>3, <3>1, Addresses DEF Ring
          <6> QED BY <1>1, <3>1, <3>3, <6>1, <6>2
        <5> QED BY <5>1
      <4> QED BY <1>7, <4>1, <4>2, <4>3 DEF Ring
    <3> QED BY <3>2, <3>3
  <2> QED BY <2>1, <2>4 DEF Chain
<1> QED BY <1>1, <1>3, <1>5, <1>7, <1>8, <1>9, <1>10 DEF SameSizes, SameBut

\* The list and the blocks of B tile C.
Heap(m, B, C) ==
  /\ m \in Mems /\ Chain(m, {}) /\ B \in SUBSET Addr /\ Lk(m) \subseteq B
  /\ C \in SUBSET Addr /\ Tiles(m, B, C)

\* malloc cuts j units off the tail of x: e is the new block.
CutOff(m, x, j, e) == [Split(m, x, j) EXCEPT ![e].ptr = NIL]

LEMMA SplitOK ==
  ASSUME NEW m, NEW B, NEW C, Heap(m, B, C), NEW x \in Lk(m), NEW j \in Nat, j > 0, j < m[x].size,
         NEW e, e = x + m[x].size - j, NEW n, n = CutOff(m, x, j, e)
  PROVE  /\ n \in Mems /\ Lk(n) = Lk(m) /\ Chain(n, {}) /\ Tiles(n, B \cup {e}, C)
         /\ e \in Addr /\ e # Base /\ e \notin B /\ n[e].ptr = NIL /\ n[e].size = j
         /\ SameBut(m, n, {x, e})
<1>0. /\ m \in Mems /\ Chain(m, {}) /\ B \in SUBSET Addr /\ Lk(m) \subseteq B
      /\ C \in SUBSET Addr /\ Tiles(m, B, C)
  BY DEF Heap
<1> USE <1>0
<1>1. /\ x \in B /\ x \in Addr /\ x \in Nat /\ m[x].size \in Nat /\ x + m[x].size <= MaxAddr
      /\ MaxAddr \in Nat /\ \A y \in B : y \in Nat /\ (x < y => x + m[x].size <= y)
  <2>1. x \in B /\ x \in Addr /\ \A y \in B : y \in Nat
    BY Addresses DEF Lk
  <2> QED BY <2>1, TileEnds, Addresses
<1>2. e \in Nat /\ x < e /\ e < x + m[x].size /\ e \in Addr /\ e # Base /\ e # x
  BY <1>1 DEF Addr, Base
<1>3. e \notin B
  BY <1>1, <1>2
<1>4. m[x].size - j \in 0 .. MaxAddr /\ m[x].size - j \in Nat /\ m[x].size - j > 0 /\ j \in 0 .. MaxAddr
  BY <1>1
<1>5. n = [m EXCEPT ![x].size = m[x].size - j, ![e] = [ptr |-> NIL, size |-> j]]
  <2>1. n = [[m EXCEPT ![x].size = m[x].size - j, ![e] = [ptr |-> NIL, size |-> j]] EXCEPT ![e].ptr = NIL]
    BY DEF Split, CutOff
  <2> QED BY <1>1, <1>2, <2>1 DEF Mems
<1>6. [m[x] EXCEPT !.size = m[x].size - j] \in [ptr : Addr \cup {NIL}, size : 0 .. MaxAddr]
  BY <1>1, <1>4, MemFields
<1>7. n \in Mems
  <2>1. [ptr |-> NIL, size |-> j] \in [ptr : Addr \cup {NIL}, size : 0 .. MaxAddr]
    BY <1>4
  <2>2. [m EXCEPT ![x].size = m[x].size - j] \in Mems
    BY <1>1, <1>6 DEF Mems
  <2> DEFINE h == [m EXCEPT ![x].size = m[x].size - j]
  <2>3. n = [h EXCEPT ![e] = [ptr |-> NIL, size |-> j]]
    BY <1>5
  <2> HIDE DEF h
  <2> QED BY <1>2, <2>1, <2>2, <2>3 DEF Mems, h
<1>8. n[x].size = m[x].size - j /\ n[x].ptr = m[x].ptr
  BY <1>1, <1>2, <1>5, MemFields DEF Mems
<1>9. n[e].ptr = NIL /\ n[e].size = j
  BY <1>2, <1>5 DEF Mems
<1>10. \A a \in Addr : a \notin {x, e} => n[a] = m[a]
  BY <1>5 DEF Mems
<1>11. Lk(n) = Lk(m)
  <2>1. e \notin Lk(m)
    BY <1>3
  <2> QED BY <1>1, <1>2, <1>8, <1>9, <1>10, <2>1 DEF Lk
<1>12. Chain(n, {})
  <2>1. n[Base].size = 0
    <3>1. Base \notin {x, e}
      BY <1>2 DEF Lk
    <3> QED BY <1>10, <3>1, Addresses DEF Chain
  <2>2. ASSUME NEW a \in Ring(n)
        PROVE  /\ n[a].ptr \in Ring(n)
               /\ n[a].ptr # Base => a < n[a].ptr /\ a + n[a].size < n[a].ptr
               /\ \A c \in Lk(n) : a < c => n[a].ptr # Base /\ n[a].ptr <= c
    <3>1. a \in Ring(m) /\ a \in Addr /\ a # e /\ a \in Nat
      BY <1>2, <1>3, <1>11, Addresses DEF Ring, Lk
    <3>2. /\ m[a].ptr \in Ring(m) /\ (m[a].ptr # Base => a < m[a].ptr /\ a + m[a].size < m[a].ptr)
          /\ \A c \in Lk(m) : a < c => m[a].ptr # Base /\ m[a].ptr <= c
      BY <3>1 DEF Chain
    <3>3. n[a].ptr = m[a].ptr /\ n[a].size <= m[a].size /\ n[a].size \in Nat /\ m[a].size \in Nat
      <4>1. CASE a = x
        BY <1>1, <1>4, <1>8, <4>1
      <4>2. CASE a # x
        <5>1. n[a] = m[a]
          BY <1>10, <3>1, <4>2
        <5>2. m[a].size \in Nat
          BY <3>1, MemFields
        <5>3. n[a].size = m[a].size /\ n[a].ptr = m[a].ptr
          BY <5>1, Zenon
        <5>4. m[a].size <= m[a].size
          BY <5>2
        <5> QED BY <5>2, <5>3, <5>4, Zenon
      <4> QED BY <4>1, <4>2
    <3>4. m[a].ptr \in Nat
      BY <3>2, Addresses DEF Ring, Lk
    <3>5. n[a].ptr \in Ring(n)
      BY <1>11, <3>2, <3>3 DEF Ring
    <3>6. n[a].ptr # Base => a < n[a].ptr /\ a + n[a].size < n[a].ptr
      BY <3>1, <3>2, <3>3, <3>4
    <3> QED BY <1>11, <3>2, <3>3, <3>5, <3>6
  <2> QED BY <2>1, <2>2 DEF Chain
<1>13. Tiles(n, B \cup {e}, C)
  <2>1. \A b \in B : b \in Addr /\ b \in Nat /\ m[b].size \in Nat
    BY MemFields, Addresses
  <2>2. \A b \in B : b # x => n[b] = m[b]
    BY <1>3, <1>10, <2>1
  <2>3. \A u : u \in Units(x, m[x].size) <=> u \in Units(x, n[x].size) \/ u \in Units(e, n[e].size)
    BY <1>1, <1>2, <1>8, <1>9 DEF Units
  <2>4. ASSUME NEW b \in B \cup {e} PROVE n[b].size > 0 /\ \A u \in Units(b, n[b].size) : u \in C
    <3>1. CASE b \in {x, e}
      <4>1. n[b].size > 0
        BY <1>4, <1>8, <1>9, <3>1
      <4> QED BY <1>1, <2>3, <3>1, <4>1 DEF Tiles
    <3>2. CASE b \notin {x, e}
      BY <2>2, <3>2 DEF Tiles
    <3> QED BY <3>1, <3>2
  <2>5. ASSUME NEW v \in B \cup {e}, NEW w \in B \cup {e}, v < w PROVE v + n[v].size <= w
    <3>1. CASE v = e
      <4>1. w \in B /\ x < w /\ w \in Nat
        BY <1>1, <1>2, <2>1, <2>5, <3>1
      <4>2. x + m[x].size <= w
        BY <1>1, <4>1
      <4> QED BY <1>1, <1>9, <3>1, <4>1, <4>2
    <3>2. CASE v = x
      <4>1. CASE w = e
        BY <1>1, <1>8, <3>2, <4>1
      <4>2. CASE w # e
        <5>1. w \in Nat /\ x + m[x].size <= w
          BY <1>1, <2>1, <2>5, <3>2, <4>2
        <5> QED BY <1>1, <1>8, <3>2, <5>1
      <4> QED BY <4>1, <4>2
    <3>3. CASE v \notin {x, e}
      <4>1. v \in B /\ n[v].size = m[v].size /\ v \in Nat /\ m[v].size \in Nat
        BY <2>1, <2>2, <3>3
      <4>2. CASE w = e
        <5>1. v < x
          BY <1>1, <1>2, <2>5, <3>3, <4>1, <4>2
        <5>2. v + m[v].size <= x
          BY <1>1, <4>1, <5>1 DEF Tiles
        <5> QED BY <1>1, <1>2, <4>1, <4>2, <5>2
      <4>3. CASE w # e
        BY <2>5, <4>1, <4>3 DEF Tiles
      <4> QED BY <4>2, <4>3
    <3> QED BY <3>1, <3>2, <3>3
  <2>6. ASSUME NEW u \in C PROVE \E b \in B \cup {e} : u \in Units(b, n[b].size)
    <3>1. PICK b \in B : u \in Units(b, m[b].size)
      BY DEF Tiles
    <3>2. CASE b = x
      BY <1>1, <2>3, <3>1, <3>2
    <3>3. CASE b # x
      BY <2>2, <3>1, <3>3
    <3> QED BY <3>2, <3>3
  <2> QED BY <2>4, <2>5, <2>6 DEF Tiles
<1> QED BY <1>2, <1>3, <1>7, <1>9, <1>10, <1>11, <1>12, <1>13 DEF SameBut

\* morecore makes a block of j units above all others.
Above(e, C) == \A u \in C : u < e
NewBlock(m, e, j) == [m EXCEPT ![e] = [ptr |-> NIL, size |-> j]]

Grows(m, B, C, e, j) ==
  Heap(m, B, C) /\ e \in Addr /\ e # Base /\ Above(e, C) /\ j \in Nat /\ j > 0 /\ e + j <= MaxAddr

LEMMA NewTileOK ==
  ASSUME NEW m, NEW B, NEW C, NEW e, NEW j, Grows(m, B, C, e, j),
         NEW n, n = NewBlock(m, e, j)
  PROVE  /\ n \in Mems /\ Lk(n) = Lk(m) /\ Chain(n, {}) /\ Tiles(n, B \cup {e}, C \cup Units(e, j))
         /\ e \notin B /\ n[e].ptr = NIL /\ SameBut(m, n, {e})
<1>0. /\ m \in Mems /\ Chain(m, {}) /\ B \in SUBSET Addr /\ Lk(m) \subseteq B
      /\ C \in SUBSET Addr /\ Tiles(m, B, C)
      /\ e \in Addr /\ e # Base /\ Above(e, C) /\ j \in Nat /\ j > 0 /\ e + j <= MaxAddr
  BY DEF Heap, Grows
<1> USE <1>0
<1>1. \A y \in B : y \in Addr /\ y \in Nat /\ m[y].size \in Nat /\ m[y].size > 0 /\ y + m[y].size - 1 \in C /\ y \in C
  BY TileEnds
<1>2. e \in Nat /\ MaxAddr \in Nat /\ \A y \in B : y + m[y].size <= e /\ y < e
  BY <1>1, Addresses DEF Above
<1>3. e \notin B
  BY <1>2
<1>4. n \in Mems
  <2>1. [ptr |-> NIL, size |-> j] \in [ptr : Addr \cup {NIL}, size : 0 .. MaxAddr]
    BY <1>2
  <2> QED BY <2>1 DEF Mems, NewBlock
<1>5. n[e].ptr = NIL /\ n[e].size = j /\ \A a \in Addr : a # e => n[a] = m[a]
  BY DEF Mems, NewBlock
<1>6. Lk(n) = Lk(m)
  BY <1>3, <1>5 DEF Lk
<1>7. Chain(n, {})
  <2>1. \A a \in Ring(m) : n[a] = m[a]
    BY <1>3, <1>5, Addresses DEF Ring, Lk
  <2> QED BY <1>6, <2>1 DEF Chain, Ring
<1>8. Tiles(n, B \cup {e}, C \cup Units(e, j))
  <2>1. \A b \in B : n[b] = m[b]
    BY <1>1, <1>3, <1>5
  <2>2. ASSUME NEW b \in B \cup {e} PROVE n[b].size > 0 /\ \A u \in Units(b, n[b].size) : u \in C \cup Units(e, j)
    BY <1>5, <2>1 DEF Tiles
  <2>3. ASSUME NEW v \in B \cup {e}, NEW w \in B \cup {e}, v < w PROVE v + n[v].size <= w
    BY <1>1, <1>2, <1>5, <2>1, <2>3 DEF Tiles
  <2>4. ASSUME NEW u \in C \cup Units(e, j) PROVE \E b \in B \cup {e} : u \in Units(b, n[b].size)
    BY <1>5, <2>1 DEF Tiles
  <2> QED BY <2>2, <2>3, <2>4 DEF Tiles
<1> QED BY <1>3, <1>4, <1>5, <1>6, <1>7, <1>8 DEF SameBut

-----------------------------------------------------------------------------
(* The steps.                                                              *)

LEMMA BreakFacts ==
  ASSUME MInv
  PROVE  /\ Break \in HeapStart .. MaxAddr /\ Break \in Nat /\ core \in SUBSET Addr
         /\ \A u \in core : u \in Nat /\ u < Break
<1>1. Break \in HeapStart .. MaxAddr /\ Break \in Nat
  BY MallocAssumption DEF MInv, MTypes, Break, HeapStart
<1>2. core \subseteq HeapStart .. (Break - 1)
  BY DEF MInv, Arena
<1>3. HeapStart .. (Break - 1) \subseteq Addr
  BY <1>1, Addresses DEF Addr
<1> QED BY <1>1, <1>2, <1>3, Addresses

LEMMA ListFacts ==
  ASSUME MInv, freep # NIL
  PROVE  /\ mem \in Mems /\ Chain(mem, {}) /\ freep \in Ring(mem) /\ freep \in Addr
         /\ Lk(mem) \cup Held \in SUBSET Addr /\ Tiles(mem, Lk(mem) \cup Held, core)
         /\ HeldOK /\ ScanOK /\ Lk(mem) \cap Held = {}
<1>1. /\ mem \in Mems /\ Chain(mem, {}) /\ freep \in Ring(mem)
      /\ Tiles(mem, Lk(mem) \cup Held, core) /\ HeldOK /\ ScanOK
  BY DEF MInv, MTypes, ListInv
<1>2. Lk(mem) \cup Held \in SUBSET Addr /\ Lk(mem) \cap Held = {} /\ freep \in Addr
  BY <1>1, Addresses DEF HeldOK, Lk, Ring
<1> QED BY <1>1, <1>2

\* A scan has passed nothing when it begins behind f.
LEMMA NothingPassed ==
  ASSUME NEW m \in Mems, Chain(m, {}), NEW f \in Ring(m), NEW b \in Ring(m)
  PROVE  ~(IF m[f].ptr > f THEN f < b /\ b < m[f].ptr ELSE f < b \/ b < m[f].ptr)
<1>1. f \in Nat /\ b \in Nat /\ m[f].ptr \in Ring(m) /\ m[f].ptr \in Nat
  <2>1. m[f].ptr \in Ring(m)
    BY DEF Chain
  <2> QED BY <2>1, Addresses DEF Ring, Lk
<1>2. m[f].ptr # Base => f < m[f].ptr
  BY DEF Chain
<1>3. f < b => m[f].ptr # Base /\ m[f].ptr <= b
  BY <1>1, Addresses DEF Chain, Ring
<1> QED BY <1>1, <1>2, <1>3, Addresses

LEMMA InitOK == Init => MInv
<1> SUFFICES ASSUME Init PROVE MInv
  OBVIOUS
<1>1. DOMAIN live = {} /\ mem = [a \in Addr |-> Poison]
  BY DEF Init
<1>2. mem \in Mems
  BY <1>1, Addresses DEF Mems, Poison
<1> QED BY <1>1, <1>2 DEF Init, NoCall, MInv, MTypes, Arena, Unused, ListInv

LEMMA TakeOK ==
  ASSUME MInv, NEW n \in 1 .. MaxUnits, sbrk_take(n)
  PROVE  MInv'
<1>1. /\ pc = "idle" /\ raw = {} /\ Break + n <= MaxAddr /\ raw' = Units(Break, n) /\ brk' = Break + n
      /\ mem' = mem /\ freep' = freep /\ pc' = pc /\ p' = p /\ prevp' = prevp /\ bp' = bp /\ nunits' = nunits
      /\ inCore' = inCore /\ live' = live /\ core' = core
  BY DEF sbrk_take, brk_ok, locals
<1>2. n \in Nat /\ n > 0 /\ Break \in Nat /\ Break >= 2 /\ MaxAddr \in Nat
  BY BreakFacts, Addresses, MallocAssumption
<1>3. brk' \in HeapStart .. MaxAddr /\ Break' = Break + n
  <2>1. brk' \in HeapStart .. MaxAddr
    BY <1>1, <1>2, Addresses
  <2> QED BY <1>1, <2>1, Addresses, MallocAssumption DEF Break
<1>4. Arena'
  <2>1. core' \subseteq HeapStart .. (Break' - 1)
    BY <1>1, <1>2, <1>3, Addresses DEF MInv, Arena
  <2>2. raw' \subseteq HeapStart .. (Break' - 1) /\ core' \cap raw' = {}
    BY <1>1, <1>2, <1>3, Addresses, BreakFacts DEF Units
  <2>3. raw' # {} => \E lo, hi \in Addr : lo <= hi /\ raw' = lo .. hi
    <3>1. Break \in Addr /\ Break + n - 1 \in Addr /\ Break <= Break + n - 1
      BY <1>1, <1>2 DEF Addr
    <3> QED BY <1>1, <3>1 DEF Units
  <2> QED BY <2>1, <2>2, <2>3 DEF Arena
<1>5. MTypes' /\ Unused'
  BY <1>1, <1>3 DEF MInv, MTypes, Unused
<1>6. ListInv'
  BY <1>1 DEF MInv, ListInv, HeldOK, ScanOK, Held, Passed
<1> QED BY <1>4, <1>5, <1>6 DEF MInv

LEMMA GiveOK ==
  ASSUME MInv, sbrk_give
  PROVE  MInv'
<1>1. /\ pc = "idle" /\ raw # {} /\ brk = Max(raw) + 1 /\ brk' = Min(raw) /\ raw' = {}
      /\ mem' = mem /\ freep' = freep /\ pc' = pc /\ p' = p /\ prevp' = prevp /\ bp' = bp /\ nunits' = nunits
      /\ inCore' = inCore /\ live' = live /\ core' = core
  BY DEF sbrk_give, locals
<1>2. PICK lo \in Addr, hi \in Addr : lo <= hi /\ raw = lo .. hi
  BY <1>1 DEF MInv, Arena
<1>3. lo \in Nat /\ hi \in Nat /\ lo \in raw /\ hi \in raw
  BY <1>2, Addresses
<1>4. Max(raw) = hi
  <2>1. \A y \in raw : hi >= y
    BY <1>2, <1>3
  <2>2. Max(raw) \in raw /\ \A y \in raw : Max(raw) >= y
    BY <1>3, <2>1 DEF Max
  <2> QED BY <1>2, <1>3, <2>1, <2>2
<1>5. Min(raw) = lo
  <2>1. \A y \in raw : lo <= y
    BY <1>2, <1>3
  <2>2. Min(raw) \in raw /\ \A y \in raw : Min(raw) <= y
    BY <1>3, <2>1 DEF Min
  <2> QED BY <1>2, <1>3, <2>1, <2>2
<1>6. Break = hi + 1 /\ raw \subseteq HeapStart .. (Break - 1)
  BY <1>1, <1>3, <1>4, MallocAssumption DEF Break, MInv, Arena
<1>7. lo \in HeapStart .. MaxAddr /\ brk' = lo /\ Break' = lo
  <2>1. lo \in HeapStart .. MaxAddr
    BY <1>2, <1>3, <1>6, Addresses
  <2> QED BY <1>1, <1>3, <1>5, <2>1, MallocAssumption DEF Break
<1>8. Arena'
  <2>1. ASSUME NEW u \in core PROVE u \in HeapStart .. (lo - 1)
    <3>1. u \in HeapStart .. hi /\ u \notin lo .. hi
      BY <1>2, <1>3, <1>6, Addresses DEF MInv, Arena
    <3> QED BY <1>3, <3>1, Addresses
  <2> QED BY <1>1, <1>7, <2>1 DEF Arena
<1>9. MTypes' /\ Unused'
  BY <1>1, <1>7 DEF MInv, MTypes, Unused
<1>10. ListInv'
  BY <1>1 DEF MInv, ListInv, HeldOK, ScanOK, Held, Passed
<1> QED BY <1>8, <1>9, <1>10 DEF MInv

LEMMA MallocOK ==
  ASSUME MInv, NEW n \in 1 .. MaxUnits, malloc(n)
  PROVE  MInv'
<1>1. /\ pc = "idle" /\ nunits' = n /\ pc' = "scan"
      /\ brk' = brk /\ bp' = bp /\ inCore' = inCore /\ live' = live /\ core' = core /\ raw' = raw
  BY DEF malloc
<1>2. n \in Nat /\ n > 0
  BY MallocAssumption
<1>3. Break' = Break /\ Held' = DOMAIN live /\ Held = DOMAIN live
  BY <1>1 DEF Break, Held
<1>4. Arena'
  BY <1>1, <1>3 DEF MInv, Arena
<1>5. CASE freep = NIL
  <2>1. /\ mem' = [mem EXCEPT ![Base] = [ptr |-> Base, size |-> 0]]
        /\ freep' = Base /\ prevp' = Base /\ p' = Base
    BY <1>5 DEF malloc
  <2>2. DOMAIN live = {} /\ core = {} /\ mem = [a \in Addr |-> Poison]
    BY <1>5 DEF MInv, Unused
  <2>3. mem' = [a \in Addr |-> IF a = Base THEN [ptr |-> Base, size |-> 0] ELSE Poison]
    BY <2>1, <2>2
  <2>4. mem' \in Mems
    BY <2>3, Addresses DEF Mems, Poison
  <2>5. /\ mem'[Base].ptr = Base /\ mem'[Base].size = 0
        /\ \A a \in Addr : a # Base => mem'[a].ptr = NIL
    BY <2>3, Addresses DEF Poison
  <2>6. Lk(mem') = {} /\ Ring(mem') = {Base}
    BY <2>5 DEF Lk, Ring
  <2>7. MTypes' /\ Unused'
    BY <1>1, <1>2, <2>1, <2>4, Addresses DEF MInv, MTypes, Unused
  <2>8. Chain(mem', {}) /\ Tiles(mem', {}, {})
    BY <2>5, <2>6, Addresses DEF Chain, Tiles
  <2>9. HeldOK'
    BY <1>1, <1>3, <2>2 DEF HeldOK
  <2>10. ScanOK'
    <3>1. \A b \in {Base} : ~Passed(b)'
      BY <2>1, Addresses DEF Passed
    <3> QED BY <2>1, <2>5, <2>6, <3>1 DEF ScanOK
  <2>11. ListInv'
    <3>1. Lk(mem') \cup Held' = {} /\ core' = {}
      BY <1>1, <1>3, <2>2, <2>6
    <3> QED BY <2>1, <2>6, <2>8, <2>9, <2>10, <3>1 DEF ListInv
  <2> QED BY <1>4, <2>7, <2>11 DEF MInv
<1>6. CASE freep # NIL
  <2>1. mem' = mem /\ freep' = freep /\ prevp' = freep /\ p' = mem[freep].ptr
    BY <1>6 DEF malloc
  <2>2. MTypes' /\ Unused'
    BY <1>1, <1>2, <1>6, <2>1 DEF MInv, MTypes, Unused
  <2>3. HeldOK'
    BY <1>1, <1>3, <1>6, <2>1, ListFacts DEF HeldOK
  <2>4. ScanOK'
    <3>1. ASSUME NEW b \in Ring(mem) PROVE ~Passed(b)'
      BY <1>6, <2>1, ListFacts, NothingPassed DEF Passed
    <3> QED BY <1>6, <2>1, <3>1, ListFacts DEF ScanOK
  <2>5. ListInv'
    BY <1>1, <1>3, <1>6, <2>1, <2>3, <2>4 DEF MInv, ListInv
  <2> QED BY <1>4, <2>2, <2>5 DEF MInv
<1> QED BY <1>5, <1>6

\* The block that a scan looks at.
LEMMA ScanFacts ==
  ASSUME MInv, pc = "scan"
  PROVE  /\ freep # NIL /\ nunits \in Nat /\ nunits > 0
         /\ prevp \in Ring(mem) /\ p = mem[prevp].ptr /\ p \in Ring(mem) /\ p \in Addr
         /\ Fits(p) => p \in Lk(mem)
         /\ Held = DOMAIN live
<1>1. freep # NIL /\ nunits \in Nat /\ nunits > 0
  BY DEF MInv, MTypes, Unused
<1>2. prevp \in Ring(mem) /\ p = mem[prevp].ptr
  BY <1>1, ListFacts DEF ScanOK
<1>3. p \in Ring(mem)
  BY <1>1, <1>2, ListFacts DEF Chain
<1>4. Fits(p) => p # Base
  BY <1>1, ListFacts, Addresses DEF Chain, Fits
<1> QED BY <1>1, <1>2, <1>3, <1>4, Addresses DEF Ring, Lk, Held

LEMMA ExactOK ==
  ASSUME MInv, MallocExact
  PROVE  MInv' /\ live' # live
<1>1. /\ pc = "scan" /\ Fits(p) /\ mem[p].size = nunits /\ freep' = prevp /\ pc' = "idle"
      /\ mem' = Unlinked(mem, prevp, p)
      /\ live' = [b \in DOMAIN live \cup {p} |-> IF b = p THEN nunits ELSE live[b]]
      /\ nunits' = 0 /\ inCore' = FALSE /\ brk' = brk /\ core' = core /\ raw' = raw
  BY DEF MallocExact, Hand, Return, Unlinked
<1>2. /\ freep # NIL /\ prevp \in Ring(mem) /\ p = mem[prevp].ptr /\ p \in Lk(mem) /\ p \in Addr /\ p # Base
      /\ Held = DOMAIN live
  BY <1>1, ScanFacts DEF Lk
<1>3. /\ mem' \in Mems /\ Lk(mem') = Lk(mem) \ {p} /\ Chain(mem', {}) /\ prevp \in Ring(mem') /\ prevp # p
      /\ SameSizes(mem, mem') /\ SameBut(mem, mem', {prevp, p}) /\ mem'[p].ptr = NIL
  <2>1. mem \in Mems /\ Chain(mem, {})
    BY <1>2, ListFacts
  <2> QED BY <1>1, <1>2, <2>1, UnlinkOK
<1>4. DOMAIN live' = DOMAIN live \cup {p} /\ p \notin DOMAIN live /\ Held' = DOMAIN live \cup {p}
  BY <1>1, <1>2, ListFacts DEF Held
<1>5. Lk(mem') \cup Held' = Lk(mem) \cup Held
  BY <1>2, <1>3, <1>4
<1>6. Tiles(mem', Lk(mem) \cup Held, core)
  <2>1. \A b \in Lk(mem) \cup Held : mem'[b].size = mem[b].size
    BY <1>2, <1>3, ListFacts DEF SameSizes
  <2> QED BY <1>2, <2>1, ListFacts, SameTiles
<1>7. HeldOK'
  <2>1. ASSUME NEW a \in DOMAIN live PROVE a \in Addr /\ a # Base /\ mem'[a].ptr = NIL /\ mem'[a].size = live'[a]
    <3>1. a \in Addr /\ a # Base /\ mem[a].ptr = NIL /\ mem[a].size = live[a]
      BY <1>2, ListFacts DEF HeldOK
    <3>2. a \notin {prevp, p}
      BY <1>2, <3>1 DEF Ring, Lk
    <3> QED BY <1>1, <1>3, <3>1, <3>2 DEF SameBut
  <2>2. live'[p] = nunits
    BY <1>1
  <2> QED BY <1>1, <1>2, <1>3, <1>4, <2>1, <2>2 DEF HeldOK, SameSizes
<1>8. prevp \in Addr /\ freep' # NIL
  BY <1>1, <1>2, Addresses DEF Ring, Lk
<1>9. ListInv' /\ Unused'
  BY <1>1, <1>3, <1>5, <1>6, <1>7, <1>8 DEF ListInv, ScanOK, Unused
<1>10. MTypes' /\ Arena'
  <2>1. Break' = Break
    BY <1>1 DEF Break
  <2> QED BY <1>1, <1>3, <1>8, <2>1 DEF MInv, MTypes, Arena
<1> QED BY <1>4, <1>9, <1>10 DEF MInv

LEMMA MSplitOK ==
  ASSUME MInv, MallocSplit
  PROVE  MInv' /\ live' # live
<1> DEFINE e == p + mem[p].size - nunits
<1>1. /\ pc = "scan" /\ Fits(p) /\ mem[p].size # nunits /\ freep' = prevp /\ pc' = "idle"
      /\ mem' = CutOff(mem, p, nunits, e)
      /\ live' = [b \in DOMAIN live \cup {e} |-> IF b = e THEN nunits ELSE live[b]]
      /\ nunits' = 0 /\ inCore' = FALSE /\ brk' = brk /\ core' = core /\ raw' = raw
  BY DEF MallocSplit, Hand, Return, CutOff
<1>2. /\ freep # NIL /\ prevp \in Ring(mem) /\ p \in Lk(mem) /\ p \in Addr
      /\ Held = DOMAIN live /\ nunits \in Nat /\ nunits > 0
  BY <1>1, ScanFacts
<1>3. nunits < mem[p].size
  <2>1. mem[p].size \in Nat
    BY <1>2, ListFacts, MemFields
  <2> QED BY <1>1, <1>2, <2>1 DEF Fits
<1> HIDE DEF e
<1>4. /\ mem' \in Mems /\ Lk(mem') = Lk(mem) /\ Chain(mem', {}) /\ Tiles(mem', Lk(mem) \cup Held \cup {e}, core)
      /\ e \in Addr /\ e # Base /\ e \notin Lk(mem) \cup Held /\ mem'[e].ptr = NIL /\ mem'[e].size = nunits
      /\ SameBut(mem, mem', {p, e})
  <2> DEFINE B == Lk(mem) \cup Held
  <2>1. Heap(mem, B, core)
    BY <1>2, ListFacts, BreakFacts DEF Heap
  <2>2. e = p + mem[p].size - nunits
    BY DEF e
  <2> HIDE DEF B
  <2>3. /\ mem' \in Mems /\ Lk(mem') = Lk(mem) /\ Chain(mem', {}) /\ Tiles(mem', B \cup {e}, core)
        /\ e \in Addr /\ e # Base /\ e \notin B /\ mem'[e].ptr = NIL /\ mem'[e].size = nunits
        /\ SameBut(mem, mem', {p, e})
    BY <1>1, <1>2, <1>3, <2>1, <2>2, SplitOK
  <2> QED BY <2>3 DEF B
<1>5. DOMAIN live' = DOMAIN live \cup {e} /\ e \notin DOMAIN live /\ Held' = DOMAIN live \cup {e}
  BY <1>1, <1>2, <1>4 DEF Held
<1>6. Lk(mem') \cup Held' = Lk(mem) \cup Held \cup {e}
  BY <1>2, <1>4, <1>5
<1>7. HeldOK'
  <2>1. ASSUME NEW a \in DOMAIN live PROVE a \in Addr /\ a # Base /\ mem'[a].ptr = NIL /\ mem'[a].size = live'[a]
    <3>1. a \in Addr /\ a # Base /\ mem[a].ptr = NIL /\ mem[a].size = live[a]
      BY <1>2, ListFacts DEF HeldOK
    <3>2. a \notin {p, e}
      BY <1>2, <1>5, <3>1 DEF Lk
    <3> QED BY <1>1, <1>4, <3>1, <3>2 DEF SameBut
  <2>2. live'[e] = nunits
    BY <1>1
  <2> QED BY <1>1, <1>4, <1>5, <2>1, <2>2 DEF HeldOK
<1>8. prevp \in Addr /\ freep' # NIL /\ prevp \in Ring(mem')
  BY <1>1, <1>2, <1>4, Addresses DEF Ring, Lk
<1>9. ListInv' /\ Unused'
  BY <1>1, <1>4, <1>6, <1>7, <1>8 DEF ListInv, ScanOK, Unused
<1>10. MTypes' /\ Arena'
  <2>1. Break' = Break
    BY <1>1 DEF Break
  <2> QED BY <1>1, <1>4, <1>8, <2>1 DEF MInv, MTypes, Arena
<1> QED BY <1>5, <1>9, <1>10 DEF MInv

\* The scan goes on in the order of the list: what it leaves behind does not fit.
LEMMA NextOK ==
  ASSUME MInv, MallocNext
  PROVE  MInv'
<1>1. /\ pc = "scan" /\ ~Fits(p) /\ p # freep /\ prevp' = p /\ p' = mem[p].ptr
      /\ mem' = mem /\ freep' = freep /\ brk' = brk /\ pc' = pc /\ bp' = bp /\ nunits' = nunits
      /\ inCore' = inCore /\ live' = live /\ core' = core /\ raw' = raw
  BY DEF MallocNext
<1>2. freep # NIL /\ nunits \in Nat /\ p \in Ring(mem) /\ p \in Addr /\ freep \in Ring(mem)
  BY <1>1, ScanFacts, ListFacts
<1>3. /\ mem[p].ptr \in Ring(mem) /\ mem[p].ptr \in Nat /\ p \in Nat /\ freep \in Nat
      /\ mem[p].ptr # Base => p < mem[p].ptr
      /\ \A c \in Ring(mem) : c \in Nat /\ (p < c => mem[p].ptr # Base /\ mem[p].ptr <= c)
  <2>1. mem[p].ptr \in Ring(mem) /\ (mem[p].ptr # Base => p < mem[p].ptr)
    BY <1>2, ListFacts DEF Chain
  <2>2. ASSUME NEW c \in Ring(mem) PROVE c \in Nat /\ (p < c => mem[p].ptr # Base /\ mem[p].ptr <= c)
    <3>1. c \in Nat /\ (p < c => c \in Lk(mem))
      BY <1>2, Addresses DEF Ring, Lk
    <3> QED BY <1>2, <3>1, ListFacts DEF Chain
  <2> QED BY <1>2, <2>1, <2>2
<1>4. mem[p].size < nunits
  <2>1. mem[p].size \in Nat
    BY <1>2, ListFacts, MemFields
  <2> QED BY <1>1, <1>2, <2>1 DEF Fits
<1>5. ASSUME NEW b \in Ring(mem), Passed(b)' PROVE Passed(b) \/ b = p
  <2>1. b \in Nat /\ (IF mem[p].ptr > freep THEN freep < b /\ b < mem[p].ptr ELSE freep < b \/ b < mem[p].ptr)
    BY <1>1, <1>3, <1>5 DEF Passed
  <2>2. b < mem[p].ptr => b <= p
    BY <1>3, <2>1
  <2>3. p < freep => mem[p].ptr <= freep
    BY <1>2, <1>3
  <2>4. p < b => mem[p].ptr # Base /\ mem[p].ptr <= b
    BY <1>3
  <2> QED BY <1>1, <1>3, <2>1, <2>2, <2>3, <2>4, Addresses DEF Passed
<1>6. ScanOK'
  <2>1. \A b \in Ring(mem) : Passed(b) => mem[b].size < nunits
    BY <1>1, <1>2, ListFacts DEF ScanOK
  <2> QED BY <1>1, <1>2, <1>4, <1>5, <2>1 DEF ScanOK
<1>7. Break' = Break /\ Held' = Held
  BY <1>1 DEF Break, Held
<1>8. HeldOK'
  BY <1>1, <1>2, <1>7, ListFacts DEF HeldOK
<1>9. ListInv' /\ Unused'
  BY <1>1, <1>2, <1>6, <1>7, <1>8, ListFacts DEF ListInv, Unused
<1> QED BY <1>1, <1>7, <1>9 DEF MInv, MTypes, Arena

LEMMA CoreOK ==
  ASSUME MInv, morecore
  PROVE  MInv'
<1> DEFINE j == CoreUnits
           e == Break
<1>1. /\ pc = "scan" /\ e + j <= MaxAddr /\ brk' = e + j
      /\ mem' = NewBlock(mem, e, j) /\ core' = core \cup Units(e, j)
      /\ bp' = e /\ p' = freep /\ inCore' = TRUE /\ pc' = "find"
      /\ freep' = freep /\ prevp' = prevp /\ nunits' = nunits /\ live' = live /\ raw' = raw
  BY DEF morecore, brk_ok, NewBlock
<1>2. freep # NIL /\ nunits \in Nat /\ nunits > 0 /\ Held = DOMAIN live
  BY <1>1, ScanFacts
<1>3. j \in Nat /\ j > 0
  <2> DEFINE S == {nunits, NALLOC}
  <2>1. NALLOC \in Nat /\ NALLOC > 0
    BY MallocAssumption
  <2>2. \E x \in S : \A y \in S : x >= y
    BY <1>2, <2>1
  <2>3. j \in S
    BY <2>2 DEF CoreUnits, Max
  <2> QED BY <1>2, <2>1, <2>3
<1>4. e \in Nat /\ e >= 2 /\ MaxAddr \in Nat /\ core \in SUBSET Addr /\ \A u \in core : u \in Nat /\ u < e
  BY BreakFacts, Addresses
<1>5. e \in Addr /\ e # Base
  BY <1>1, <1>3, <1>4 DEF Addr, Base
<1> HIDE DEF e, j
<1> DEFINE B == Lk(mem) \cup Held
<1>6. /\ mem \in Mems /\ Chain(mem, {}) /\ B \in SUBSET Addr /\ Lk(mem) \subseteq B
      /\ Tiles(mem, B, core) /\ freep \in Ring(mem) /\ HeldOK
  BY <1>2, ListFacts
<1>7. /\ mem' \in Mems /\ Lk(mem') = Lk(mem) /\ Chain(mem', {}) /\ Tiles(mem', B \cup {e}, core')
      /\ e \notin B /\ mem'[e].ptr = NIL /\ SameBut(mem, mem', {e})
  <2> HIDE DEF B
  <2>1. Above(e, core)
    BY <1>4 DEF Above
  <2>2. /\ mem' \in Mems /\ Lk(mem') = Lk(mem) /\ Chain(mem', {}) /\ Tiles(mem', B \cup {e}, core')
        /\ e \notin B /\ mem'[e].ptr = NIL /\ SameBut(mem, mem', {e})
    <3>1. Heap(mem, B, core)
      BY <1>4, <1>6 DEF Heap
    <3>2. Grows(mem, B, core, e, j)
      BY <1>1, <1>3, <1>5, <2>1, <3>1 DEF Grows
    <3>3. mem' = NewBlock(mem, e, j) /\ core' = core \cup Units(e, j)
      BY <1>1
    <3>4. /\ mem' \in Mems /\ Lk(mem') = Lk(mem) /\ Chain(mem', {})
          /\ Tiles(mem', B \cup {e}, core \cup Units(e, j))
          /\ e \notin B /\ mem'[e].ptr = NIL /\ SameBut(mem, mem', {e})
      BY <3>2, <3>3, NewTileOK, SMTT(40)
    <3> QED BY <3>3, <3>4
  <2> QED BY <2>2
<1>8. Held' = DOMAIN live \cup {e} /\ e \notin DOMAIN live /\ Lk(mem') \cup Held' = B \cup {e}
  BY <1>1, <1>2, <1>7 DEF Held
<1>9. HeldOK'
  <2>1. \A a \in DOMAIN live : a \in Addr /\ a # Base /\ mem'[a].ptr = mem[a].ptr /\ mem'[a].size = mem[a].size
    BY <1>2, <1>6, <1>7, <1>8 DEF HeldOK, SameBut
  <2>2. \A a \in DOMAIN live : mem[a].ptr = NIL /\ mem[a].size = live[a]
    BY <1>2, <1>6 DEF HeldOK
  <2> QED BY <1>1, <1>5, <1>6, <1>7, <1>8, <2>1, <2>2 DEF HeldOK, Ring
<1>10. ListInv' /\ Unused'
  <2>1. freep \in Ring(mem')
    BY <1>6, <1>7 DEF Ring
  <2> QED BY <1>1, <1>2, <1>7, <1>8, <1>9, <2>1 DEF ListInv, ScanOK, Unused
<1>11. brk' \in HeapStart .. MaxAddr /\ Break' = e + j
  <2>1. brk' \in HeapStart .. MaxAddr
    BY <1>1, <1>3, <1>4, Addresses
  <2> QED BY <1>1, <2>1, Addresses, MallocAssumption DEF Break
<1>12. Arena'
  <2>1. core \subseteq HeapStart .. (e - 1) /\ raw \subseteq HeapStart .. (e - 1) /\ core \cap raw = {}
    BY DEF MInv, Arena, e
  <2>2. raw' \subseteq HeapStart .. (Break' - 1) /\ core' \subseteq HeapStart .. (Break' - 1)
    BY <1>1, <1>3, <1>4, <1>11, <2>1, Addresses DEF Units
  <2>3. core' \cap raw' = {}
    BY <1>1, <1>3, <1>4, <2>1, Addresses DEF Units
  <2> QED BY <1>1, <2>2, <2>3 DEF MInv, Arena
<1>13. MTypes'
  BY <1>1, <1>2, <1>7, <1>11 DEF MInv, MTypes
<1> QED BY <1>10, <1>12, <1>13 DEF MInv

LEMMA CoreFailsOK ==
  ASSUME MInv, morecore_fails
  PROVE  MInv'
<1>1. /\ pc = "scan" /\ brk' = Break /\ pc' = "idle" /\ nunits' = 0 /\ inCore' = FALSE
      /\ mem' = mem /\ freep' = freep /\ live' = live /\ core' = core /\ raw' = raw
  BY DEF morecore_fails, Return
<1>2. freep # NIL /\ Held = DOMAIN live /\ Held' = Held
  BY <1>1, ScanFacts DEF Held
<1>3. HeldOK' /\ ScanOK'
  BY <1>1, <1>2, ListFacts DEF HeldOK, ScanOK
<1>4. ListInv' /\ Unused'
  BY <1>1, <1>2, <1>3, ListFacts DEF ListInv, Unused
<1>5. Break \in HeapStart .. MaxAddr /\ Break' = Break
  BY <1>1, BreakFacts, MallocAssumption DEF Break
<1> QED BY <1>1, <1>4, <1>5 DEF MInv, MTypes, Arena

LEMMA AbortOK ==
  ASSUME MInv, sbrk_aborts
  PROVE  MInv'
<1>1. /\ pc \in {"idle", "scan"} /\ pc' = "aborted" /\ nunits' = nunits /\ inCore' = inCore /\ brk' = brk
      /\ mem' = mem /\ freep' = freep /\ live' = live /\ core' = core /\ raw' = raw
  BY DEF sbrk_aborts, locals
<1>2. Held = DOMAIN live /\ Held' = Held
  BY <1>1 DEF Held
<1>3. freep # NIL => HeldOK' /\ ScanOK'
  BY <1>1, <1>2 DEF MInv, ListInv, HeldOK, ScanOK
<1>4. ListInv' /\ Unused'
  BY <1>1, <1>2, <1>3 DEF MInv, ListInv, Unused
<1>5. Break' = Break
  BY <1>1 DEF Break
<1> QED BY <1>1, <1>4, <1>5 DEF MInv, MTypes, Arena

LEMMA RefusedOK ==
  ASSUME MInv, sbrk_refused
  PROVE  MInv'
<1>1. /\ pc = "idle" /\ pc' = pc /\ nunits' = nunits /\ inCore' = inCore /\ brk' = Break
      /\ mem' = mem /\ freep' = freep /\ live' = live /\ core' = core /\ raw' = raw
  BY DEF sbrk_refused, locals
<1>2. Held = DOMAIN live /\ Held' = Held
  BY <1>1 DEF Held
<1>3. freep # NIL => HeldOK' /\ ScanOK'
  BY <1>1, <1>2 DEF MInv, ListInv, HeldOK, ScanOK
<1>4. ListInv' /\ Unused'
  BY <1>1, <1>2, <1>3 DEF MInv, ListInv, Unused
<1>5. Break \in HeapStart .. MaxAddr /\ Break' = Break
  BY <1>1, BreakFacts, MallocAssumption DEF Break
<1> QED BY <1>1, <1>4, <1>5 DEF MInv, MTypes, Arena

LEMMA FreeOK ==
  ASSUME MInv, NEW a \in DOMAIN live, free(a)
  PROVE  MInv'
<1>1. /\ pc = "idle" /\ bp' = a /\ p' = freep /\ inCore' = FALSE /\ pc' = "find"
      /\ live' = [b \in DOMAIN live \ {a} |-> live[b]]
      /\ mem' = mem /\ freep' = freep /\ brk' = brk /\ nunits' = nunits /\ core' = core /\ raw' = raw
  BY DEF free
<1>2. freep # NIL
  BY DEF MInv, Unused
<1>3. DOMAIN live' = DOMAIN live \ {a} /\ \A b \in DOMAIN live' : live'[b] = live[b]
  BY <1>1
<1>4. Held = DOMAIN live /\ Held' = Held
  BY <1>1, <1>3 DEF Held
<1>5. HeldOK'
  BY <1>1, <1>2, <1>3, <1>4, ListFacts DEF HeldOK
<1>6. ListInv' /\ Unused'
  BY <1>1, <1>2, <1>4, <1>5, ListFacts DEF ListInv, ScanOK, Unused
<1>7. Break' = Break
  BY <1>1 DEF Break
<1> QED BY <1>1, <1>6, <1>7 DEF MInv, MTypes, Arena

LEMMA FreeNextOK ==
  ASSUME MInv, FreeNext
  PROVE  MInv'
<1>1. /\ pc = "find" /\ p' = mem[p].ptr
      /\ mem' = mem /\ freep' = freep /\ brk' = brk /\ pc' = pc /\ prevp' = prevp /\ bp' = bp
      /\ nunits' = nunits /\ inCore' = inCore /\ live' = live /\ core' = core /\ raw' = raw
  BY DEF FreeNext
<1>2. freep # NIL
  BY <1>1 DEF MInv, Unused
<1>3. Held' = Held /\ Break' = Break
  BY <1>1 DEF Held, Break
<1>4. p' \in Ring(mem)
  BY <1>1, <1>2, ListFacts DEF HeldOK, Chain
<1>5. HeldOK'
  BY <1>1, <1>2, <1>3, <1>4, ListFacts DEF HeldOK
<1>6. ListInv' /\ Unused'
  BY <1>1, <1>2, <1>3, <1>5, ListFacts DEF ListInv, ScanOK, Unused
<1> QED BY <1>1, <1>3, <1>6 DEF MInv, MTypes, Arena

\* free stops behind the last block below the one it inserts.
LEMMA StopsBelow ==
  ASSUME NEW m \in Mems, Chain(m, {}), NEW q \in Ring(m), NEW b \in Nat, b # Base,
         \/ b > q /\ b < m[q].ptr
         \/ q >= m[q].ptr /\ (b > q \/ b < m[q].ptr)
  PROVE  q < b /\ (m[q].ptr = Base \/ b < m[q].ptr)
<1>1. q \in Nat /\ m[q].ptr \in Nat /\ (m[q].ptr # Base => q < m[q].ptr)
  <2>1. m[q].ptr \in Ring(m) /\ (m[q].ptr # Base => q < m[q].ptr)
    BY DEF Chain
  <2> QED BY <2>1, Addresses DEF Ring, Lk
<1> QED BY <1>1, Addresses

LEMMA FreeLinkOK ==
  ASSUME MInv, FreeLink
  PROVE  MInv'
<1>1. /\ pc = "find" /\ Stops(bp, p) /\ mem' = LinkDown(LinkUp(mem, bp, p), bp, p) /\ freep' = p
      /\ brk' = brk /\ live' = live /\ core' = core /\ raw' = raw
      /\ \/ inCore /\ pc' = "scan" /\ prevp' = p /\ p' = mem'[p].ptr /\ inCore' = FALSE /\ nunits' = nunits
         \/ pc' = "idle" /\ nunits' = 0 /\ inCore' = FALSE
  BY DEF FreeLink, Return
<1>2. freep # NIL
  BY <1>1 DEF MInv, Unused
<1> DEFINE B == Lk(mem) \cup Held
<1>3. /\ mem \in Mems /\ Chain(mem, {}) /\ B \in SUBSET Addr /\ Lk(mem) \subseteq B
      /\ Tiles(mem, B, core) /\ core \in SUBSET Addr /\ HeldOK
  BY <1>2, ListFacts, BreakFacts
<1>4. /\ Held = DOMAIN live \cup {bp} /\ bp \in B /\ bp \in Addr /\ bp \in Nat /\ bp # Base
      /\ mem[bp].ptr = NIL /\ bp \notin DOMAIN live /\ p \in Ring(mem)
  BY <1>1, <1>3, Addresses DEF Held, HeldOK
<1>5. p < bp /\ (mem[p].ptr = Base \/ bp < mem[p].ptr)
  BY <1>1, <1>3, <1>4, StopsBelow DEF Stops
<1>6. /\ mem' \in Mems /\ Chain(mem', {}) /\ Lk(mem') \subseteq Lk(mem) \cup {bp} /\ p \in Ring(mem')
      /\ Tiles(mem', (B \ (Lk(mem) \cup {bp})) \cup Lk(mem'), core)
      /\ \A a \in Addr : a \notin Ring(mem) \cup {bp} => mem'[a] = mem[a]
  <2> HIDE DEF B
  <2> QED BY <1>1, <1>3, <1>4, <1>5, LinkOK
<1>7. Held' = DOMAIN live
  BY <1>1 DEF Held
<1>8. \A a \in DOMAIN live : a \in Addr /\ a # Base /\ mem[a].ptr = NIL /\ a \notin Ring(mem) \cup {bp}
  BY <1>3, <1>4 DEF HeldOK, Ring, Lk
<1>9. (B \ (Lk(mem) \cup {bp})) \cup Lk(mem') = Lk(mem') \cup Held'
  BY <1>4, <1>7, <1>8 DEF Ring
<1>10. HeldOK'
  <2>1. \A a \in DOMAIN live : mem'[a] = mem[a]
    BY <1>6, <1>8
  <2>2. \A a \in DOMAIN live : mem'[a].ptr = NIL /\ mem'[a].size = live[a]
    BY <1>3, <1>8, <2>1 DEF HeldOK
  <2> QED BY <1>1, <1>7, <1>8, <2>2 DEF HeldOK
<1>11. ScanOK'
  <2>1. CASE pc' = "scan"
    <3>1. prevp' = p /\ p' = mem'[p].ptr /\ freep' = p
      BY <1>1, <2>1
    <3>2. ASSUME NEW b \in Ring(mem') PROVE ~Passed(b)'
      BY <1>6, <3>1, NothingPassed DEF Passed
    <3> QED BY <1>6, <3>1, <3>2 DEF ScanOK
  <2> QED BY <2>1 DEF ScanOK
<1>12. p \in Addr /\ p # NIL
  BY <1>4, Addresses DEF Ring, Lk
<1>13. ListInv' /\ Unused'
  BY <1>1, <1>6, <1>9, <1>10, <1>11, <1>12 DEF ListInv, Unused
<1>14. Break' = Break
  BY <1>1 DEF Break
<1>15. MTypes'
  <2>1. nunits' \in Nat /\ pc' \in {"idle", "scan", "find", "aborted"} /\ (pc' = "scan" => nunits' > 0)
    BY <1>1 DEF MInv, MTypes
  <2>2. inCore' = FALSE /\ pc' # "find"
    BY <1>1
  <2>3. brk' \in (HeapStart .. MaxAddr) \cup {NIL}
    BY <1>1 DEF MInv, MTypes
  <2> QED BY <1>1, <1>6, <1>12, <2>1, <2>2, <2>3 DEF MTypes
<1> QED BY <1>1, <1>13, <1>14, <1>15 DEF MInv, Arena

LEMMA MStep == MInv /\ [Next]_vars => MInv'
<1> SUFFICES ASSUME MInv, [Next]_vars PROVE MInv'
  OBVIOUS
<1>1. ASSUME NEW n \in 1 .. MaxUnits, malloc(n) PROVE MInv'
  BY <1>1, MallocOK
<1>2. ASSUME NEW n \in 1 .. MaxUnits, sbrk_take(n) PROVE MInv'
  BY <1>2, TakeOK
<1>3. CASE sbrk_give
  BY <1>3, GiveOK
<1>4. ASSUME NEW a \in DOMAIN live, free(a) PROVE MInv'
  BY <1>4, FreeOK
<1>5. CASE Step
  BY <1>5, ExactOK, MSplitOK, NextOK, CoreOK, CoreFailsOK, FreeNextOK, FreeLinkOK DEF Step
<1>6. CASE UNCHANGED vars
  BY <1>6 DEF vars, locals, MInv, MTypes, Arena, Unused, ListInv, HeldOK, ScanOK, Held, Break, Passed
<1>7. CASE sbrk_aborts \/ sbrk_refused
  BY <1>7, AbortOK, RefusedOK
<1> QED BY <1>1, <1>2, <1>3, <1>4, <1>5, <1>6, <1>7 DEF Next

LEMMA MAlways == Spec => []MInv
BY InitOK, MStep, PTL DEF Spec

-----------------------------------------------------------------------------
(* What following ptr from base meets.                                     *)

LEMMA Smallest ==
  ASSUME NEW S \in SUBSET Nat, S # {}
  PROVE  \E x \in S : \A y \in S : x <= y
<1>1. \E x \in S : \A y \in S : ~ (<<y, x>> \in OpToRel(<, Nat))
  BY WFMin, NatLessThanWellFounded
<1>2. \A x, y \in Nat : <<y, x>> \in OpToRel(<, Nat) <=> y < x
  BY Zenon DEF OpToRel
<1>3. \E x \in S : \A y \in S : ~(y < x)
  BY <1>1, <1>2, Zenon
<1> QED BY <1>3

LEMMA Largest ==
  ASSUME NEW S \in SUBSET Addr, S # {}
  PROVE  \E x \in S : \A y \in S : y <= x
<1> DEFINE T == {MaxAddr - x : x \in S}
<1>0. \A x \in S : x \in Nat /\ x < MaxAddr /\ MaxAddr \in Nat
  BY Addresses
<1>1. T \in SUBSET Nat /\ T # {}
  <2>1. \A x \in S : MaxAddr - x \in Nat
    BY <1>0
  <2> QED BY <2>1
<1>2. PICK t \in T : \A u \in T : t <= u
  <2> HIDE DEF T
  <2> QED BY <1>1, Smallest
<1>3. PICK x \in S : t = MaxAddr - x
  BY <1>2
<1>4. \A y \in S : t <= MaxAddr - y
  BY <1>2
<1> HIDE DEF T
<1> QED BY <1>0, <1>3, <1>4

\* A walk of n steps.
IsWalk(f, n) == f = [k \in 0 .. n |-> IF k = 0 THEN Base ELSE mem[f[k - 1]].ptr]

LEMMA WalkExists == \E f : IsWalk(f, MaxAddr)
<1> DEFINE Bad == {n \in Nat : ~\E f : IsWalk(f, n)}
<1>1. ASSUME NEW n \in Nat, ~\E f : IsWalk(f, n) PROVE FALSE
  <2>1. Bad \in SUBSET Nat /\ Bad # {}
    BY <1>1
  <2>2. PICK x \in Bad : \A y \in Bad : x <= y
    <3> HIDE DEF Bad
    <3> QED BY <2>1, Smallest
  <2>3. x \in Nat /\ ~\E f : IsWalk(f, x)
    BY <2>2
  <2>4. CASE x = 0
    <3> DEFINE f == [k \in 0 .. 0 |-> Base]
    <3>1. \A k \in 0 .. 0 : k = 0
      OBVIOUS
    <3>2. f = [k \in 0 .. 0 |-> IF k = 0 THEN Base ELSE mem[f[k - 1]].ptr]
      BY <3>1
    <3> QED BY <2>3, <2>4, <3>2 DEF IsWalk
  <2>5. CASE x # 0
    <3>1. x - 1 \in Nat /\ x - 1 \notin Bad
      BY <2>2, <2>3, <2>5
    <3>2. PICK f : IsWalk(f, x - 1)
      BY <3>1
    <3>3. f = [k \in 0 .. (x - 1) |-> IF k = 0 THEN Base ELSE mem[f[k - 1]].ptr]
      BY <3>2 DEF IsWalk
    <3> DEFINE g == [k \in 0 .. x |-> IF k = x THEN mem[f[x - 1]].ptr ELSE f[k]]
    <3>4. ASSUME NEW k \in 0 .. x PROVE g[k] = IF k = 0 THEN Base ELSE mem[g[k - 1]].ptr
      <4>1. CASE k = x
        <5>1. g[k] = mem[f[x - 1]].ptr /\ x - 1 \in 0 .. x /\ x - 1 # x /\ k # 0
          BY <2>3, <2>5, <4>1
        <5>2. g[k - 1] = f[x - 1]
          BY <4>1, <5>1
        <5> QED BY <5>1, <5>2
      <4>2. CASE k # x
        <5>1. k \in 0 .. (x - 1) /\ g[k] = f[k]
          BY <2>3, <4>2
        <5>2. f[k] = IF k = 0 THEN Base ELSE mem[f[k - 1]].ptr
          BY <3>3, <5>1
        <5>3. k # 0 => k - 1 \in 0 .. x /\ k - 1 # x
          BY <2>3, <4>2
        <5>4. k # 0 => g[k - 1] = f[k - 1]
          BY <5>3
        <5> QED BY <5>1, <5>2, <5>4
      <4> QED BY <4>1, <4>2
    <3>5. g = [k \in 0 .. x |-> g[k]]
      OBVIOUS
    <3> HIDE DEF g
    <3>6. g = [k \in 0 .. x |-> IF k = 0 THEN Base ELSE mem[g[k - 1]].ptr]
      BY <3>4, <3>5
    <3> QED BY <2>3, <3>6 DEF IsWalk
  <2> QED BY <2>4, <2>5
<1> QED BY <1>1, MallocAssumption

LEMMA AfterIs ==
  /\ After[0] = Base
  /\ \A k \in 1 .. MaxAddr : After[k] = mem[After[k - 1]].ptr
<1>1. IsWalk(After, MaxAddr)
  BY WalkExists, Zenon DEF After, IsWalk
<1>2. After = [k \in 0 .. MaxAddr |-> IF k = 0 THEN Base ELSE mem[After[k - 1]].ptr]
  BY <1>1 DEF IsWalk
<1>3. \A k \in 1 .. MaxAddr : k \in 0 .. MaxAddr /\ k # 0
  BY MallocAssumption
<1>4. 0 \in 0 .. MaxAddr
  BY MallocAssumption
<1> QED BY <1>2, <1>3, <1>4, Zenon

\* The walk stays in the ring ...
LEMMA WalkInRing ==
  ASSUME Chain(mem, {}), NEW n \in 0 .. MaxAddr
  PROVE  After[n] \in Ring(mem)
<1> DEFINE Bad == {k \in 0 .. MaxAddr : After[k] \notin Ring(mem)}
<1>1. ASSUME Bad # {} PROVE FALSE
  <2>1. PICK x \in Bad : \A y \in Bad : x <= y
    <3>1. Bad \in SUBSET Nat
      BY MallocAssumption
    <3> HIDE DEF Bad
    <3> QED BY <1>1, <3>1, Smallest
  <2>2. x \in 0 .. MaxAddr /\ After[x] \notin Ring(mem) /\ x # 0
    BY <2>1, AfterIs DEF Ring
  <2>3. x \in 1 .. MaxAddr /\ x - 1 \in 0 .. MaxAddr /\ ~(x <= x - 1)
    BY <2>2, MallocAssumption
  <2>4. After[x - 1] \in Ring(mem)
    BY <2>1, <2>3
  <2>5. After[x] = mem[After[x - 1]].ptr
    BY <2>3, AfterIs
  <2> QED BY <2>2, <2>4, <2>5 DEF Chain
<1> QED BY <1>1

\* ... and meets all of it, b after at most b steps.
LEMMA WalkMeets ==
  ASSUME Chain(mem, {}), NEW b \in Ring(mem)
  PROVE  \E k \in 0 .. b : After[k] = b
<1> DEFINE Met(c) == \E k \in 0 .. c : After[k] = c
           Bad == {c \in Ring(mem) : ~Met(c)}
<1>1. \A c \in Ring(mem) : c \in Addr /\ c \in Nat /\ c < MaxAddr /\ MaxAddr \in Nat
  BY Addresses DEF Ring, Lk
<1>2. ASSUME Bad # {} PROVE FALSE
  <2>1. PICK x \in Bad : \A y \in Bad : x <= y
    <3>1. Bad \in SUBSET Nat
      BY <1>1
    <3> HIDE DEF Bad
    <3> QED BY <1>2, <3>1, Smallest
  <2>2. x \in Ring(mem) /\ ~Met(x)
    BY <2>1
  <2>3. x # Base /\ x \in Lk(mem) /\ Base \in Ring(mem)
    <3>1. Met(Base)
      BY AfterIs DEF Base
    <3> QED BY <2>2, <3>1 DEF Ring
  <2> DEFINE Low == {c \in Ring(mem) : c < x}
  <2>4. PICK a \in Low : \A y \in Low : y <= a
    <3>1. Low \in SUBSET Addr /\ Base \in Low
      <4>1. x \in Nat /\ Base < x
        BY <1>1, <2>2, <2>3, Addresses
      <4>2. Base \in Low
        BY <2>3, <4>1
      <4> QED BY <1>1, <4>2
    <3> HIDE DEF Low
    <3> QED BY <3>1, Largest
  <2>5. a \in Ring(mem) /\ a < x /\ a \in Nat /\ x \in Nat /\ x < MaxAddr
    BY <1>1, <2>2, <2>4
  <2>6. mem[a].ptr \in Ring(mem) /\ a < mem[a].ptr /\ mem[a].ptr <= x
    BY <2>3, <2>5 DEF Chain
  <2>7. mem[a].ptr = x
    <3>1. mem[a].ptr \in Nat /\ (mem[a].ptr < x => mem[a].ptr <= a)
      BY <1>1, <2>4, <2>6
    <3> QED BY <2>5, <2>6, <3>1
  <2>8. Met(a)
    <3>1. a \notin Bad
      BY <2>1, <2>5
    <3> QED BY <2>5, <3>1
  <2>9. PICK k \in 0 .. a : After[k] = a
    BY <2>8
  <2>10. k + 1 \in 1 .. MaxAddr /\ k + 1 \in 0 .. x /\ (k + 1) - 1 = k
    BY <1>1, <2>2, <2>5
  <2>11. After[k + 1] = x
    BY <2>7, <2>9, <2>10, AfterIs
  <2> QED BY <2>2, <2>10, <2>11
<1> QED BY <1>2

\* The walk comes back to base, and what it meets is what is linked.
LEMMA WalkOK ==
  ASSUME mem \in Mems, Chain(mem, {})
  PROVE  ListCloses /\ FreeBlocks = Lk(mem)
<1>1. \A c \in Ring(mem) : c \in Addr /\ c \in Nat /\ c < MaxAddr /\ MaxAddr \in Nat
  BY Addresses DEF Ring, Lk
<1>2. Ring(mem) \in SUBSET Addr /\ Ring(mem) # {}
  BY <1>1 DEF Ring
<1>3. PICK t \in Ring(mem) : \A y \in Ring(mem) : y <= t
  BY <1>2, Largest
<1>4. mem[t].ptr = Base
  <2>1. mem[t].ptr \in Ring(mem) /\ (mem[t].ptr # Base => t < mem[t].ptr)
    BY DEF Chain
  <2>2. mem[t].ptr <= t /\ mem[t].ptr \in Nat /\ t \in Nat
    BY <1>1, <1>3, <2>1
  <2> QED BY <2>1, <2>2
<1>5. ListCloses
  <2>1. PICK k \in 0 .. t : After[k] = t
    BY WalkMeets
  <2>2. k + 1 \in 1 .. MaxAddr /\ (k + 1) - 1 = k
    BY <1>1
  <2>3. After[k + 1] = Base
    BY <1>4, <2>1, <2>2, AfterIs
  <2> QED BY <2>2, <2>3 DEF ListCloses
<1>6. ASSUME NEW b \in FreeBlocks PROVE b \in Lk(mem)
  <2>1. PICK k \in 1 .. MaxAddr : b = After[k]
    BY DEF FreeBlocks
  <2>2. k \in 0 .. MaxAddr /\ b # Base
    BY <1>6, MallocAssumption DEF FreeBlocks
  <2> QED BY <2>1, <2>2, WalkInRing DEF Ring
<1>7. ASSUME NEW b \in Lk(mem) PROVE b \in FreeBlocks
  <2>1. b \in Ring(mem) /\ b # Base
    BY DEF Ring, Lk
  <2>2. PICK k \in 0 .. b : After[k] = b
    BY <2>1, WalkMeets
  <2>3. k # 0 /\ k \in 1 .. MaxAddr
    BY <1>1, <2>1, <2>2, AfterIs
  <2> QED BY <2>1, <2>2, <2>3 DEF FreeBlocks
<1> QED BY <1>5, <1>6, <1>7

-----------------------------------------------------------------------------
(* The theorems.                                                           *)

LEMMA TypesOK == ASSUME MInv PROVE TypeOK
<1>1. pc \in {"scan", "find"} => p \in Addr
  <2>1. CASE pc = "scan"
    BY <2>1, ScanFacts
  <2>2. CASE pc = "find"
    <3>1. p \in Ring(mem)
      BY <2>2, ListFacts DEF MInv, Unused, HeldOK
    <3> QED BY <3>1, Addresses DEF Ring, Lk
  <2> QED BY <2>1, <2>2
<1> QED BY <1>1 DEF MInv, MTypes, Mems, TypeOK

\* The free list stays circular, sorted and coalesced, whatever malloc, free and
\* sbrk do: with the order of the addresses goes that every block points to the
\* next one above it, which is what the loop of free relies on.
THEOREM ListAlwaysOK == Spec => []ListOK
<1>1. ASSUME MInv PROVE ListOK
  <2>1. CASE freep = NIL
    BY <1>1, <2>1, TypesOK DEF ListOK, Listed
  <2>2. CASE freep # NIL
    <3>1. /\ mem \in Mems /\ Chain(mem, {}) /\ freep \in Ring(mem)
          /\ Tiles(mem, Lk(mem) \cup Held, core)
      BY <1>1, <2>2, ListFacts
    <3>2. ListCloses /\ FreeBlocks = Lk(mem)
      BY <3>1, WalkOK
    <3>3. ASSUME NEW b \in Lk(mem)
          PROVE  mem[b].size > 0 /\ (mem[b].ptr # Base => b + mem[b].size < mem[b].ptr)
      BY <3>1 DEF Chain, Tiles, Ring
    <3> QED BY <1>1, <3>1, <3>2, <3>3, TypesOK DEF ListOK, Ring
  <2> QED BY <2>1, <2>2
<1> QED BY <1>1, MAlways, PTL

LEMMA PiecesAre ==
  ASSUME MInv, freep # NIL
  PROVE  Pieces = {<<b, mem[b].size>> : b \in Lk(mem) \cup Held}
<1>1. mem \in Mems /\ Chain(mem, {}) /\ HeldOK
  BY ListFacts
<1>2. ListCloses /\ FreeBlocks = Lk(mem)
  BY <1>1, WalkOK
<1>3. {<<a, live[a]>> : a \in DOMAIN live} = {<<a, mem[a].size>> : a \in DOMAIN live}
  BY <1>1 DEF HeldOK
<1>4. Pieces = {<<b, mem[b].size>> : b \in Lk(mem)} \cup {<<a, mem[a].size>> : a \in DOMAIN live}
                 \cup (IF pc = "find" THEN {<<bp, mem[bp].size>>} ELSE {})
  BY <1>2, <1>3 DEF Pieces, Listed
<1> QED BY <1>4 DEF Held

\* No unit of the heap is ever lost or given out twice, whatever the program
\* allocates and frees in whatever order: free blocks, blocks in use and the
\* block being freed tile exactly what morecore obtained, and free finds the size
\* that malloc wrote.
THEOREM HeapAlwaysTiled == Spec => []Partition
<1>1. ASSUME MInv PROVE Partition
  <2>0. core \cap raw = {}
    BY <1>1 DEF MInv, Arena
  <2>1. CASE freep = NIL
    <3>1. DOMAIN live = {} /\ core = {} /\ pc # "find"
      BY <1>1, <2>1 DEF MInv, Unused
    <3>2. Pieces = {}
      BY <2>1, <3>1 DEF Pieces, Listed
    <3> QED BY <2>0, <3>1, <3>2 DEF Partition
  <2>2. CASE freep # NIL
    <3> DEFINE B == Lk(mem) \cup Held
    <3>1. Pieces = {<<b, mem[b].size>> : b \in B}
      BY <1>1, <2>2, PiecesAre
    <3>2. mem \in Mems /\ B \in SUBSET Addr /\ Tiles(mem, B, core) /\ HeldOK
      BY <1>1, <2>2, ListFacts
    <3> HIDE DEF B
    <3>3. \A b \in B : b \in Nat /\ mem[b].size \in Nat
      BY <3>2, MemFields, Addresses
    <3>4. UNION {Units(x[1], x[2]) : x \in Pieces} = core
      <4>1. ASSUME NEW u \in core PROVE \E x \in Pieces : u \in Units(x[1], x[2])
        <5>1. PICK b \in B : u \in Units(b, mem[b].size)
          BY <3>2 DEF Tiles
        <5> DEFINE x == <<b, mem[b].size>>
        <5>2. x \in Pieces
          BY <3>1
        <5>3. x[1] = b /\ x[2] = mem[b].size
          OBVIOUS
        <5> HIDE DEF x
        <5> QED BY <5>1, <5>2, <5>3
      <4>2. ASSUME NEW x \in Pieces, NEW u \in Units(x[1], x[2]) PROVE u \in core
        <5>1. PICK b \in B : x = <<b, mem[b].size>>
          BY <3>1
        <5>2. u \in Units(b, mem[b].size)
          BY <5>1
        <5> QED BY <3>2, <5>2 DEF Tiles
      <4> QED BY <4>1, <4>2
    <3>5. ASSUME NEW x \in Pieces, NEW y \in Pieces, x # y
          PROVE  Units(x[1], x[2]) \cap Units(y[1], y[2]) = {}
      <4>1. PICK a \in B : x = <<a, mem[a].size>>
        BY <3>1
      <4>2. PICK b \in B : y = <<b, mem[b].size>>
        BY <3>1
      <4>3. a # b
        BY <3>5, <4>1, <4>2
      <4>4. a < b \/ b < a
        BY <3>3, <4>3
      <4>5. a + mem[a].size <= b \/ b + mem[b].size <= a
        BY <3>2, <4>4 DEF Tiles
      <4>6. Units(a, mem[a].size) \cap Units(b, mem[b].size) = {}
        BY <3>3, <4>5 DEF Units
      <4> QED BY <4>1, <4>2, <4>6
    <3> QED BY <2>0, <3>2, <3>4, <3>5 DEF Partition, HeldOK
  <2> QED BY <2>1, <2>2
<1> QED BY <1>1, MAlways, PTL

\* When malloc returns 0, brk has refused and no free block is large enough: the
\* loop, which starts wherever the last call stopped, really sees the whole list.
THEOREM MallocGivesUpRightly == Spec => NullMeansNoFit
<1>1. ASSUME MInv, [Next]_vars PROVE [GivesUp]_vars
  <2> SUFFICES ASSUME pc = "scan", pc' = "idle", live' = live, NEW b \in FreeBlocks
               PROVE  mem[b].size < nunits
    BY DEF GivesUp
  <2>1. morecore_fails
    <3>1. ~MallocExact /\ ~MallocSplit
      BY <1>1, ExactOK, MSplitOK
    <3>2. ~UNCHANGED vars
      BY DEF vars
    <3>3. Step
      BY <1>1, <3>2 DEF Next, malloc, sbrk_take, sbrk_give, sbrk_aborts, sbrk_refused, free
    <3> QED BY <3>1, <3>3 DEF Step, MallocNext, morecore, FreeNext, FreeLink
  <2>2. p = freep /\ ~Fits(p)
    BY <2>1 DEF morecore_fails
  <2>3. freep # NIL /\ nunits \in Nat /\ p \in Addr
    BY <1>1, ScanFacts
  <2>4. mem \in Mems /\ Chain(mem, {}) /\ ScanOK
    BY <1>1, <2>3, ListFacts
  <2>5. b \in Ring(mem) /\ b \in Addr
    BY <2>4, WalkOK DEF Ring, Lk
  <2>6. CASE b = p
    <3>1. mem[p].size \in Nat
      BY <2>3, <2>4, MemFields
    <3> QED BY <2>2, <2>3, <2>6, <3>1 DEF Fits
  <2>7. CASE b # p
    <3>1. Passed(b)
      BY <2>2, <2>3, <2>5, <2>7, Addresses DEF Passed
    <3> QED BY <2>4, <2>5, <3>1 DEF ScanOK
  <2> QED BY <2>6, <2>7
<1> QED BY <1>1, MAlways, PTL DEF Spec, NullMeansNoFit

=============================================================================
