--------------------------- MODULE UserTestsProofs ---------------------------
(***************************************************************************)
(* Proofs about the user tests, for every number of processes, places in   *)
(* the buffer, readers, blocks, slots and rounds, and every maze.  Each     *)
(* test has an inductive invariant of its own; the parts that do not run   *)
(* do not change.                                                          *)
(***************************************************************************)
EXTENDS UserTests, FiniteSetTheorems, SequenceTheorems, TLAPS

-----------------------------------------------------------------------------
(* Semaphores.                                                             *)

\* A semaphore on which processes of S wait, each of them once.
SemIs(v, w, S) ==
  /\ v \in Int /\ w \in Seq(S)
  /\ Len(w) = IF v < 0 THEN -v ELSE 0
  /\ \A i, j \in 1 .. Len(w) : w[i] = w[j] => i = j
SemOK(m, S) == SemIs(m.value, m.wait_list, S)

\* sem_p lets p pass, or puts it at the end of the wait list.
LEMMA SemP ==
  ASSUME NEW S, NEW m, SemOK(m, S), NEW p \in S, ~Waits(m, p)
  PROVE  /\ SemOK(sem_p(m, p), S) /\ sem_p(m, p).value = m.value - 1
         /\ \A q : Waits(sem_p(m, p), q) <=> Waits(m, q) \/ (q = p /\ m.value <= 0)
<1> DEFINE w == m.wait_list
           x == Append(w, p)
<1>1. /\ m.value \in Int /\ w \in Seq(S)
      /\ Len(w) = IF m.value < 0 THEN -m.value ELSE 0
      /\ \A i, j \in 1 .. Len(w) : w[i] = w[j] => i = j
      /\ \A i \in 1 .. Len(w) : w[i] # p
  BY DEF SemOK, SemIs, Waits
<1>2. /\ x \in Seq(S) /\ Len(x) = Len(w) + 1 /\ x[Len(w) + 1] = p
      /\ \A i \in 1 .. Len(w) : x[i] = w[i]
  BY <1>1
<1>3. \A i, j \in 1 .. Len(x) : x[i] = x[j] => i = j
  BY <1>1, <1>2
<1>4. \A q : (\E i \in 1 .. Len(x) : x[i] = q) <=> (\E i \in 1 .. Len(w) : w[i] = q) \/ q = p
  BY <1>1, <1>2
<1> HIDE DEF x, w
<1>5. CASE m.value <= 0
  <2>1. sem_p(m, p).value = m.value - 1 /\ sem_p(m, p).wait_list = x
    BY <1>1, <1>5 DEF sem_p, x, w
  <2>2. SemOK(sem_p(m, p), S)
    <3>1. SemIs(m.value - 1, x, S)
      BY <1>1, <1>2, <1>3, <1>5 DEF SemIs
    <3> QED BY <2>1, <3>1 DEF SemOK
  <2>3. \A q : Waits(sem_p(m, p), q) <=> Waits(m, q) \/ q = p
    BY <1>4, <2>1 DEF Waits, w
  <2> QED BY <1>5, <2>1, <2>2, <2>3
<1>6. CASE m.value > 0
  <2>1. sem_p(m, p).value = m.value - 1 /\ sem_p(m, p).wait_list = w
    BY <1>1, <1>6 DEF sem_p, w
  <2> QED BY <1>1, <1>6, <2>1 DEF SemOK, SemIs, Waits, w
<1> QED BY <1>1, <1>5, <1>6

\* sem_v wakes the process that has waited longest, if there is one.
LEMMA SemV ==
  ASSUME NEW S, NEW m, SemOK(m, S)
  PROVE  /\ SemOK(sem_v(m), S) /\ sem_v(m).value = m.value + 1
         /\ m.value < 0 => \E h \in S : /\ Waits(m, h)
                                        /\ \A q : Waits(sem_v(m), q) <=> Waits(m, q) /\ q # h
         /\ m.value >= 0 => \A q : ~Waits(sem_v(m), q) /\ ~Waits(m, q)
<1> DEFINE w == m.wait_list
           x == Tail(w)
<1>1. /\ m.value \in Int /\ w \in Seq(S)
      /\ Len(w) = IF m.value < 0 THEN -m.value ELSE 0
      /\ \A i, j \in 1 .. Len(w) : w[i] = w[j] => i = j
  BY DEF SemOK, SemIs
<1>2. CASE m.value < 0
  <2>1. w # <<>> /\ Len(w) \in Nat \ {0} /\ w[1] \in S
    BY <1>1, <1>2
  <2>2. x \in Seq(S) /\ Len(x) = Len(w) - 1 /\ \A i \in 1 .. Len(x) : x[i] = w[i + 1]
    BY <1>1, <2>1, HeadTailProperties
  <2>3. sem_v(m).value = m.value + 1 /\ sem_v(m).wait_list = x
    BY <1>1, <1>2 DEF sem_v
  <2> HIDE DEF x, w
  <2>4. \A i, j \in 1 .. Len(x) : x[i] = x[j] => i = j
    <3> SUFFICES ASSUME NEW i \in 1 .. Len(x), NEW j \in 1 .. Len(x), x[i] = x[j]
                 PROVE  i = j
      OBVIOUS
    <3>1. i + 1 \in 1 .. Len(w) /\ j + 1 \in 1 .. Len(w) /\ w[i + 1] = w[j + 1]
      BY <2>1, <2>2
    <3>2. i + 1 = j + 1
      BY <3>1, <1>1
    <3> QED BY <3>2
  <2>5. \A q : (\E i \in 1 .. Len(x) : x[i] = q) <=> (\E i \in 1 .. Len(w) : w[i] = q) /\ q # w[1]
    <3> SUFFICES ASSUME NEW q
                 PROVE  (\E i \in 1 .. Len(x) : x[i] = q) <=> (\E i \in 1 .. Len(w) : w[i] = q) /\ q # w[1]
      OBVIOUS
    <3>1. ASSUME NEW i \in 1 .. Len(x), x[i] = q
          PROVE  (\E k \in 1 .. Len(w) : w[k] = q) /\ q # w[1]
      <4>1. i + 1 \in 1 .. Len(w) /\ w[i + 1] = q /\ 1 \in 1 .. Len(w) /\ i + 1 # 1
        BY <3>1, <2>1, <2>2
      <4> QED BY <4>1, <1>1
    <3>2. ASSUME NEW i \in 1 .. Len(w), w[i] = q, q # w[1]
          PROVE  \E k \in 1 .. Len(x) : x[k] = q
      <4>1. i - 1 \in 1 .. Len(x) /\ x[i - 1] = w[i - 1 + 1] /\ i - 1 + 1 = i
        BY <3>2, <2>1, <2>2
      <4> QED BY <4>1, <3>2
    <3> QED BY <3>1, <3>2
  <2>6. SemOK(sem_v(m), S) /\ sem_v(m).value = m.value + 1
    BY <1>1, <1>2, <2>2, <2>3, <2>4 DEF SemOK, SemIs
  <2>7. Waits(m, w[1])
    BY <2>1 DEF Waits, w
  <2>8. \A q : Waits(sem_v(m), q) <=> Waits(m, q) /\ q # w[1]
    BY <2>3, <2>5 DEF Waits, w
  <2> QED BY <1>1, <1>2, <2>1, <2>6, <2>7, <2>8
<1>3. CASE m.value >= 0
  <2>1. sem_v(m).value = m.value + 1 /\ sem_v(m).wait_list = w /\ Len(w) = 0
    BY <1>1, <1>3 DEF sem_v
  <2> HIDE DEF w
  <2>2. 1 .. Len(w) = {}
    BY <2>1
  <2> QED BY <1>1, <1>3, <2>1, <2>2 DEF SemOK, SemIs, Waits, w
<1> QED BY <1>1, <1>2, <1>3

-----------------------------------------------------------------------------
(* producer.c.  Places in the buffer are neither made nor lost: one is     *)
(* open at the semaphore, or a process has taken it and not yet used it,   *)
(* or has used it and not yet given it on.  That holds of the free places  *)
(* (empty) and of the lines that are in the buffer (full).                 *)

Sems == {"empty", "full", "mutex"}
Sides == {"empty", "full"}
\* The semaphore that counts what p takes.
Mine(p) == IF p \in Producers THEN "empty" ELSE "full"

Holding(s) == {p \in Procs : Mine(p) = s /\ pc[p] \in {"mutex", "use"} /\ ~Waits(sem[s], p)}
Giving(s) == {p \in Procs : Mine(p) # s /\ pc[p] \in {"used", "second"}}
Open(s) == IF sem[s].value > 0 THEN sem[s].value ELSE 0
Stock(s) == Open(s) + Cardinality(Holding(s)) + Cardinality(Giving(s))

\* The processes between P(mutex) and V(mutex) that do not wait.
Within == {p \in Procs : pc[p] = "used" \/ (pc[p] = "use" /\ ~Waits(sem["mutex"], p))}

PTypes ==
  /\ sem = [s \in Sems |-> sem[s]]
  /\ \A s \in Sems : SemOK(sem[s], Procs)
  /\ pc \in [Procs -> {"none", "first", "mutex", "use", "used", "second"}]
  /\ main \in {"fork", "spin", "abort"}
  /\ count \in Int
WaitPlaces ==
  \A p \in Procs :
    /\ \A s \in Sides : Waits(sem[s], p) => Mine(p) = s /\ pc[p] = "mutex"
    /\ Waits(sem["mutex"], p) => pc[p] = "use"
ForkOrder == \E k \in 0 .. (PRODUCER_NUM + COMSUMER_NUM) : Forked = 1 .. k
Stocks == Stock("empty") = BUF_SIZE - count /\ Stock("full") = count
OneWithin ==
  \/ sem["mutex"].value = 1 /\ Within = {}
  \/ sem["mutex"].value <= 0 /\ \E p \in Procs : Within = {p}
PInv == PTypes /\ WaitPlaces /\ ForkOrder /\ Stocks /\ OneWithin

LEMMA ProcsFinite ==
  ASSUME NEW S \in SUBSET Procs
  PROVE  /\ IsFiniteSet(S) /\ Cardinality(S) \in Nat
         /\ \A x : x \notin S => Cardinality(S \cup {x}) = Cardinality(S) + 1
         /\ \A x \in S : Cardinality(S \ {x}) = Cardinality(S) - 1
<1>1. IsFiniteSet(Procs)
  BY ProducerAssumption, FS_Interval DEF Procs
<1>2. IsFiniteSet(S)
  BY <1>1, FS_Subset
<1> QED BY <1>2, FS_CardinalityType, FS_AddElement, FS_RemoveElement

LEMMA SidesOf ==
  ASSUME NEW p \in Procs
  PROVE  /\ Mine(p) \in Sides /\ Takes(p)[1] = Mine(p) /\ Takes(p)[2] = "mutex"
         /\ Gives(p)[1] = "mutex" /\ Gives(p)[2] \in Sides /\ Gives(p)[2] # Mine(p)
         /\ p \in Producers <=> Mine(p) = "empty"
         /\ p \in Consumers <=> Mine(p) = "full"
BY ProducerAssumption DEF Mine, Sides, Takes, Gives, Producers, Consumers, Procs

LEMMA ProducerInit == Init => PInv
<1> SUFFICES ASSUME Init PROVE PInv
  OBVIOUS
<1>1. /\ sem["empty"] = sem_open(BUF_SIZE) /\ sem["full"] = sem_open(0) /\ sem["mutex"] = sem_open(1)
      /\ sem = [s \in Sems |-> sem[s]]
  BY DEF Init, Sems
<1>2. ASSUME NEW v \in Nat
      PROVE  /\ SemOK(sem_open(v), Procs) /\ sem_open(v).value = v
             /\ \A p : ~Waits(sem_open(v), p)
  BY DEF SemOK, SemIs, sem_open, Waits
<1>3. /\ \A s \in Sems : SemOK(sem[s], Procs) /\ \A p : ~Waits(sem[s], p)
      /\ sem["empty"].value = BUF_SIZE /\ sem["full"].value = 0 /\ sem["mutex"].value = 1
  BY <1>1, <1>2, ProducerAssumption DEF Sems
<1>4. pc = [p \in Procs |-> "none"] /\ main = "fork" /\ count = 0
  BY DEF Init
<1>5. \A s : Holding(s) = {} /\ Giving(s) = {}
  BY <1>4 DEF Holding, Giving
<1>6. Within = {} /\ Forked = {}
  BY <1>4 DEF Within, Forked
<1>7. Stocks
  <2>1. Cardinality({}) = 0
    BY FS_EmptySet
  <2>2. \A s : Stock(s) = Open(s) + 0 + 0
    BY <1>5, <2>1 DEF Stock
  <2>3. Open("empty") = BUF_SIZE /\ Open("full") = 0
    BY <1>3, ProducerAssumption DEF Open
  <2> QED BY <1>4, <2>2, <2>3, ProducerAssumption DEF Stocks
<1>8. ForkOrder
  <2>1. 0 \in 0 .. (PRODUCER_NUM + COMSUMER_NUM) /\ 1 .. 0 = {}
    BY ProducerAssumption
  <2> QED BY <1>6, <2>1 DEF ForkOrder
<1>9. PTypes
  BY <1>1, <1>3, <1>4 DEF PTypes
<1>10. WaitPlaces
  BY <1>3 DEF WaitPlaces, Sides, Sems
<1> QED BY <1>3, <1>6, <1>7, <1>8, <1>9, <1>10 DEF PInv, OneWithin

Places == {"none", "first", "mutex", "use", "used", "second"}

\* p moves from one place to another, and nothing else of pc and main changes.
Moved(p, from, to) ==
  /\ pc[p] = from /\ pc'[p] = to /\ \A q \in Procs : q # p => pc'[q] = pc[q]
  /\ \A s \in Sems : ~Waits(sem[s], p)
  /\ main' = main /\ PTypes' /\ Forked' = Forked

LEMMA Moves ==
  ASSUME PTypes, NEW p \in Procs, NEW from \in Places \ {"none"}, NEW to \in Places \ {"none"},
         At(p, from), pc' = [pc EXCEPT ![p] = to], main' = main, count' \in Int,
         sem' = [s \in Sems |-> sem'[s]], \A s \in Sems : SemOK(sem'[s], Procs)
  PROVE  Moved(p, from, to)
<1>1. pc[p] = from /\ pc'[p] = to /\ \A q \in Procs : q # p => pc'[q] = pc[q]
  BY DEF PTypes, At
<1>2. DOMAIN sem = Sems
  BY DEF PTypes
<1>3. \A s \in Sems : ~Waits(sem[s], p)
  BY <1>2 DEF At
<1>4. PTypes'
  BY DEF PTypes, Places
<1>5. Forked' = Forked
  BY <1>1 DEF Forked
<1> QED BY <1>1, <1>3, <1>4, <1>5 DEF Moved

LEMMA PEffect ==
  ASSUME PTypes, NEW p \in Procs, NEW t \in Sems,
         NEW from \in Places \ {"none"}, NEW to \in Places \ {"none"}, P(p, t, from, to)
  PROVE  /\ Moved(p, from, to) /\ count' = count
         /\ \A s \in Sems : s # t => sem'[s] = sem[s]
         /\ sem'[t].value = sem[t].value - 1
         /\ \A q : Waits(sem'[t], q) <=> Waits(sem[t], q) \/ (q = p /\ sem[t].value <= 0)
<1>1. At(p, from) /\ pc' = [pc EXCEPT ![p] = to] /\ main' = main /\ count' = count
  BY DEF P
<1>2. DOMAIN sem = Sems /\ SemOK(sem[t], Procs) /\ count \in Int
  BY DEF PTypes
<1>3. sem' = [sem EXCEPT ![t] = sem_p(sem[t], p)]
  BY DEF P
<1>4. /\ sem' = [s \in Sems |-> sem'[s]]
      /\ sem'[t] = sem_p(sem[t], p) /\ \A s \in Sems : s # t => sem'[s] = sem[s]
  BY <1>2, <1>3
<1>5. ~Waits(sem[t], p)
  BY <1>1, <1>2 DEF At
<1>6. /\ SemOK(sem'[t], Procs) /\ sem'[t].value = sem[t].value - 1
      /\ \A q : Waits(sem'[t], q) <=> Waits(sem[t], q) \/ (q = p /\ sem[t].value <= 0)
  BY <1>2, <1>4, <1>5, SemP
<1>7. \A s \in Sems : SemOK(sem'[s], Procs)
  BY <1>4, <1>6 DEF PTypes
<1> QED BY <1>1, <1>2, <1>4, <1>6, <1>7, Moves

LEMMA VEffect ==
  ASSUME PTypes, NEW p \in Procs, NEW t \in Sems,
         NEW from \in Places \ {"none"}, NEW to \in Places \ {"none"}, V(p, t, from, to)
  PROVE  /\ Moved(p, from, to) /\ count' = count
         /\ \A s \in Sems : s # t => sem'[s] = sem[s]
         /\ sem'[t].value = sem[t].value + 1
         /\ sem[t].value < 0 => \E h \in Procs : /\ Waits(sem[t], h)
                                                 /\ \A q : Waits(sem'[t], q) <=> Waits(sem[t], q) /\ q # h
         /\ sem[t].value >= 0 => \A q : ~Waits(sem'[t], q) /\ ~Waits(sem[t], q)
<1>1. At(p, from) /\ pc' = [pc EXCEPT ![p] = to] /\ main' = main /\ count' = count
  BY DEF V
<1>2. DOMAIN sem = Sems /\ SemOK(sem[t], Procs) /\ count \in Int
  BY DEF PTypes
<1>3. sem' = [sem EXCEPT ![t] = sem_v(sem[t])]
  BY DEF V
<1>4. /\ sem' = [s \in Sems |-> sem'[s]]
      /\ sem'[t] = sem_v(sem[t]) /\ \A s \in Sems : s # t => sem'[s] = sem[s]
  BY <1>2, <1>3
<1>5. SemOK(sem'[t], Procs)
  BY <1>2, <1>4, SemV
<1>6. \A s \in Sems : SemOK(sem'[s], Procs)
  BY <1>4, <1>5 DEF PTypes
<1>7. Moved(p, from, to)
  BY <1>1, <1>2, <1>4, <1>6, Moves
<1>8. /\ sem_v(sem[t]).value = sem[t].value + 1
      /\ sem[t].value < 0 => \E h \in Procs : /\ Waits(sem[t], h)
                                              /\ \A q : Waits(sem_v(sem[t]), q) <=> Waits(sem[t], q) /\ q # h
      /\ sem[t].value >= 0 => \A q : ~Waits(sem_v(sem[t]), q) /\ ~Waits(sem[t], q)
  BY <1>2, SemV
<1> QED BY <1>1, <1>4, <1>7, <1>8, Zenon

LEMMA FirstStep ==
  ASSUME PInv, NEW p \in Procs, P_first(p)
  PROVE  PInv'
<1> DEFINE t == Mine(p)
<1>1. t \in Sides /\ t \in Sems /\ t # "mutex"
  BY SidesOf DEF Sides, Sems
<1>2. /\ Moved(p, "first", "mutex") /\ count' = count
      /\ \A s \in Sems : s # t => sem'[s] = sem[s]
      /\ sem'[t].value = sem[t].value - 1
      /\ \A q : Waits(sem'[t], q) <=> Waits(sem[t], q) \/ (q = p /\ sem[t].value <= 0)
  <2>1. P(p, t, "first", "mutex") /\ PTypes
    BY SidesOf DEF P_first, PInv
  <2> QED BY <1>1, <2>1, PEffect DEF Places
<1>3. sem'["mutex"] = sem["mutex"] /\ sem[t].value \in Int
  BY <1>1, <1>2 DEF Sems, PInv, PTypes, SemOK, SemIs
<1> HIDE DEF t
<1>4. WaitPlaces'
  <2>1. \A q \in Procs : \A s \in Sides : Waits(sem'[s], q) => Mine(q) = s /\ pc'[q] = "mutex"
    BY <1>1, <1>2 DEF PInv, WaitPlaces, Moved, Sides, Sems, t
  <2>2. \A q \in Procs : Waits(sem'["mutex"], q) => pc'[q] = "use"
    BY <1>2, <1>3 DEF PInv, WaitPlaces, Moved, Sems
  <2> QED BY <2>1, <2>2 DEF WaitPlaces
<1>5. \A s \in Sides : Giving(s)' = Giving(s)
  BY <1>2 DEF Giving, Moved
<1>6. \A s \in Sides : s # t => Stock(s)' = Stock(s)
  <2> SUFFICES ASSUME NEW s \in Sides, s # t PROVE Stock(s)' = Stock(s)
    OBVIOUS
  <2>1. sem'[s] = sem[s] /\ Mine(p) # s
    BY <1>2 DEF Sides, Sems, t
  <2>2. Holding(s)' = Holding(s)
    BY <1>2, <2>1 DEF Holding, Moved
  <2> QED BY <1>5, <2>1, <2>2 DEF Stock, Open
<1>7. Stock(t)' = Stock(t)
  <2>1. CASE sem[t].value > 0
    <3>1. p \notin Holding(t) /\ Holding(t)' = Holding(t) \cup {p}
      <4>1. (\A q : Waits(sem'[t], q) <=> Waits(sem[t], q)) /\ ~Waits(sem[t], p)
        BY <1>1, <1>2, <1>3, <2>1 DEF Moved
      <4>2. pc[p] = "first" /\ pc'[p] = "mutex" /\ \A q \in Procs : q # p => pc'[q] = pc[q]
        BY <1>2 DEF Moved
      <4> QED BY <4>1, <4>2 DEF Holding, t
    <3>2. Cardinality(Holding(t)') = Cardinality(Holding(t)) + 1 /\ Cardinality(Holding(t)) \in Nat
      BY <3>1, ProcsFinite DEF Holding
    <3>3. Open(t)' = Open(t) - 1 /\ Open(t) \in Int
      BY <1>2, <1>3, <2>1 DEF Open
    <3>4. Cardinality(Giving(t)) \in Nat
      BY ProcsFinite DEF Giving
    <3> QED BY <1>1, <1>5, <3>2, <3>3, <3>4 DEF Stock
  <2>2. CASE sem[t].value <= 0
    <3>1. Holding(t)' = Holding(t)
      BY <1>2, <1>3, <2>2 DEF Holding, Moved, t
    <3>2. Open(t)' = Open(t)
      BY <1>2, <1>3, <2>2 DEF Open
    <3> QED BY <1>1, <1>5, <3>1, <3>2 DEF Stock
  <2> QED BY <1>3, <2>1, <2>2
<1>8. Stocks'
  BY <1>1, <1>2, <1>6, <1>7 DEF PInv, Stocks, Sides
<1>9. Within' = Within
  BY <1>2, <1>3 DEF Within, Moved
<1> QED BY <1>2, <1>3, <1>4, <1>8, <1>9 DEF PInv, Moved, OneWithin, ForkOrder

LEMMA MutexStep ==
  ASSUME PInv, NEW p \in Procs, P_mutex(p)
  PROVE  PInv'
<1> DEFINE v == sem["mutex"].value
<1>1. /\ Moved(p, "mutex", "use") /\ count' = count
      /\ \A s \in Sems : s # "mutex" => sem'[s] = sem[s]
      /\ sem'["mutex"].value = v - 1
      /\ \A q : Waits(sem'["mutex"], q) <=> Waits(sem["mutex"], q) \/ (q = p /\ v <= 0)
  <2>1. P(p, "mutex", "mutex", "use") /\ PTypes
    BY SidesOf DEF P_mutex, PInv
  <2> QED BY <2>1, PEffect DEF Places, Sems
<1>2. v \in Int /\ \A s \in Sides : sem'[s] = sem[s]
  BY <1>1 DEF Sems, Sides, PInv, PTypes, SemOK, SemIs
<1> HIDE DEF v
<1>3. WaitPlaces'
  <2>1. \A q \in Procs : \A s \in Sides : Waits(sem'[s], q) => Mine(q) = s /\ pc'[q] = "mutex"
    BY <1>1, <1>2 DEF PInv, WaitPlaces, Moved, Sides, Sems
  <2>2. \A q \in Procs : Waits(sem'["mutex"], q) => pc'[q] = "use"
    BY <1>1 DEF PInv, WaitPlaces, Moved, Sems
  <2> QED BY <2>1, <2>2 DEF WaitPlaces
<1>4. Stocks'
  <2>1. \A s \in Sides : Holding(s)' = Holding(s) /\ Giving(s)' = Giving(s) /\ Open(s)' = Open(s)
    BY <1>1, <1>2 DEF Holding, Giving, Open, Moved, Sides, Sems
  <2> QED BY <1>1, <2>1 DEF PInv, Stocks, Stock, Sides
<1>5. OneWithin'
  <2>1. CASE v > 0
    <3>1. v = 1 /\ Within = {}
      BY <1>2, <2>1 DEF PInv, OneWithin, v
    <3>2. Within' = Within \cup {p}
      <4>1. /\ \A q : Waits(sem'["mutex"], q) <=> Waits(sem["mutex"], q)
            /\ ~Waits(sem["mutex"], p)
        BY <1>1, <1>2, <2>1 DEF Moved, Sems
      <4>2. pc'[p] = "use" /\ \A q \in Procs : q # p => pc'[q] = pc[q]
        BY <1>1 DEF Moved
      <4> QED BY <4>1, <4>2 DEF Within
    <3> QED BY <1>1, <3>1, <3>2 DEF OneWithin
  <2>2. CASE v <= 0
    <3>1. (\E q \in Procs : Within = {q}) /\ v - 1 <= 0
      BY <1>2, <2>2 DEF PInv, OneWithin, v
    <3>2. Within' = Within
      BY <1>1, <2>2 DEF Within, Moved, Sems
    <3> QED BY <1>1, <3>1, <3>2 DEF OneWithin
  <2> QED BY <1>2, <2>1, <2>2
<1> QED BY <1>1, <1>3, <1>4, <1>5 DEF PInv, Moved, ForkOrder

LEMMA UseStep ==
  ASSUME PInv, NEW p \in Procs, put(p) \/ take(p)
  PROVE  PInv'
<1> DEFINE s == Mine(p)
           o == Gives(p)[2]
<1>1. s \in Sides /\ o \in Sides /\ s # o /\ Sides = {s, o} /\ Sides \subseteq Sems
  BY SidesOf DEF Sides, Sems
<1>2. Moved(p, "use", "used") /\ sem' = sem
  <2>1. At(p, "use") /\ pc' = [pc EXCEPT ![p] = "used"] /\ main' = main /\ sem' = sem
    BY DEF put, take
  <2>2. PTypes /\ count' \in Int
    BY DEF put, take, PInv, PTypes
  <2>3. sem' = [x \in Sems |-> sem'[x]] /\ \A x \in Sems : SemOK(sem'[x], Procs)
    BY <2>1, <2>2 DEF PTypes
  <2> QED BY <2>1, <2>2, <2>3, Moves DEF Places
<1>3. count \in Int /\ count' = IF s = "empty" THEN count + 1 ELSE count - 1
  BY SidesOf DEF PInv, PTypes, put, take
<1> HIDE DEF s, o
<1>4. WaitPlaces'
  BY <1>1, <1>2 DEF PInv, WaitPlaces, Moved, Sems
<1>5. p \in Holding(s) /\ Holding(s)' = Holding(s) \ {p} /\ Holding(o)' = Holding(o)
  BY <1>1, <1>2 DEF Holding, Moved, s
<1>6. p \notin Giving(o) /\ Giving(o)' = Giving(o) \cup {p} /\ Giving(s)' = Giving(s)
  BY <1>1, <1>2 DEF Giving, Moved, s
<1>7. /\ Cardinality(Holding(s)') = Cardinality(Holding(s)) - 1 /\ Cardinality(Holding(s)) \in Nat
      /\ Cardinality(Giving(o)') = Cardinality(Giving(o)) + 1 /\ Cardinality(Giving(o)) \in Nat
      /\ Cardinality(Holding(o)) \in Nat /\ Cardinality(Giving(s)) \in Nat
  <2>1. Holding(s) \in SUBSET Procs /\ Holding(o) \in SUBSET Procs
    BY DEF Holding
  <2>2. Giving(s) \in SUBSET Procs /\ Giving(o) \in SUBSET Procs
    BY DEF Giving
  <2> QED BY <1>5, <1>6, <2>1, <2>2, ProcsFinite
<1>8. Open(s)' = Open(s) /\ Open(o)' = Open(o) /\ Open(s) \in Int /\ Open(o) \in Int
  BY <1>1, <1>2 DEF Open, PInv, PTypes, SemOK, SemIs
<1>9. Stock(s)' = Stock(s) - 1 /\ Stock(o)' = Stock(o) + 1
  BY <1>5, <1>6, <1>7, <1>8 DEF Stock
<1>10. Stocks'
  <2>1. CASE s = "empty" /\ o = "full"
    BY <1>3, <1>9, <2>1, ProducerAssumption DEF Stocks, PInv
  <2>2. CASE s = "full" /\ o = "empty"
    BY <1>3, <1>9, <2>2, ProducerAssumption DEF Stocks, PInv
  <2> QED BY <1>1, <2>1, <2>2 DEF Sides
<1>11. Within' = Within
  BY <1>2 DEF Within, Moved, Sems
<1> QED BY <1>2, <1>4, <1>10, <1>11 DEF PInv, Moved, OneWithin, ForkOrder

LEMMA LeaveStep ==
  ASSUME PInv, NEW p \in Procs, V_mutex(p)
  PROVE  PInv'
<1> DEFINE v == sem["mutex"].value
<1>1. /\ Moved(p, "used", "second") /\ count' = count
      /\ \A s \in Sems : s # "mutex" => sem'[s] = sem[s]
      /\ sem'["mutex"].value = v + 1
      /\ v < 0 => \E h \in Procs : /\ Waits(sem["mutex"], h)
                                   /\ \A q : Waits(sem'["mutex"], q) <=> Waits(sem["mutex"], q) /\ q # h
      /\ v >= 0 => \A q : ~Waits(sem'["mutex"], q) /\ ~Waits(sem["mutex"], q)
  <2>1. V(p, "mutex", "used", "second") /\ PTypes
    BY SidesOf DEF V_mutex, PInv
  <2> QED BY <2>1, VEffect DEF Places, Sems
<1>2. v \in Int /\ \A s \in Sides : sem'[s] = sem[s]
  BY <1>1 DEF Sems, Sides, PInv, PTypes, SemOK, SemIs
<1> HIDE DEF v
<1>3. WaitPlaces'
  <2>1. \A q \in Procs : \A s \in Sides : Waits(sem'[s], q) => Mine(q) = s /\ pc'[q] = "mutex"
    BY <1>1, <1>2 DEF PInv, WaitPlaces, Moved, Sides, Sems
  <2>2. \A q \in Procs : Waits(sem'["mutex"], q) => Waits(sem["mutex"], q) /\ q # p
    BY <1>1, <1>2 DEF PInv, WaitPlaces, Moved, Sems
  <2>3. \A q \in Procs : Waits(sem'["mutex"], q) => pc'[q] = "use"
    BY <1>1, <2>2 DEF PInv, WaitPlaces, Moved
  <2> QED BY <2>1, <2>3 DEF WaitPlaces
<1>4. Stocks'
  <2>1. \A s \in Sides : Holding(s)' = Holding(s) /\ Giving(s)' = Giving(s) /\ Open(s)' = Open(s)
    BY <1>1, <1>2 DEF Holding, Giving, Open, Moved, Sides, Sems
  <2> QED BY <1>1, <2>1 DEF PInv, Stocks, Stock, Sides
<1>5. Within = {p} /\ v <= 0
  <2>1. p \in Within
    BY <1>1 DEF Within, Moved
  <2> QED BY <2>1 DEF PInv, OneWithin, v
<1>6. OneWithin'
  <2>1. CASE v < 0
    <3>1. PICK h \in Procs : /\ Waits(sem["mutex"], h)
                             /\ \A q : Waits(sem'["mutex"], q) <=> Waits(sem["mutex"], q) /\ q # h
      BY <1>1, <2>1
    <3>2. pc[h] = "use" /\ pc'[h] = "use" /\ h # p
      BY <1>1, <3>1 DEF PInv, WaitPlaces, Moved
    <3>3. \A q \in Procs : q \in Within' <=> q = h
      BY <1>1, <1>5, <3>1, <3>2 DEF Within, Moved
    <3>4. Within' = {h}
      BY <3>2, <3>3 DEF Within
    <3> QED BY <1>1, <1>2, <2>1, <3>4 DEF OneWithin
  <2>2. CASE v = 0
    <3>1. \A q : ~Waits(sem'["mutex"], q) /\ ~Waits(sem["mutex"], q)
      BY <1>1, <2>2
    <3>2. \A q \in Procs : q \notin Within'
      BY <1>1, <1>5, <3>1 DEF Within, Moved
    <3>3. Within' = {}
      BY <3>2 DEF Within
    <3> QED BY <1>1, <2>2, <3>3 DEF OneWithin
  <2> QED BY <1>2, <1>5, <2>1, <2>2
<1> QED BY <1>1, <1>3, <1>4, <1>6 DEF PInv, Moved, ForkOrder

LEMMA GiveStep ==
  ASSUME PInv, NEW p \in Procs, V_second(p)
  PROVE  PInv'
<1> DEFINE t == Gives(p)[2]
           v == sem[t].value
<1>1. t \in Sides /\ t \in Sems /\ t # "mutex" /\ Mine(p) # t /\ Sides = {t, Mine(p)}
  BY SidesOf DEF Sides, Sems
<1>2. /\ Moved(p, "second", "first") /\ count' = count
      /\ \A s \in Sems : s # t => sem'[s] = sem[s]
      /\ sem'[t].value = v + 1
      /\ v < 0 => \E h \in Procs : /\ Waits(sem[t], h)
                                   /\ \A q : Waits(sem'[t], q) <=> Waits(sem[t], q) /\ q # h
      /\ v >= 0 => \A q : ~Waits(sem'[t], q) /\ ~Waits(sem[t], q)
  <2>1. V(p, t, "second", "first") /\ PTypes
    BY DEF V_second, PInv
  <2> HIDE DEF t
  <2> QED BY <1>1, <2>1, VEffect DEF Places
<1>3. v \in Int /\ sem'["mutex"] = sem["mutex"]
  BY <1>1, <1>2 DEF Sems, Sides, PInv, PTypes, SemOK, SemIs
<1> HIDE DEF t
<1>4. \A q \in Procs : Waits(sem'[t], q) => Waits(sem[t], q) /\ q # p
  BY <1>1, <1>2, <1>3 DEF Moved
<1>5. WaitPlaces'
  <2>1. \A q \in Procs : \A s \in Sides : Waits(sem'[s], q) => Waits(sem[s], q) /\ q # p
    BY <1>1, <1>2, <1>4 DEF Moved, Sides, Sems
  <2>2. \A q \in Procs : \A s \in Sides : Waits(sem'[s], q) => Mine(q) = s /\ pc'[q] = "mutex"
    BY <1>2, <2>1 DEF PInv, WaitPlaces, Moved
  <2>3. \A q \in Procs : Waits(sem'["mutex"], q) => pc'[q] = "use"
    BY <1>2, <1>3 DEF PInv, WaitPlaces, Moved, Sems
  <2> QED BY <2>2, <2>3 DEF WaitPlaces
<1>6. Stock(Mine(p))' = Stock(Mine(p))
  <2>1. sem'[Mine(p)] = sem[Mine(p)]
    BY <1>1, <1>2, SidesOf DEF Sides, Sems
  <2>2. Holding(Mine(p))' = Holding(Mine(p)) /\ Giving(Mine(p))' = Giving(Mine(p))
    BY <1>2, <2>1 DEF Holding, Giving, Moved
  <2> QED BY <2>1, <2>2 DEF Stock, Open
<1>7. p \in Giving(t) /\ Giving(t)' = Giving(t) \ {p}
  BY <1>1, <1>2 DEF Giving, Moved
<1>8. /\ Cardinality(Giving(t)') = Cardinality(Giving(t)) - 1 /\ Cardinality(Giving(t)) \in Nat
      /\ Cardinality(Holding(t)) \in Nat
  BY <1>7, ProcsFinite DEF Giving, Holding
<1>9. Stock(t)' = Stock(t)
  <2>1. CASE v < 0
    <3>1. PICK h \in Procs : /\ Waits(sem[t], h)
                             /\ \A q : Waits(sem'[t], q) <=> Waits(sem[t], q) /\ q # h
      BY <1>2, <2>1
    <3>2. Mine(h) = t /\ pc[h] = "mutex" /\ pc'[h] = "mutex" /\ h # p
      BY <1>1, <1>2, <3>1 DEF PInv, WaitPlaces, Moved
    <3>3. h \notin Holding(t) /\ Holding(t)' = Holding(t) \cup {h}
      BY <1>1, <1>2, <3>1, <3>2 DEF Holding, Moved
    <3>4. Cardinality(Holding(t)') = Cardinality(Holding(t)) + 1
      BY <3>3, ProcsFinite DEF Holding
    <3>5. Open(t) = 0 /\ Open(t)' = 0
      BY <1>2, <1>3, <2>1 DEF Open
    <3> QED BY <1>8, <3>4, <3>5 DEF Stock
  <2>2. CASE v >= 0
    <3>1. \A q : ~Waits(sem'[t], q) /\ ~Waits(sem[t], q)
      BY <1>2, <2>2
    <3>2. Holding(t)' = Holding(t)
      BY <1>1, <1>2, <3>1 DEF Holding, Moved
    <3>3. Open(t)' = Open(t) + 1 /\ Open(t) \in Int
      BY <1>2, <1>3, <2>2 DEF Open
    <3> QED BY <1>8, <3>2, <3>3 DEF Stock
  <2> QED BY <1>3, <2>1, <2>2
<1>10. Stocks'
  <2>1. \A s \in Sides : Stock(s)' = Stock(s)
    BY <1>1, <1>6, <1>9
  <2> QED BY <1>2, <2>1 DEF PInv, Stocks, Sides
<1>11. Within' = Within
  BY <1>2, <1>3 DEF Within, Moved
<1> QED BY <1>2, <1>3, <1>5, <1>10, <1>11 DEF PInv, Moved, OneWithin, ForkOrder

LEMMA ForkStep ==
  ASSUME PInv, fork_s
  PROVE  PInv'
<1>1. sem' = sem /\ count' = count
  BY DEF fork_s
<1>2. CASE pc' = pc
  <2>1. PTypes'
    BY <1>1, <1>2 DEF PInv, PTypes, fork_s
  <2>2. Forked' = Forked /\ WaitPlaces' = WaitPlaces /\ Within' = Within
    BY <1>1, <1>2 DEF Forked, WaitPlaces, Within
  <2>3. \A s : Stock(s)' = Stock(s)
    BY <1>1, <1>2 DEF Stock, Open, Holding, Giving
  <2> QED BY <1>1, <2>1, <2>2, <2>3 DEF PInv, ForkOrder, Stocks, OneWithin
<1>3. CASE /\ Forked # Procs /\ main' = "fork"
           /\ pc' = [pc EXCEPT ![Cardinality(Forked) + 1] = "first"]
  <2>1. PICK k \in 0 .. (PRODUCER_NUM + COMSUMER_NUM) : Forked = 1 .. k
    BY DEF PInv, ForkOrder
  <2>2. Cardinality(Forked) = k
    BY <2>1, FS_Interval, ProducerAssumption
  <2>3. k + 1 \in Procs /\ k + 1 \notin Forked
    BY <1>3, <2>1, ProducerAssumption DEF Procs
  <2>4. /\ pc[k + 1] = "none" /\ pc'[k + 1] = "first"
        /\ \A q \in Procs : q # k + 1 => pc'[q] = pc[q]
    BY <1>3, <2>2, <2>3 DEF Forked, PInv, PTypes
  <2>5. PTypes'
    BY <1>1, <1>3 DEF PInv, PTypes
  <2>6. ForkOrder'
    <3>1. Forked' = Forked \cup {k + 1}
      BY <2>3, <2>4 DEF Forked
    <3>2. Forked' = 1 .. (k + 1) /\ k + 1 \in 0 .. (PRODUCER_NUM + COMSUMER_NUM)
      BY <2>1, <2>3, <3>1 DEF Procs
    <3> QED BY <3>2 DEF ForkOrder
  <2>7. WaitPlaces'
    BY <1>1, <2>4 DEF PInv, WaitPlaces
  <2>8. Stocks'
    <3>1. \A s : Holding(s)' = Holding(s) /\ Giving(s)' = Giving(s) /\ Open(s)' = Open(s)
      BY <1>1, <2>4 DEF Holding, Giving, Open
    <3> QED BY <1>1, <3>1 DEF PInv, Stocks, Stock
  <2>9. Within' = Within
    BY <1>1, <2>4 DEF Within
  <2> QED BY <1>1, <2>5, <2>6, <2>7, <2>8, <2>9 DEF PInv, OneWithin
<1> QED BY <1>2, <1>3 DEF fork_s

LEMMA ProducerStep ==
  ASSUME PInv, NEW a, producer(a)
  PROVE  PInv'
<1>1. CASE a = 0
  BY <1>1, ForkStep DEF producer
<1>2. CASE a # 0
  <2>1. a \in Procs /\ Step(a)
    BY <1>2 DEF producer
  <2> QED BY <2>1, FirstStep, MutexStep, UseStep, LeaveStep, GiveStep DEF Step
<1> QED BY <1>1, <1>2

LEMMA ProducerSafe == PInv => TypeOK /\ BufferBounds /\ Exclusion
<1> SUFFICES ASSUME PInv PROVE TypeOK /\ BufferBounds /\ Exclusion
  OBVIOUS
<1>1. TypeOK
  BY DEF PInv, PTypes, TypeOK, Sems, SemOK, SemIs
<1>2. ASSUME NEW s \in Sides PROVE Stock(s) \in Nat
  <2>1. sem[s].value \in Int
    BY DEF PInv, PTypes, SemOK, SemIs, Sides, Sems
  <2>2. Open(s) \in Nat
    BY <2>1 DEF Open
  <2>3. Cardinality(Holding(s)) \in Nat /\ Cardinality(Giving(s)) \in Nat
    BY ProcsFinite DEF Holding, Giving
  <2> QED BY <2>2, <2>3 DEF Stock
<1>3. BufferBounds
  <2>1. Stock("empty") \in Nat /\ Stock("full") \in Nat
    BY <1>2 DEF Sides
  <2> QED BY <2>1, ProducerAssumption DEF PInv, PTypes, Stocks, BufferBounds
<1>4. \A p \in Inside : p \in Within
  BY DEF Inside, At, Within, PInv, PTypes, Sems
<1>5. Exclusion
  BY <1>4 DEF PInv, OneWithin, Exclusion
<1> QED BY <1>1, <1>3, <1>5

\* A step of a test is a step of the program that runs, and of no other.
LEMMA OneProgram ==
  ASSUME [TestsNext]_allVars
  PROVE  /\ prog' = prog
         /\ \/ UNCHANGED allVars
            \/ \E a \in Actors :
                 \/ producer(a) \/ rmtest(a) \/ readtest(a)
                 \/ dfstest(a) \/ waittest(a) \/ forkfork(a)
BY DEF TestsNext, Act, allVars

ProducerInv == prog = "producer" => PInv

\* producer.c, for every number of producers and consumers and every size of the
\* buffer: nothing is taken from an empty buffer or put into a full one, a
\* semaphore has as many waiting processes as its value says, and one process at
\* a time is between its P(mutex) and its V(mutex).
THEOREM BufferAlwaysRight == TestsSpec => []Producer_Buffer
<1>1. TestsInit => ProducerInv
  BY ProducerInit DEF TestsInit, ProducerInv
<1>2. ProducerInv /\ [TestsNext]_allVars => ProducerInv'
  <2> SUFFICES ASSUME ProducerInv, [TestsNext]_allVars, prog = "producer" PROVE PInv'
    BY OneProgram DEF ProducerInv
  <2>1. PInv
    BY DEF ProducerInv
  <2>2. CASE UNCHANGED allVars
    <3>1. sem' = sem /\ pc' = pc /\ main' = main /\ count' = count
      BY <2>2 DEF allVars, vars
    <3>2. PTypes' /\ WaitPlaces' /\ ForkOrder' /\ Within' = Within
      BY <2>1, <3>1 DEF PInv, PTypes, WaitPlaces, ForkOrder, Forked, Within
    <3>3. \A s : Stock(s)' = Stock(s)
      BY <3>1 DEF Stock, Open, Holding, Giving
    <3> QED BY <2>1, <3>1, <3>2, <3>3 DEF PInv, Stocks, OneWithin
  <2>3. CASE \E a \in Actors : producer(a)
    BY <2>1, <2>3, ProducerStep
  <2> QED BY <2>2, <2>3, OneProgram DEF rmtest, readtest, dfstest, waittest, forkfork
<1>3. ProducerInv => Producer_Buffer
  BY ProducerSafe DEF ProducerInv, Producer_Buffer
<1> QED BY <1>1, <1>2, <1>3, PTL DEF TestsSpec

-----------------------------------------------------------------------------
(* rmtest.c.  While the file has its name nobody has passed P(sem2): the   *)
(* semaphore is not open, and a reader that came as far as its second half *)
(* waits.  What the parent does to sem1 does not matter for that.          *)

RPlaces == {"none", "open", "half1", "v", "p", "half2", "eof", "exit", "reaped", "abort"}

RTypes ==
  /\ sem = [sem1 |-> sem.sem1, sem2 |-> sem.sem2] /\ SemOK(sem.sem2, Rm!Readers)
  /\ pc \in [Rm!Readers -> RPlaces]
  /\ x1 \in {"old", "none", "new"} /\ x2 \in {<<>>, <<"b">>}
  /\ x3 \in [Rm!Readers -> {"old", "none", "new"}] /\ x4 \in [Rm!Readers -> 0 .. 2 * HALF]
RForkOrder == \E k \in 0 .. READERS : Rm!Forked = 1 .. k
RWaits == \A r \in Rm!Readers : Waits(sem.sem2, r) => pc[r] = "half2"
RNamed ==
  x1 = "old" =>
    /\ sem.sem2.value <= 0 /\ main \in {"fork", "p1", "unlink", "abort"}
    /\ \A r \in Rm!Readers :
         pc[r] \in {"half2", "eof", "exit", "reaped"} => pc[r] = "half2" /\ Waits(sem.sem2, r)
\* What reader r has read.
RReads(r) ==
  /\ x3[r] = "old" => pc[r] # "abort"
  /\ pc[r] \in {"none", "open"} => x4[r] = 0
  /\ pc[r] = "half1" => x4[r] <= HALF
  /\ pc[r] = "eof" => x4[r] = 2 * HALF
RInv == RTypes /\ RForkOrder /\ RWaits /\ RNamed /\ \A r \in Rm!Readers : RReads(r)

LEMMA RmSem ==
  /\ \A m, p : Rm!Waits(m, p) = Waits(m, p) /\ Rm!sem_p(m, p) = sem_p(m, p)
  /\ \A m : Rm!sem_v(m) = sem_v(m)
BY DEF Rm!Waits, Waits, Rm!sem_p, sem_p, Rm!sem_v, sem_v

LEMMA RmCard == \A S : Rm!Cardinality(S) = Cardinality(S)
BY DEF Rm!Cardinality, Cardinality, Rm!IsFiniteSet, IsFiniteSet

LEMMA RmInit == Rm!Init => RInv
<1> SUFFICES ASSUME Rm!Init PROVE RInv
  OBVIOUS
<1>1. /\ sem = [sem1 |-> sem.sem1, sem2 |-> sem.sem2]
      /\ sem.sem2.value = 0 /\ sem.sem2.wait_list = <<>>
  BY DEF Rm!Init, Rm!Sem2, Rm!sem_open
<1>2. SemOK(sem.sem2, Rm!Readers) /\ \A p : ~Waits(sem.sem2, p)
  <2>1. SemIs(0, <<>>, Rm!Readers)
    BY DEF SemIs
  <2> QED BY <1>1, <2>1 DEF SemOK, Waits
<1>3. /\ pc = [r \in Rm!Readers |-> "none"] /\ x3 = [r \in Rm!Readers |-> "none"]
      /\ x4 = [r \in Rm!Readers |-> 0] /\ x1 = "old" /\ x2 = <<>> /\ main = "fork"
  BY DEF Rm!Init
<1>4. RTypes
  BY <1>1, <1>2, <1>3, TestsAssumption DEF RTypes, RPlaces
<1>5. RForkOrder
  <2>1. Rm!Forked = {} /\ 1 .. 0 = {} /\ 0 \in 0 .. READERS
    BY <1>3, TestsAssumption DEF Rm!Forked
  <2> QED BY <2>1 DEF RForkOrder
<1> QED BY <1>1, <1>2, <1>3, <1>4, <1>5 DEF RInv, RWaits, RNamed, RReads

\* Reader r takes a step.
RMoved(r) == pc'[r] # "none" /\ pc[r] # "none" /\ \A q \in Rm!Readers : q # r => pc'[q] = pc[q]

LEMMA RmForked ==
  ASSUME RForkOrder, NEW r \in Rm!Readers, RMoved(r)
  PROVE  RForkOrder'
<1>1. Rm!Forked' = Rm!Forked
  BY DEF RMoved, Rm!Forked
<1> QED BY <1>1 DEF RForkOrder

LEMMA RmOpen ==
  ASSUME RInv, NEW r \in Rm!Readers, Rm!open(r)
  PROVE  RInv'
<1>1. /\ pc[r] = "open" /\ x3' = [x3 EXCEPT ![r] = x1]
      /\ pc' = [pc EXCEPT ![r] = IF x1 = "none" THEN "abort" ELSE "half1"]
      /\ sem' = sem /\ x1' = x1 /\ x2' = x2 /\ x4' = x4 /\ main' = main
  BY DEF Rm!open, Rm!At
<1>2. /\ pc'[r] \in {"abort", "half1"}
      /\ pc'[r] = "abort" => x1 = "none"
      /\ x3'[r] = x1 /\ x4[r] = 0
      /\ \A q \in Rm!Readers : q # r => pc'[q] = pc[q] /\ x3'[q] = x3[q]
  BY <1>1 DEF RInv, RTypes, RReads
<1>3. RTypes'
  BY <1>1 DEF RInv, RTypes, RPlaces
<1>4. RForkOrder'
  BY <1>1, <1>2, RmForked DEF RMoved, RInv
<1>5. RWaits' /\ RNamed'
  BY <1>1, <1>2 DEF RInv, RWaits, RNamed
<1>6. \A q \in Rm!Readers : RReads(q)'
  BY <1>1, <1>2, TestsAssumption DEF RInv, RReads
<1> QED BY <1>3, <1>4, <1>5, <1>6 DEF RInv

LEMMA RmOld ==
  /\ Rm!Blocks("old") = [i \in 1 .. 2 * HALF |-> "a"]
  /\ Len(Rm!Blocks("old")) = 2 * HALF
  /\ \A i \in 1 .. 2 * HALF : Rm!Blocks("old")[i] = "a"
<1>1. Rm!Blocks("old") = [i \in 1 .. 2 * HALF |-> "a"]
  BY DEF Rm!Blocks
<1>2. 2 * HALF \in Nat
  BY TestsAssumption
<1> QED BY <1>1, <1>2

LEMMA RmRead ==
  ASSUME RInv, NEW r \in Rm!Readers, Rm!half1(r) \/ Rm!half2(r)
  PROVE  RInv'
<1>1. /\ pc[r] \in {"half1", "half2"} /\ ~Waits(sem.sem2, r)
      /\ sem' = sem /\ x1' = x1 /\ x2' = x2 /\ x3' = x3 /\ main' = main
  BY RmSem DEF Rm!half1, Rm!half2, Rm!ReadLoop, Rm!At
<1> DEFINE end == IF pc[r] = "half1" THEN HALF ELSE 2 * HALF
           to == IF pc[r] = "half1" THEN "v" ELSE "eof"
<1>2. IF x4[r] < end
      THEN IF x4[r] < Len(Rm!Blocks(x3[r])) /\ Rm!Blocks(x3[r])[x4[r] + 1] = "a"
           THEN x4' = [x4 EXCEPT ![r] = @ + 1] /\ pc' = pc
           ELSE pc' = [pc EXCEPT ![r] = "abort"] /\ x4' = x4
      ELSE pc' = [pc EXCEPT ![r] = to] /\ x4' = x4
  BY DEF Rm!half1, Rm!half2, Rm!ReadLoop, Rm!At, Rm!FirstEnd, Rm!SecondEnd
<1>3. /\ end \in Nat /\ end <= 2 * HALF /\ x4[r] \in 0 .. 2 * HALF /\ HALF \in Nat
      /\ pc[r] = "half1" => x4[r] <= end
      /\ pc[r] = "half2" => end = 2 * HALF
  BY <1>1, TestsAssumption DEF RInv, RTypes, RReads
<1>4. /\ x1 # "old" \/ pc[r] = "half1"
      /\ pc[r] = "half1" => end = HALF /\ to = "v"
      /\ pc[r] = "half2" => to = "eof"
      /\ to \in {"v", "eof"}
  BY <1>1 DEF RInv, RNamed
<1> HIDE DEF end, to
<1>5. CASE /\ x4[r] < end /\ x4[r] < Len(Rm!Blocks(x3[r])) /\ Rm!Blocks(x3[r])[x4[r] + 1] = "a"
  <2>1. /\ pc' = pc /\ x4' = [x4 EXCEPT ![r] = @ + 1]
        /\ x4'[r] = x4[r] + 1 /\ \A q \in Rm!Readers : q # r => x4'[q] = x4[q]
    BY <1>2, <1>5 DEF RInv, RTypes
  <2>2. RTypes'
    BY <1>1, <1>3, <1>5, <2>1 DEF RInv, RTypes
  <2>3. Rm!Forked' = Rm!Forked
    BY <2>1 DEF Rm!Forked
  <2>4. \A q \in Rm!Readers : RReads(q)'
    BY <1>1, <1>3, <1>4, <1>5, <2>1 DEF RInv, RReads
  <2> QED BY <1>1, <2>1, <2>2, <2>3, <2>4 DEF RInv, RForkOrder, RWaits, RNamed
<1>6. CASE ~(/\ x4[r] < end /\ x4[r] < Len(Rm!Blocks(x3[r])) /\ Rm!Blocks(x3[r])[x4[r] + 1] = "a")
  <2>1. x4' = x4 /\ \A q \in Rm!Readers : q # r => pc'[q] = pc[q]
    BY <1>2, <1>6 DEF RInv, RTypes
  <2>2. /\ x3[r] = "old" => pc'[r] # "abort"
        /\ pc'[r] \in {"abort", to}
        /\ pc'[r] = "eof" => x4[r] = 2 * HALF
    <3>1. CASE x4[r] < end
      <4>1. pc'[r] = "abort"
        BY <1>2, <1>6, <3>1 DEF RInv, RTypes
      <4>2. x3[r] = "old" => x4[r] < Len(Rm!Blocks(x3[r])) /\ Rm!Blocks(x3[r])[x4[r] + 1] = "a"
        <5>1. x4[r] + 1 \in 1 .. 2 * HALF /\ x4[r] < 2 * HALF
          BY <1>3, <3>1
        <5> QED BY <5>1, RmOld
      <4> QED BY <1>6, <3>1, <4>1, <4>2
    <3>2. CASE ~(x4[r] < end)
      <4>1. pc'[r] = to
        BY <1>2, <3>2 DEF RInv, RTypes
      <4> QED BY <1>1, <1>3, <1>4, <3>2, <4>1
    <3> QED BY <3>1, <3>2
  <2>3. RTypes'
    <3>1. pc' \in [Rm!Readers -> RPlaces]
      BY <1>2, <1>4, <1>6 DEF RInv, RTypes, RPlaces
    <3> QED BY <1>1, <2>1, <3>1 DEF RInv, RTypes
  <2>4. RForkOrder'
    BY <1>1, <1>4, <2>1, <2>2, RmForked DEF RMoved, RInv
  <2>5. RWaits' /\ RNamed'
    BY <1>1, <1>4, <2>1, <2>2 DEF RInv, RWaits, RNamed
  <2>6. \A q \in Rm!Readers : RReads(q)'
    BY <1>1, <1>4, <2>1, <2>2 DEF RInv, RReads
  <2> QED BY <2>3, <2>4, <2>5, <2>6 DEF RInv
<1> QED BY <1>5, <1>6

LEMMA RmSignal ==
  ASSUME RInv, NEW r \in Rm!Readers, Rm!v_sem1(r)
  PROVE  RInv'
<1>1. /\ pc[r] = "v" /\ pc' = [pc EXCEPT ![r] = "p"]
      /\ sem' = [sem EXCEPT !.sem1 = Rm!sem_v(@)]
      /\ x1' = x1 /\ x2' = x2 /\ x3' = x3 /\ x4' = x4 /\ main' = main
  BY DEF Rm!v_sem1, Rm!At
<1>2. sem' = [sem1 |-> sem'.sem1, sem2 |-> sem'.sem2] /\ sem'.sem2 = sem.sem2
  BY <1>1 DEF RInv, RTypes
<1>3. pc'[r] = "p" /\ \A q \in Rm!Readers : q # r => pc'[q] = pc[q]
  BY <1>1 DEF RInv, RTypes
<1>4. RTypes'
  BY <1>1, <1>2 DEF RInv, RTypes, RPlaces
<1>5. RForkOrder'
  BY <1>1, <1>3, RmForked DEF RMoved, RInv
<1>6. RWaits' /\ RNamed'
  BY <1>1, <1>2, <1>3 DEF RInv, RWaits, RNamed
<1>7. \A q \in Rm!Readers : RReads(q)'
  BY <1>1, <1>3 DEF RInv, RReads
<1> QED BY <1>4, <1>5, <1>6, <1>7 DEF RInv

LEMMA RmWaits ==
  ASSUME RInv, NEW r \in Rm!Readers, Rm!p_sem2(r)
  PROVE  RInv'
<1> DEFINE m == sem.sem2
<1>1. /\ pc[r] = "p" /\ ~Waits(m, r) /\ pc' = [pc EXCEPT ![r] = "half2"]
      /\ sem' = [sem EXCEPT !.sem2 = sem_p(m, r)]
      /\ x1' = x1 /\ x2' = x2 /\ x3' = x3 /\ x4' = x4 /\ main' = main
  BY RmSem DEF Rm!p_sem2, Rm!At
<1>2. sem' = [sem1 |-> sem'.sem1, sem2 |-> sem'.sem2] /\ sem'.sem2 = sem_p(m, r)
  BY <1>1 DEF RInv, RTypes
<1>3. pc'[r] = "half2" /\ \A q \in Rm!Readers : q # r => pc'[q] = pc[q]
  BY <1>1 DEF RInv, RTypes
<1>4. /\ SemOK(sem'.sem2, Rm!Readers) /\ sem'.sem2.value = m.value - 1 /\ m.value \in Int
      /\ \A q : Waits(sem'.sem2, q) <=> Waits(m, q) \/ (q = r /\ m.value <= 0)
  <2>1. SemOK(m, Rm!Readers) /\ m.value \in Int
    BY DEF RInv, RTypes, SemOK, SemIs
  <2> HIDE DEF m
  <2> QED BY <1>1, <1>2, <2>1, SemP
<1> HIDE DEF m
<1>5. RTypes'
  BY <1>1, <1>2, <1>4 DEF RInv, RTypes, RPlaces
<1>6. RForkOrder'
  BY <1>1, <1>3, RmForked DEF RMoved, RInv
<1>7. RWaits'
  BY <1>3, <1>4 DEF RInv, RWaits, m
<1>8. RNamed'
  BY <1>1, <1>3, <1>4 DEF RInv, RNamed, m
<1>9. \A q \in Rm!Readers : RReads(q)'
  BY <1>1, <1>3 DEF RInv, RReads
<1> QED BY <1>5, <1>6, <1>7, <1>8, <1>9 DEF RInv

LEMMA RmEof ==
  ASSUME RInv, NEW r \in Rm!Readers, Rm!eof(r)
  PROVE  RInv'
<1>1. /\ pc[r] = "eof" /\ pc' = [pc EXCEPT ![r] = IF x4[r] = Len(Rm!Blocks(x3[r])) THEN "exit" ELSE "abort"]
      /\ sem' = sem /\ x1' = x1 /\ x2' = x2 /\ x3' = x3 /\ x4' = x4 /\ main' = main
  BY DEF Rm!eof, Rm!At
<1>2. x1 # "old" /\ x4[r] = 2 * HALF
  BY <1>1 DEF RInv, RNamed, RReads
<1>3. /\ pc'[r] \in {"exit", "abort"} /\ \A q \in Rm!Readers : q # r => pc'[q] = pc[q]
      /\ pc'[r] = "abort" => x4[r] # Len(Rm!Blocks(x3[r]))
  BY <1>1 DEF RInv, RTypes
<1>4. pc'[r] = "abort" => x3[r] # "old"
  BY <1>2, <1>3, RmOld
<1>5. RTypes'
  BY <1>1 DEF RInv, RTypes, RPlaces
<1>6. RForkOrder'
  BY <1>1, <1>3, RmForked DEF RMoved, RInv
<1>7. RWaits' /\ RNamed'
  BY <1>1, <1>2, <1>3 DEF RInv, RWaits, RNamed
<1>8. \A q \in Rm!Readers : RReads(q)'
  BY <1>1, <1>3, <1>4 DEF RInv, RReads
<1> QED BY <1>5, <1>6, <1>7, <1>8 DEF RInv

LEMMA RmFork ==
  ASSUME RInv, Rm!fork_s
  PROVE  RInv'
<1>1. /\ main = "fork" /\ main' \in {"fork", "abort", "p1"}
      /\ sem' = sem /\ x1' = x1 /\ x2' = x2 /\ x3' = x3 /\ x4' = x4
  BY DEF Rm!fork_s
<1>2. CASE pc' = pc
  <2>1. Rm!Forked' = Rm!Forked
    BY <1>2 DEF Rm!Forked
  <2> QED BY <1>1, <1>2, <2>1 DEF RInv, RTypes, RForkOrder, RWaits, RNamed, RReads
<1>3. CASE Rm!Forked # Rm!Readers /\ pc' = [pc EXCEPT ![Cardinality(Rm!Forked) + 1] = "open"]
  <2>1. PICK k \in 0 .. READERS : Rm!Forked = 1 .. k
    BY DEF RInv, RForkOrder
  <2>2. Cardinality(Rm!Forked) = k
    BY <2>1, FS_Interval, TestsAssumption
  <2>3. k + 1 \in Rm!Readers /\ k + 1 \notin Rm!Forked
    BY <1>3, <2>1, TestsAssumption DEF Rm!Readers
  <2>4. /\ pc[k + 1] = "none" /\ pc'[k + 1] = "open"
        /\ \A q \in Rm!Readers : q # k + 1 => pc'[q] = pc[q]
    BY <1>3, <2>2, <2>3 DEF Rm!Forked, RInv, RTypes
  <2>5. RTypes'
    BY <1>1, <1>3 DEF RInv, RTypes, RPlaces
  <2>6. RForkOrder'
    <3>1. Rm!Forked' = Rm!Forked \cup {k + 1}
      BY <2>3, <2>4 DEF Rm!Forked
    <3>2. Rm!Forked' = 1 .. (k + 1) /\ k + 1 \in 0 .. READERS
      BY <2>1, <2>3, <3>1 DEF Rm!Readers
    <3> QED BY <3>2 DEF RForkOrder
  <2>7. RWaits' /\ RNamed'
    BY <1>1, <2>3, <2>4 DEF RInv, RWaits, RNamed
  <2>8. \A q \in Rm!Readers : RReads(q)'
    BY <1>1, <2>3, <2>4 DEF RInv, RReads
  <2> QED BY <2>5, <2>6, <2>7, <2>8 DEF RInv
<1> QED BY <1>2, <1>3, RmCard DEF Rm!fork_s

LEMMA RmParent ==
  ASSUME RInv, Rm!test2
  PROVE  RInv'
<1>1. CASE /\ pc' = pc /\ x3' = x3 /\ x4' = x4 /\ x1' \in {"old", "none", "new"} /\ x2' \in {<<>>, <<"b">>}
           /\ sem' = [sem1 |-> sem'.sem1, sem2 |-> sem'.sem2] /\ SemOK(sem'.sem2, Rm!Readers)
           /\ \A q \in Rm!Readers : Waits(sem'.sem2, q) => Waits(sem.sem2, q)
           /\ x1' = "old" => x1 = "old" /\ sem'.sem2 = sem.sem2 /\ main' \in {"fork", "p1", "unlink", "abort"}
  <2>1. Rm!Forked' = Rm!Forked
    BY <1>1 DEF Rm!Forked
  <2>2. RTypes' /\ RForkOrder' /\ RWaits'
    BY <1>1, <2>1 DEF RInv, RTypes, RForkOrder, RWaits
  <2>3. RNamed'
    BY <1>1 DEF RInv, RNamed
  <2>4. \A q \in Rm!Readers : RReads(q)'
    BY <1>1 DEF RInv, RReads
  <2> QED BY <2>2, <2>3, <2>4 DEF RInv
<1>2. sem = [sem1 |-> sem.sem1, sem2 |-> sem.sem2] /\ SemOK(sem.sem2, Rm!Readers)
  BY DEF RInv, RTypes
<1>3. CASE Rm!p_sem1
  <2>1. /\ main = "p1" /\ main' = "unlink" /\ pc' = pc /\ x1' = x1 /\ x2' = x2 /\ x3' = x3 /\ x4' = x4
        /\ sem' = [sem EXCEPT !.sem1 = Rm!sem_p(@, "main")]
    BY <1>3 DEF Rm!p_sem1, Rm!Goes
  <2>2. sem' = [sem1 |-> sem'.sem1, sem2 |-> sem'.sem2] /\ sem'.sem2 = sem.sem2
    BY <1>2, <2>1
  <2> QED BY <1>1, <1>2, <2>1, <2>2 DEF RInv, RTypes
<1>4. CASE Rm!unlink \/ Rm!create
  BY <1>1, <1>2, <1>4 DEF Rm!unlink, Rm!create, Rm!Goes, RInv, RTypes
<1>5. CASE Rm!write
  <2>1. x1 # "old"
    BY <1>5 DEF Rm!write, Rm!Goes, RInv, RNamed
  <2> QED BY <1>1, <1>2, <1>5, <2>1 DEF Rm!write, Rm!Goes, RInv, RTypes
<1>6. ASSUME NEW v \in {"v1", "v2", "v3", "v4"}, Rm!v_sem2(v)
      PROVE  RInv'
  <2>1. /\ main = v /\ pc' = pc /\ x1' = x1 /\ x2' = x2 /\ x3' = x3 /\ x4' = x4
        /\ sem' = [sem EXCEPT !.sem2 = sem_v(sem.sem2)]
    BY <1>6, RmSem DEF Rm!v_sem2, Rm!Goes
  <2>2. x1 # "old"
    BY <2>1 DEF RInv, RNamed
  <2>3. sem' = [sem1 |-> sem'.sem1, sem2 |-> sem'.sem2] /\ sem'.sem2 = sem_v(sem.sem2)
    BY <1>2, <2>1
  <2>4. SemOK(sem'.sem2, Rm!Readers)
    BY <1>2, <2>3, SemV
  <2>5. \A q \in Rm!Readers : Waits(sem'.sem2, q) => Waits(sem.sem2, q)
    <3>1. sem.sem2.value \in Int
      BY <1>2 DEF SemOK, SemIs
    <3>2. /\ sem.sem2.value < 0 => \A q : Waits(sem_v(sem.sem2), q) => Waits(sem.sem2, q)
          /\ sem.sem2.value >= 0 => \A q : ~Waits(sem_v(sem.sem2), q)
      BY <1>2, SemV
    <3> QED BY <2>3, <3>1, <3>2
  <2> QED BY <1>1, <2>1, <2>2, <2>3, <2>4, <2>5 DEF RInv, RTypes
<1>7. CASE Rm!wait
  <2>1. main = "wait" /\ sem' = sem /\ x1' = x1 /\ x2' = x2 /\ x3' = x3 /\ x4' = x4
    BY <1>7 DEF Rm!wait, Rm!Goes
  <2>2. x1 # "old"
    BY <2>1 DEF RInv, RNamed
  <2>3. CASE pc' = pc
    BY <1>1, <1>2, <2>1, <2>2, <2>3 DEF RInv, RTypes
  <2>4. ASSUME NEW r \in Rm!Readers, pc[r] = "exit", pc' = [pc EXCEPT ![r] = "reaped"]
        PROVE  RInv'
    <3>1. pc'[r] = "reaped" /\ \A q \in Rm!Readers : q # r => pc'[q] = pc[q]
      BY <2>4 DEF RInv, RTypes
    <3>2. RTypes'
      BY <2>1, <2>4 DEF RInv, RTypes, RPlaces
    <3>3. RForkOrder'
      BY <2>4, <3>1, RmForked DEF RMoved, RInv
    <3>4. RWaits' /\ RNamed'
      BY <2>1, <2>2, <2>4, <3>1 DEF RInv, RWaits, RNamed
    <3>5. \A q \in Rm!Readers : RReads(q)'
      BY <2>1, <2>4, <3>1 DEF RInv, RReads
    <3> QED BY <3>2, <3>3, <3>4, <3>5 DEF RInv
  <2> QED BY <1>7, <2>3, <2>4 DEF Rm!wait, Rm!Goes
<1> QED BY <1>3, <1>4, <1>5, <1>6, <1>7 DEF Rm!test2

RmInv == prog = "rmtest" => RInv

\* rmtest.c, for every number of readers and of blocks: a reader that opened the
\* file while it had its name fails no assertion, and whoever reads the second
\* half or the end reads a file whose name is gone.
THEOREM OldFileAlwaysLives == TestsSpec => []Rm_OldFileLives
<1>1. TestsInit => RmInv
  BY RmInit DEF TestsInit, RmInv
<1>2. RmInv /\ [TestsNext]_allVars => RmInv'
  <2> SUFFICES ASSUME RmInv, [TestsNext]_allVars, prog = "rmtest" PROVE RInv'
    BY OneProgram DEF RmInv
  <2>1. RInv
    BY DEF RmInv
  <2>2. CASE UNCHANGED allVars
    <3>1. sem' = sem /\ pc' = pc /\ main' = main /\ x1' = x1 /\ x2' = x2 /\ x3' = x3 /\ x4' = x4
      BY <2>2 DEF allVars, vars
    <3> QED BY <2>1, <3>1 DEF RInv, RTypes, RForkOrder, Rm!Forked, RWaits, RNamed, RReads
  <2>3. ASSUME NEW a \in Actors, rmtest(a) PROVE RInv'
    <3>1. CASE a = 0
      BY <2>1, <2>3, <3>1, RmFork, RmParent DEF rmtest
    <3>2. CASE a # 0
      BY <2>1, <2>3, <3>2, RmOpen, RmRead, RmSignal, RmWaits, RmEof DEF rmtest, Rm!test1
    <3> QED BY <3>1, <3>2
  <2> QED BY <2>2, <2>3, OneProgram DEF producer, readtest, dfstest, waittest, forkfork
<1>3. RmInv => Rm_OldFileLives
  <2> SUFFICES ASSUME RInv PROVE Rm!TypeOK /\ Rm!OnlyLateReadersFail /\ Rm!ReadsUnlinkedFile
    BY DEF RmInv, Rm_OldFileLives
  <2>1. Rm!TypeOK
    BY RmSem DEF RInv, RTypes, RWaits, Rm!TypeOK
  <2>2. Rm!OnlyLateReadersFail
    BY DEF RInv, RReads, Rm!OnlyLateReadersFail
  <2>3. Rm!ReadsUnlinkedFile
    BY RmSem DEF RInv, RNamed, Rm!ReadsUnlinkedFile
  <2> QED BY <2>1, <2>2, <2>3
<1> QED BY <1>1, <1>2, <1>3, PTL DEF TestsSpec

-----------------------------------------------------------------------------
(* waittest.c.  n counts the children in the process table, which has      *)
(* fewer slots than the loop has turns.                                    *)

WInv ==
  /\ main \in {"fork", "wait", "passed"} /\ x2 \in Int /\ x3 \in Nat /\ x4 \in Nat
  /\ x1 = x3 + x4 /\ x1 <= WAIT_SLOTS

LEMMA WaitStep ==
  ASSUME WInv, W!fork \/ W!wait \/ W!exit
  PROVE  WInv'
<1>1. CASE W!fork
  BY <1>1, TestsAssumption DEF WInv, W!fork
<1>2. CASE W!wait
  BY <1>2, TestsAssumption DEF WInv, W!wait, W!MoreToWait
<1>3. CASE W!exit
  BY <1>3 DEF WInv, W!exit
<1> QED BY <1>1, <1>2, <1>3

-----------------------------------------------------------------------------
(* forkfork.c.  A failed fork leaves a trace until the verdict: a child    *)
(* that exits with 1, or the parent that does.                             *)

Reaped == {c \in F!Children : pc[c] = "reaped"}

FTypes ==
  /\ main \in {"start", "fork", "wait", "exit0", "exit1", "passed", "failed"}
  /\ x1 \in 0 .. FORK_N /\ x4 \in BOOLEAN
  /\ pc \in [F!Children -> {"none", "loop", "wait", "exit0", "exit1", "reaped"}]
  /\ x2 \in [F!Children -> 0 .. LOOPS] /\ x3 \in [F!Children -> {"none", "run", "zombie"}]
FTrace == x4 <=> main \in {"exit1", "failed"} \/ \E c \in F!Children : pc[c] = "exit1"
FPhases ==
  /\ main = "start" => x1 = 0
  /\ main \in {"start", "fork"} => Reaped = {} /\ \A c \in F!Children : c > x1 => pc[c] = "none"
  /\ main = "wait" => x1 = Cardinality(Reaped)
  /\ main \in {"exit0", "passed"} => Reaped = F!Children
\* What child c has done.
FChild(c) ==
  /\ pc[c] # "wait" => x3[c] = "none"
  /\ pc[c] = "wait" => x2[c] < LOOPS
  /\ pc[c] = "exit0" => x2[c] = LOOPS
  /\ pc[c] = "reaped" => x2[c] = LOOPS \/ main \in {"exit1", "failed"}
FInv == FTypes /\ FTrace /\ FPhases /\ \A c \in F!Children : FChild(c)

LEMMA ForksFinite ==
  /\ IsFiniteSet(F!Children) /\ Cardinality(F!Children) = FORK_N /\ Cardinality({}) = 0
  /\ \A S \in SUBSET F!Children :
       /\ Cardinality(S) \in 0 .. FORK_N
       /\ Cardinality(S) = FORK_N => S = F!Children
       /\ \A c \in F!Children : c \notin S => Cardinality(S \cup {c}) = Cardinality(S) + 1
<1>1. IsFiniteSet(F!Children) /\ Cardinality(F!Children) = FORK_N
  BY FS_Interval, TestsAssumption DEF F!Children
<1>2. Cardinality({}) = 0
  BY FS_EmptySet
<1> SUFFICES ASSUME NEW S \in SUBSET F!Children
             PROVE  /\ Cardinality(S) \in 0 .. FORK_N
                    /\ Cardinality(S) = FORK_N => S = F!Children
                    /\ \A c \in F!Children : c \notin S => Cardinality(S \cup {c}) = Cardinality(S) + 1
  BY <1>1, <1>2
<1>3. IsFiniteSet(S) /\ Cardinality(S) <= FORK_N /\ Cardinality(S) = FORK_N => S = F!Children
  BY <1>1, FS_Subset
<1>4. IsFiniteSet(S) /\ Cardinality(S) <= FORK_N
  BY <1>1, FS_Subset
<1> QED BY <1>3, <1>4, FS_CardinalityType, FS_AddElement, TestsAssumption

LEMMA ForkInit == F!Init => FInv
<1> SUFFICES ASSUME F!Init PROVE FInv
  OBVIOUS
<1>1. /\ main = "start" /\ x1 = 0 /\ ~x4 /\ x4 \in BOOLEAN
      /\ pc = [c \in F!Children |-> "none"] /\ x2 = [c \in F!Children |-> 0]
      /\ x3 = [c \in F!Children |-> "none"]
  BY DEF F!Init
<1>2. FTypes
  BY <1>1, TestsAssumption DEF FTypes
<1>3. FTrace
  BY <1>1 DEF FTrace
<1>4. Reaped = {}
  BY DEF F!Init, Reaped
<1> QED BY <1>1, <1>2, <1>3, <1>4 DEF FInv, FPhases, FChild

LEMMA ForkFork ==
  ASSUME FInv, F!fork \/ F!start
  PROVE  FInv'
<1>1. CASE F!start
  <2>1. /\ main = "start" /\ main' = "fork"
        /\ x1' = x1 /\ pc' = pc /\ x2' = x2 /\ x3' = x3 /\ x4' = x4
    BY <1>1 DEF F!start
  <2>2. FTypes' /\ FTrace'
    BY <2>1 DEF FInv, FTypes, FTrace
  <2>3. Reaped' = Reaped
    BY <2>1 DEF Reaped
  <2> QED BY <2>1, <2>2, <2>3 DEF FInv, FPhases, FChild
<1>2. CASE F!fork
  <2>1. main = "fork" /\ x2' = x2 /\ x3' = x3 /\ x1 \in 0 .. FORK_N
    BY <1>2 DEF F!fork, FInv, FTypes
  <2>2. CASE x1 < FORK_N /\ F!Free
    <3>1. /\ x1' = x1 + 1 /\ pc' = [pc EXCEPT ![x1 + 1] = "loop"] /\ main' = main /\ x4' = x4
      BY <1>2, <2>2 DEF F!fork
    <3>2. x1 + 1 \in F!Children
      BY <2>1, <2>2, TestsAssumption DEF F!Children
    <3>3. /\ pc[x1 + 1] = "none" /\ pc'[x1 + 1] = "loop"
          /\ \A c \in F!Children : c # x1 + 1 => pc'[c] = pc[c]
      BY <2>1, <3>1, <3>2 DEF FInv, FTypes, FPhases
    <3>4. FTypes'
      <4>1. x1 + 1 \in 0 .. FORK_N
        BY <2>1, <2>2, TestsAssumption
      <4> QED BY <2>1, <3>1, <4>1 DEF FInv, FTypes
    <3>5. FTrace'
      BY <3>1, <3>3 DEF FInv, FTrace
    <3>6. FPhases'
      <4>1. Reaped' = Reaped
        BY <3>2, <3>3 DEF Reaped
      <4>2. \A c \in F!Children : c > x1 + 1 => pc'[c] = "none"
        BY <2>1, <3>3 DEF FInv, FPhases, F!Children
      <4> QED BY <2>1, <3>1, <4>1, <4>2 DEF FInv, FPhases
    <3>7. \A c \in F!Children : FChild(c)'
      BY <2>1, <3>1, <3>2, <3>3 DEF FInv, FChild
    <3> QED BY <3>4, <3>5, <3>6, <3>7 DEF FInv
  <2>3. CASE ~(x1 < FORK_N /\ F!Free)
    <3>1. /\ main' = (IF x1 < FORK_N THEN "exit1" ELSE "wait") /\ x1' = 0
          /\ x4' = (x4 \/ x1 < FORK_N) /\ pc' = pc
      BY <1>2, <2>3 DEF F!fork
    <3>2. Reaped' = Reaped /\ Reaped = {} /\ Cardinality({}) = 0
      BY <2>1, <3>1, ForksFinite DEF FInv, FPhases, Reaped
    <3>3. FTypes'
      BY <2>1, <3>1, TestsAssumption DEF FInv, FTypes
    <3>4. FTrace'
      BY <2>1, <3>1 DEF FInv, FTypes, FTrace
    <3>5. FPhases'
      BY <3>1, <3>2 DEF FPhases
    <3>6. \A c \in F!Children : FChild(c)'
      BY <2>1, <3>1 DEF FInv, FChild
    <3> QED BY <3>3, <3>4, <3>5, <3>6 DEF FInv
  <2> QED BY <2>2, <2>3
<1> QED BY <1>1, <1>2

LEMMA ForkWait ==
  ASSUME FInv, F!wait
  PROVE  FInv'
<1>1. main = "wait" /\ x2' = x2 /\ x3' = x3 /\ x4' = x4 /\ x1 \in 0 .. FORK_N /\ x1 = Cardinality(Reaped)
  BY DEF F!wait, FInv, FTypes, FPhases
<1>2. CASE ~F!MoreToWait
  <2>1. main' = "exit0" /\ pc' = pc /\ x1' = x1 /\ x1 = FORK_N
    BY <1>1, <1>2, TestsAssumption DEF F!wait, F!MoreToWait
  <2>2. Reaped = F!Children /\ Reaped' = Reaped
    BY <1>1, <2>1, ForksFinite DEF Reaped
  <2>3. FTypes' /\ FTrace' /\ FPhases'
    BY <1>1, <2>1, <2>2 DEF FInv, FTypes, FTrace, FPhases
  <2>4. \A c \in F!Children : FChild(c)'
    BY <1>1, <2>1 DEF FInv, FChild
  <2> QED BY <2>3, <2>4 DEF FInv
<1>3. CASE F!MoreToWait
  <2>1. PICK c \in F!Children :
          /\ pc[c] \in {"exit0", "exit1"} /\ pc' = [pc EXCEPT ![c] = "reaped"]
          /\ main' = (IF pc[c] = "exit0" THEN "wait" ELSE "exit1") /\ x1' = x1 + 1
    BY <1>3 DEF F!wait
  <2>2. pc'[c] = "reaped" /\ \A d \in F!Children : d # c => pc'[d] = pc[d]
    BY <2>1 DEF FInv, FTypes
  <2>3. x1 < FORK_N
    BY <1>3 DEF F!MoreToWait
  <2>4. FTypes'
    BY <1>1, <2>1, <2>3, TestsAssumption DEF FInv, FTypes
  <2>5. FTrace'
    BY <1>1, <2>1, <2>2 DEF FInv, FTrace
  <2>6. FPhases'
    <3>1. c \notin Reaped /\ Reaped' = Reaped \cup {c}
      BY <2>1, <2>2 DEF Reaped
    <3>2. Cardinality(Reaped') = Cardinality(Reaped) + 1
      BY <3>1, ForksFinite DEF Reaped
    <3> QED BY <1>1, <2>1, <3>2 DEF FPhases
  <2>7. \A d \in F!Children : FChild(d)'
    BY <1>1, <2>1, <2>2 DEF FInv, FChild
  <2> QED BY <2>4, <2>5, <2>6, <2>7 DEF FInv
<1> QED BY <1>2, <1>3

LEMMA ForkVerdict ==
  ASSUME FInv, F!verdict
  PROVE  FInv'
<1>1. /\ main \in {"exit0", "exit1"} /\ main' = (IF main = "exit0" THEN "passed" ELSE "failed")
      /\ x1' = x1 /\ pc' = pc /\ x2' = x2 /\ x3' = x3 /\ x4' = x4
  BY DEF F!verdict
<1>2. Reaped' = Reaped
  BY <1>1 DEF Reaped
<1>3. FTypes' /\ FPhases'
  BY <1>1, <1>2 DEF FInv, FTypes, FPhases
<1>4. FTrace'
  <2>1. main = "exit0" => \A c \in F!Children : pc[c] # "exit1"
    BY DEF FInv, FPhases, Reaped
  <2> QED BY <1>1, <2>1 DEF FInv, FTrace
<1>5. \A c \in F!Children : FChild(c)'
  BY <1>1 DEF FInv, FChild
<1> QED BY <1>3, <1>4, <1>5 DEF FInv

LEMMA ForkInner ==
  ASSUME FInv, NEW c \in F!Children, F!inner(c) \/ F!inner_exit(c)
  PROVE  FInv'
<1>1. main' = main /\ x1' = x1
  BY DEF F!inner, F!inner_fork, F!inner_wait, F!inner_exit
<1>2. CASE F!inner_exit(c)
  <2>1. x3[c] = "run" /\ x3' = [x3 EXCEPT ![c] = "zombie"] /\ pc' = pc /\ x2' = x2 /\ x4' = x4
    BY <1>2 DEF F!inner_exit
  <2>2. Reaped' = Reaped
    BY <2>1 DEF Reaped
  <2>3. FTypes' /\ FTrace' /\ FPhases'
    BY <1>1, <2>1, <2>2 DEF FInv, FTypes, FTrace, FPhases
  <2>4. pc[c] = "wait"
    BY <2>1 DEF FInv, FChild
  <2>5. \A d \in F!Children : FChild(d)'
    BY <1>1, <2>1, <2>4 DEF FInv, FChild, FTypes
  <2> QED BY <2>3, <2>5 DEF FInv
<1>3. CASE F!inner_wait(c)
  <2>1. /\ pc[c] = "wait" /\ x3' = [x3 EXCEPT ![c] = "none"] /\ x2' = [x2 EXCEPT ![c] = @ + 1]
        /\ pc' = [pc EXCEPT ![c] = "loop"] /\ x4' = x4
    BY <1>3 DEF F!inner_wait
  <2>2. /\ pc'[c] = "loop" /\ x3'[c] = "none" /\ x2[c] < LOOPS
        /\ \A d \in F!Children : d # c => pc'[d] = pc[d] /\ x3'[d] = x3[d] /\ x2'[d] = x2[d]
    BY <2>1 DEF FInv, FTypes, FChild
  <2>3. FTypes'
    BY <1>1, <2>1, <2>2, TestsAssumption DEF FInv, FTypes
  <2>4. FTrace'
    BY <1>1, <2>1, <2>2 DEF FInv, FTrace
  <2>5. FPhases'
    <3>1. Reaped' = Reaped
      BY <2>1, <2>2 DEF Reaped
    <3> QED BY <1>1, <2>1, <2>2, <3>1 DEF FInv, FPhases
  <2>6. \A d \in F!Children : FChild(d)'
    BY <1>1, <2>1, <2>2 DEF FInv, FChild
  <2> QED BY <2>3, <2>4, <2>5, <2>6 DEF FInv
<1>4. CASE F!inner_fork(c) /\ x2[c] < LOOPS /\ F!Free
  <2>1. /\ pc[c] = "loop" /\ x3' = [x3 EXCEPT ![c] = "run"]
        /\ pc' = [pc EXCEPT ![c] = "wait"] /\ x2' = x2 /\ x4' = x4
    BY <1>4 DEF F!inner_fork
  <2>2. /\ pc'[c] = "wait" /\ \A d \in F!Children : d # c => pc'[d] = pc[d] /\ x3'[d] = x3[d]
    BY <2>1 DEF FInv, FTypes
  <2>3. FTypes'
    BY <1>1, <2>1 DEF FInv, FTypes
  <2>4. FTrace'
    BY <1>1, <2>1, <2>2 DEF FInv, FTrace
  <2>5. FPhases'
    <3>1. Reaped' = Reaped
      BY <2>1, <2>2 DEF Reaped
    <3> QED BY <1>1, <2>1, <2>2, <3>1 DEF FInv, FPhases
  <2>6. \A d \in F!Children : FChild(d)'
    BY <1>1, <1>4, <2>1, <2>2 DEF FInv, FChild
  <2> QED BY <2>3, <2>4, <2>5, <2>6 DEF FInv
<1>5. CASE F!inner_fork(c) /\ ~(x2[c] < LOOPS /\ F!Free)
  <2>1. /\ pc[c] = "loop" /\ x4' = (x4 \/ x2[c] < LOOPS) /\ x3' = x3 /\ x2' = x2
        /\ pc' = [pc EXCEPT ![c] = IF x2[c] < LOOPS THEN "exit1" ELSE "exit0"]
    BY <1>5 DEF F!inner_fork, F!ForkFails
  <2>2. /\ pc'[c] = (IF x2[c] < LOOPS THEN "exit1" ELSE "exit0")
        /\ \A d \in F!Children : d # c => pc'[d] = pc[d]
    BY <2>1 DEF FInv, FTypes
  <2>3. FTypes'
    BY <1>1, <2>1 DEF FInv, FTypes
  <2>4. FTrace'
    <3>1. CASE x2[c] < LOOPS
      BY <2>1, <2>2, <3>1 DEF FTrace
    <3>2. CASE ~(x2[c] < LOOPS)
      BY <1>1, <2>1, <2>2, <3>2 DEF FInv, FTypes, FTrace
    <3> QED BY <3>1, <3>2
  <2>5. FPhases'
    <3>1. Reaped' = Reaped
      BY <2>1, <2>2 DEF Reaped
    <3> QED BY <1>1, <2>1, <2>2, <3>1 DEF FInv, FPhases
  <2>6. \A d \in F!Children : FChild(d)'
    BY <1>1, <2>1, <2>2, TestsAssumption DEF FInv, FTypes, FChild
  <2> QED BY <2>3, <2>4, <2>5, <2>6 DEF FInv
<1> QED BY <1>2, <1>3, <1>4, <1>5 DEF F!inner

ForksInv == (prog = "waittest" => WInv) /\ (prog = "forkfork" => FInv)

\* waittest.c, for every number of slots and rounds: each round finds as many
\* children as it forked.  forkfork.c, for every number of children, turns and
\* free slots: the verdict says whether a fork failed, and when it is good every
\* child was waited for, did all its turns and left nothing.
THEOREM ForksAlwaysAccounted == TestsSpec => []Forks_Accounted
<1>1. TestsInit => ForksInv
  <2>1. W!Init => WInv
    BY TestsAssumption DEF W!Init, WInv
  <2> QED BY <2>1, ForkInit DEF TestsInit, ForksInv
<1>2. ForksInv /\ [TestsNext]_allVars => ForksInv'
  <2> SUFFICES ASSUME ForksInv, [TestsNext]_allVars PROVE ForksInv'
    OBVIOUS
  <2>1. CASE UNCHANGED allVars
    <3>1. /\ pc' = pc /\ main' = main /\ x1' = x1 /\ x2' = x2 /\ x3' = x3 /\ x4' = x4 /\ prog' = prog
      BY <2>1 DEF allVars, vars
    <3>2. WInv' = WInv /\ FTypes' = FTypes /\ FTrace' = FTrace /\ FPhases' = FPhases
      BY <3>1 DEF WInv, FTypes, FTrace, FPhases, Reaped
    <3>3. \A c \in F!Children : FChild(c)' = FChild(c)
      BY <3>1 DEF FChild
    <3> QED BY <3>1, <3>2, <3>3 DEF ForksInv, FInv
  <2>2. CASE prog = "waittest" /\ \E a \in Actors : waittest(a)
    BY <2>2, WaitStep, OneProgram DEF ForksInv, waittest
  <2>3. ASSUME prog = "forkfork", NEW a \in Actors, forkfork(a) PROVE ForksInv'
    <3>1. FInv
      BY <2>3 DEF ForksInv
    <3>2. CASE a = 0
      BY <2>3, <3>1, <3>2, OneProgram, ForkFork, ForkWait, ForkVerdict DEF ForksInv, forkfork, F!forkfork
    <3>3. CASE a \in F!Children /\ a # 0
      BY <2>3, <3>1, <3>3, OneProgram, ForkInner DEF ForksInv, forkfork
    <3>4. CASE a \notin F!Children /\ a # 0
      BY <2>3, <3>1, <3>4, OneProgram, ForkInner DEF ForksInv, forkfork
    <3> QED BY <3>2, <3>3, <3>4
  <2>4. CASE prog \notin {"waittest", "forkfork"}
    BY <2>4, OneProgram DEF ForksInv
  <2> QED BY <2>1, <2>2, <2>3, <2>4, OneProgram DEF producer, rmtest, readtest, dfstest, waittest, forkfork
<1>3. ForksInv => Forks_Accounted
  <2>1. WInv => W!NotBad
    BY DEF WInv, W!NotBad
  <2>2. FInv => F!VerdictIsRight /\ F!NothingLeft
    <3> SUFFICES ASSUME FInv PROVE F!VerdictIsRight /\ F!NothingLeft
      OBVIOUS
    <3>1. main = "passed" => \A c \in F!Children : pc[c] = "reaped"
      BY DEF FInv, FPhases, Reaped
    <3>2. F!VerdictIsRight
      BY <3>1 DEF FInv, FTypes, FTrace, F!VerdictIsRight
    <3>3. F!NothingLeft
      BY <3>1 DEF FInv, FChild, F!NothingLeft
    <3> QED BY <3>2, <3>3
  <2> QED BY <2>1, <2>2 DEF ForksInv, Forks_Accounted
<1> QED BY <1>1, <1>2, <1>3, PTL DEF TestsSpec

-----------------------------------------------------------------------------
(* readtest.c.  A child has the turn from its sem_p on until its sem_v.    *)
(* The value of sems[s] says whether child s has given the turn on and     *)
(* whether child s + 1 has asked for it, so that it waits exactly between  *)
(* the two; and the offset is where the answers that were read end.        *)

RdPlaces(i) ==
  IF i < 3 THEN {"none", "p", "read", "v", "exit", "reaped"}
  ELSE {"none", "p", "eof", "cur", "set", "dup1", "end", "dup2", "exit", "reaped"}

GaveTurn(i) == pc[i] \in {"exit", "reaped"}
AskedTurn(i) == pc[i] \notin {"none", "p"}
HasRead(i) == pc[i] \in {"v", "exit", "reaped"}

RdTypes ==
  /\ sem = [s \in 0 .. 2 |-> sem[s]] /\ \A s \in 0 .. 2 : SemOK(sem[s], Rd!Children)
  /\ pc = [i \in Rd!Children |-> pc[i]] /\ \A i \in Rd!Children : pc[i] \in RdPlaces(i)
  /\ x2 = [i \in Rd!Children |-> x2[i]]
  /\ \E k \in 0 .. 4 : Rd!Forked = 0 .. (k - 1)
Turn(s) ==
  /\ sem[s].value = (IF GaveTurn(s) THEN 1 ELSE 0) - (IF AskedTurn(s + 1) THEN 1 ELSE 0)
  /\ \A q \in Rd!Children : Waits(sem[s], q) => q = s + 1 /\ AskedTurn(s + 1) /\ ~GaveTurn(s)
  /\ AskedTurn(s + 1) /\ ~GaveTurn(s) => pc[s + 1] \in {"read", "eof"} /\ Waits(sem[s], s + 1)
OffsetIs ==
  x1 = IF ~HasRead(0) THEN 0
       ELSE IF ~HasRead(1) THEN 12
       ELSE IF ~HasRead(2) THEN 25
       ELSE IF pc[3] = "dup1" THEN 12
       ELSE IF pc[3] \in {"end", "dup2"} THEN 25 ELSE 39
BufIs ==
  /\ \A i \in Rd!Children : pc[i] \in {"none", "p", "read", "eof", "cur", "set", "dup1"} => x2[i] = <<>>
  /\ pc[3] \in {"end", "dup2"} => x2[3] = Rd!Text(12, 13)
RdInv == RdTypes /\ (\A s \in 0 .. 2 : Turn(s)) /\ OffsetIs /\ BufIs

LEMMA RdSem ==
  /\ \A m, p : Rd!Waits(m, p) = Waits(m, p) /\ Rd!sem_p(m, p) = sem_p(m, p)
  /\ \A m : Rd!sem_v(m) = sem_v(m)
BY DEF Rd!Waits, Waits, Rd!sem_p, sem_p, Rd!sem_v, sem_v

LEMMA RdChildren == Rd!Children = {0, 1, 2, 3} /\ 0 .. 2 = {0, 1, 2}
BY DEF Rd!Children

LEMMA RdText ==
  ASSUME NEW from \in Nat, NEW n \in Nat
  PROVE  Rd!Text(from, n) \in Seq(Nat) /\ Len(Rd!Text(from, n)) = n
BY DEF Rd!Text

\* What is left of a buffer that is read over.
LEMMA RdOver ==
  ASSUME NEW i \in Rd!Children, NEW from \in Nat, NEW n \in Nat,
         \/ x2[i] = <<>>
         \/ \E k \in 0 .. n : x2[i] = Rd!Text(12, k)
  PROVE  Rd!Over(i, Rd!Text(from, n)) = Rd!Text(from, n)
<1> DEFINE t == Rd!Text(from, n)
<1>1. t \in Seq(Nat) /\ Len(t) = n
  BY RdText
<1>2. SubSeq(x2[i], n + 1, Len(x2[i])) = <<>>
  <2>1. x2[i] \in Seq(Nat) /\ Len(x2[i]) \in 0 .. n
    <3>1. CASE x2[i] = <<>>
      BY <3>1
    <3>2. ASSUME NEW k \in 0 .. n, x2[i] = Rd!Text(12, k) PROVE x2[i] \in Seq(Nat) /\ Len(x2[i]) \in 0 .. n
      <4>1. k \in Nat /\ 12 \in Nat
        OBVIOUS
      <4>2. Rd!Text(12, k) \in Seq(Nat) /\ Len(Rd!Text(12, k)) = k
        BY <4>1, RdText
      <4> QED BY <3>2, <4>2
    <3> QED BY <3>1, <3>2
  <2> QED BY <2>1
<1> HIDE DEF t
<1>3. t \o <<>> = t
  BY <1>1
<1> QED BY <1>1, <1>2, <1>3 DEF Rd!Over, t

LEMMA RdInit == Rd!Init => RdInv
<1> SUFFICES ASSUME Rd!Init PROVE RdInv
  OBVIOUS
<1>1. /\ sem = [s \in 0 .. 2 |-> Rd!sem_open(0)] /\ pc = [i \in Rd!Children |-> "none"]
      /\ x1 = 0 /\ x2 = [i \in Rd!Children |-> <<>>]
  BY DEF Rd!Init
<1>2. SemOK(Rd!sem_open(0), Rd!Children) /\ Rd!sem_open(0).value = 0 /\ \A q : ~Waits(Rd!sem_open(0), q)
  BY DEF SemOK, SemIs, Rd!sem_open, Waits
<1>3. /\ \A s \in 0 .. 2 : sem[s] = Rd!sem_open(0)
      /\ \A i \in Rd!Children : pc[i] = "none" /\ x2[i] = <<>>
  BY <1>1
<1>4. Rd!Forked = 0 .. (0 - 1) /\ 0 \in 0 .. 4
  BY <1>3 DEF Rd!Forked
<1>5. RdTypes
  BY <1>1, <1>2, <1>3, <1>4 DEF RdTypes, RdPlaces
<1>6. \A s \in 0 .. 2 : Turn(s)
  BY <1>2, <1>3, RdChildren DEF Turn, GaveTurn, AskedTurn
<1> QED BY <1>1, <1>3, <1>5, <1>6, RdChildren DEF RdInv, OffsetIs, BufIs, HasRead

\* Child i goes to another place.
RdGoes(i, to) ==
  /\ pc[i] # "none" /\ to # "none" /\ to \in RdPlaces(i)
  /\ pc' = [pc EXCEPT ![i] = to]

LEMMA RdMoved ==
  ASSUME RdTypes, NEW i \in Rd!Children, NEW to, RdGoes(i, to)
  PROVE  /\ pc'[i] = to /\ \A q \in Rd!Children : q # i => pc'[q] = pc[q]
         /\ pc' = [q \in Rd!Children |-> pc'[q]] /\ \A q \in Rd!Children : pc'[q] \in RdPlaces(q)
         /\ Rd!Forked' = Rd!Forked
         /\ \E k \in 0 .. 4 : Rd!Forked' = 0 .. (k - 1)
<1>1. pc'[i] = to /\ \A q \in Rd!Children : q # i => pc'[q] = pc[q]
  BY DEF RdTypes, RdGoes
<1>2. pc' = [q \in Rd!Children |-> pc'[q]]
  BY DEF RdTypes, RdGoes
<1>3. \A q \in Rd!Children : pc'[q] \in RdPlaces(q)
  BY <1>1 DEF RdTypes, RdGoes
<1>4. Rd!Forked' = Rd!Forked
  BY <1>1 DEF RdGoes, Rd!Forked
<1> QED BY <1>1, <1>2, <1>3, <1>4 DEF RdTypes

LEMMA RdFork ==
  ASSUME RdInv, Rd!fork_s
  PROVE  RdInv'
<1>1. sem' = sem /\ x1' = x1 /\ x2' = x2
  BY DEF Rd!fork_s
<1>2. CASE pc' = pc
  <2>1. RdTypes'
    BY <1>1, <1>2 DEF RdInv, RdTypes, Rd!Forked
  <2> QED BY <1>1, <1>2, <2>1 DEF RdInv, Turn, GaveTurn, AskedTurn, OffsetIs, BufIs, HasRead
<1>3. CASE Rd!Forked # Rd!Children /\ pc' = [pc EXCEPT ![Rd!Cardinality(Rd!Forked)] = "p"]
  <2>1. PICK k \in 0 .. 4 : Rd!Forked = 0 .. (k - 1)
    BY DEF RdInv, RdTypes
  <2>2. Cardinality(0 .. (k - 1)) = k
    <3>1. Cardinality(0 .. (k - 1)) = IF 0 > k - 1 THEN 0 ELSE (k - 1) - 0 + 1
      BY FS_Interval
    <3> QED BY <3>1
  <2>3. Rd!Cardinality(Rd!Forked) = k
    BY <2>1, <2>2 DEF Rd!Cardinality, Cardinality, Rd!IsFiniteSet, IsFiniteSet
  <2>4. k \in Rd!Children /\ k \notin Rd!Forked
    BY <1>3, <2>1 DEF Rd!Children
  <2>5. pc[k] = "none" /\ pc'[k] = "p" /\ \A q \in Rd!Children : q # k => pc'[q] = pc[q]
    BY <1>3, <2>3, <2>4 DEF RdInv, RdTypes, Rd!Forked
  <2>6. pc' = [q \in Rd!Children |-> pc'[q]]
    BY <1>3, <2>3, <2>4 DEF RdInv, RdTypes
  <2>7. Rd!Forked' = Rd!Forked \cup {k}
    BY <2>4, <2>5 DEF Rd!Forked
  <2>8. k + 1 \in 0 .. 4 /\ Rd!Forked' = 0 .. ((k + 1) - 1)
    BY <2>1, <2>4, <2>7 DEF Rd!Children
  <2>9. RdTypes'
    BY <1>1, <2>4, <2>5, <2>6, <2>8 DEF RdInv, RdTypes, RdPlaces
  <2>10. ASSUME NEW q \in Rd!Children
         PROVE  GaveTurn(q)' = GaveTurn(q) /\ AskedTurn(q)' = AskedTurn(q) /\ HasRead(q)' = HasRead(q)
    BY <2>4, <2>5 DEF GaveTurn, AskedTurn, HasRead
  <2>11. \A s \in 0 .. 2 : Turn(s)'
    <3> SUFFICES ASSUME NEW s \in 0 .. 2 PROVE Turn(s)'
      OBVIOUS
    <3>1. s \in Rd!Children /\ s + 1 \in Rd!Children
      BY DEF Rd!Children
    <3>2. Turn(s)
      BY DEF RdInv
    <3>3. pc[s + 1] \in {"read", "eof"} => pc'[s + 1] = pc[s + 1]
      BY <2>5, <3>1
    <3> QED BY <1>1, <2>10, <3>1, <3>2, <3>3 DEF Turn
  <2>12. OffsetIs' /\ BufIs'
    BY <1>1, <2>4, <2>5, <2>10, RdChildren DEF RdInv, OffsetIs, BufIs
  <2> QED BY <2>9, <2>11, <2>12 DEF RdInv
<1> QED BY <1>2, <1>3 DEF Rd!fork_s

LEMMA RdWait ==
  ASSUME RdInv, Rd!wait
  PROVE  RdInv'
<1>1. sem' = sem /\ x1' = x1 /\ x2' = x2
  BY DEF Rd!wait
<1>2. CASE pc' = pc
  <2>1. RdTypes'
    BY <1>1, <1>2 DEF RdInv, RdTypes, Rd!Forked
  <2> QED BY <1>1, <1>2, <2>1 DEF RdInv, Turn, GaveTurn, AskedTurn, OffsetIs, BufIs, HasRead
<1>3. ASSUME NEW i \in Rd!Children, pc[i] = "exit", pc' = [pc EXCEPT ![i] = "reaped"]
      PROVE  RdInv'
  <2>1. RdGoes(i, "reaped")
    BY <1>3 DEF RdGoes, RdPlaces
  <2>2. /\ pc'[i] = "reaped" /\ \A q \in Rd!Children : q # i => pc'[q] = pc[q]
        /\ pc' = [q \in Rd!Children |-> pc'[q]] /\ \A q \in Rd!Children : pc'[q] \in RdPlaces(q)
        /\ \E k \in 0 .. 4 : Rd!Forked' = 0 .. (k - 1)
    BY <2>1, RdMoved DEF RdInv
  <2>3. RdTypes'
    BY <1>1, <2>2 DEF RdInv, RdTypes
  <2>4. ASSUME NEW q \in Rd!Children
        PROVE  GaveTurn(q)' = GaveTurn(q) /\ AskedTurn(q)' = AskedTurn(q) /\ HasRead(q)' = HasRead(q)
    BY <1>3, <2>2 DEF GaveTurn, AskedTurn, HasRead
  <2>5. \A s \in 0 .. 2 : Turn(s)'
    <3> SUFFICES ASSUME NEW s \in 0 .. 2 PROVE Turn(s)'
      OBVIOUS
    <3>1. s \in Rd!Children /\ s + 1 \in Rd!Children
      BY DEF Rd!Children
    <3>2. Turn(s)
      BY DEF RdInv
    <3>3. pc[s + 1] \in {"read", "eof"} => pc'[s + 1] = pc[s + 1]
      BY <1>3, <2>2, <3>1
    <3> QED BY <1>1, <2>4, <3>1, <3>2, <3>3 DEF Turn
  <2>6. OffsetIs' /\ BufIs'
    BY <1>1, <1>3, <2>2, <2>4, RdChildren DEF RdInv, OffsetIs, BufIs
  <2> QED BY <2>3, <2>5, <2>6 DEF RdInv
<1> QED BY <1>2, <1>3 DEF Rd!wait

\* A child that does not wait has been given the turn.
LEMMA RdHasTurn ==
  ASSUME RdInv, NEW i \in Rd!Children, pc[i] \notin {"none", "p"},
         \A s \in 0 .. 2 : ~Waits(sem[s], i)
  PROVE  i > 0 => GaveTurn(i - 1)
<1> SUFFICES ASSUME i > 0 PROVE GaveTurn(i - 1)
  OBVIOUS
<1>1. i - 1 \in 0 .. 2 /\ (i - 1) + 1 = i
  BY DEF Rd!Children
<1>2. Turn(i - 1) /\ ~Waits(sem[i - 1], i)
  BY <1>1 DEF RdInv
<1> QED BY <1>1, <1>2 DEF Turn, AskedTurn

LEMMA RdTurn ==
  ASSUME RdInv, NEW i \in Rd!Children, Rd!turn(i)
  PROVE  RdInv'
<1> DEFINE to == IF i < 3 THEN "read" ELSE "eof"
<1>1. /\ pc[i] = "p" /\ \A s \in 0 .. 2 : ~Waits(sem[s], i)
      /\ sem' = IF i > 0 THEN [sem EXCEPT ![i - 1] = sem_p(sem[i - 1], i)] ELSE sem
      /\ pc' = [pc EXCEPT ![i] = to] /\ x1' = x1 /\ x2' = x2
  BY RdSem DEF Rd!turn, Rd!At, Rd!WaitsFor
<1>2. RdGoes(i, to)
  BY <1>1 DEF RdGoes, RdPlaces
<1>3. /\ pc'[i] = to /\ \A q \in Rd!Children : q # i => pc'[q] = pc[q]
      /\ pc' = [q \in Rd!Children |-> pc'[q]] /\ \A q \in Rd!Children : pc'[q] \in RdPlaces(q)
      /\ \E k \in 0 .. 4 : Rd!Forked' = 0 .. (k - 1)
  BY <1>2, RdMoved DEF RdInv
<1> HIDE DEF to
<1>4. /\ \A s \in 0 .. 2 : s + 1 # i => sem'[s] = sem[s]
      /\ i > 0 => sem'[i - 1] = sem_p(sem[i - 1], i)
      /\ sem' = [s \in 0 .. 2 |-> sem'[s]]
  BY <1>1 DEF RdInv, RdTypes, Rd!Children
<1>5. ASSUME i > 0
      PROVE  /\ i - 1 \in 0 .. 2 /\ (i - 1) + 1 = i
             /\ SemOK(sem'[i - 1], Rd!Children) /\ sem'[i - 1].value = sem[i - 1].value - 1
             /\ \A q : Waits(sem'[i - 1], q) <=> Waits(sem[i - 1], q) \/ (q = i /\ sem[i - 1].value <= 0)
  <2>1. i - 1 \in 0 .. 2 /\ (i - 1) + 1 = i
    BY <1>5 DEF Rd!Children
  <2>2. SemOK(sem[i - 1], Rd!Children) /\ ~Waits(sem[i - 1], i)
    BY <1>1, <2>1 DEF RdInv, RdTypes
  <2> QED BY <1>4, <1>5, <2>1, <2>2, SemP
<1>6. \A s \in 0 .. 2 : SemOK(sem'[s], Rd!Children)
  <2> SUFFICES ASSUME NEW s \in 0 .. 2 PROVE SemOK(sem'[s], Rd!Children)
    OBVIOUS
  <2>1. CASE s + 1 = i
    BY <1>5, <2>1
  <2>2. CASE s + 1 # i
    BY <1>4, <2>2 DEF RdInv, RdTypes
  <2> QED BY <2>1, <2>2
<1>7. RdTypes'
  BY <1>1, <1>3, <1>4, <1>6 DEF RdInv, RdTypes
<1>8. ASSUME NEW q \in Rd!Children
      PROVE  /\ GaveTurn(q)' = GaveTurn(q) /\ HasRead(q)' = HasRead(q)
             /\ q # i => AskedTurn(q)' = AskedTurn(q)
  BY <1>1, <1>3 DEF GaveTurn, AskedTurn, HasRead, to
<1>9. ~AskedTurn(i) /\ AskedTurn(i)' /\ pc'[i] \in {"read", "eof"}
  BY <1>1, <1>3 DEF AskedTurn, to
<1>10. \A s \in 0 .. 2 : Turn(s)'
  <2> SUFFICES ASSUME NEW s \in 0 .. 2 PROVE Turn(s)'
    OBVIOUS
  <2>1. s \in Rd!Children /\ s + 1 \in Rd!Children
    BY DEF Rd!Children
  <2>2. Turn(s)
    BY DEF RdInv
  <2>3. CASE s + 1 # i
    BY <1>3, <1>4, <1>8, <2>1, <2>2, <2>3 DEF Turn
  <2>4. CASE s + 1 = i
    <3>1. i > 0 /\ i - 1 = s
      BY <2>4
    <3>2. /\ sem'[s].value = sem[s].value - 1 
          /\ \A q : Waits(sem'[s], q) <=> Waits(sem[s], q) \/ (q = i /\ sem[s].value <= 0)
      BY <1>5, <3>1
    <3>3. /\ sem[s].value = IF GaveTurn(s) THEN 1 ELSE 0
          /\ \A q \in Rd!Children : ~Waits(sem[s], q)
      BY <1>9, <2>2, <2>4 DEF Turn
    <3>4. GaveTurn(s)' = GaveTurn(s)
      BY <1>8, <2>1
    <3>5. sem'[s].value = (IF GaveTurn(s)' THEN 1 ELSE 0) - (IF AskedTurn(s + 1)' THEN 1 ELSE 0)
      BY <1>9, <2>4, <3>2, <3>3, <3>4
    <3>6. \A q \in Rd!Children : Waits(sem'[s], q) => q = s + 1 /\ AskedTurn(s + 1)' /\ ~GaveTurn(s)'
      BY <1>9, <2>4, <3>2, <3>3, <3>4
    <3>7. ~GaveTurn(s)' => pc'[s + 1] \in {"read", "eof"} /\ Waits(sem'[s], s + 1)
      BY <1>9, <2>4, <3>2, <3>3, <3>4
    <3> QED BY <3>5, <3>6, <3>7 DEF Turn
  <2> QED BY <2>3, <2>4
<1>11. OffsetIs' /\ BufIs'
  <2>1. (pc[3] \notin {"dup1", "end", "dup2"} /\ pc'[3] \notin {"dup1", "end", "dup2"}) \/ pc'[3] = pc[3]
    BY <1>1, <1>3, RdChildren DEF to
  <2>2. OffsetIs'
    BY <1>1, <1>8, <2>1, RdChildren DEF RdInv, OffsetIs
  <2>3. BufIs'
    BY <1>1, <1>3, <2>1, RdChildren DEF RdInv, BufIs
  <2> QED BY <2>2, <2>3
<1> QED BY <1>7, <1>10, <1>11 DEF RdInv

LEMMA RdReadsGive ==
  /\ x1 = 0 => Rd!Got(Len(Rd!ans[0])) = Rd!Text(0, 12)
  /\ x1 = 12 => Rd!Got(Len(Rd!ans[1])) = Rd!Text(12, 13)
  /\ x1 = 25 => Rd!Got(Len(Rd!ans[2])) = Rd!Text(25, 14)
  /\ Rd!ans[0] = Rd!Text(0, 12) /\ Rd!ans[1] = Rd!Text(12, 13) /\ Rd!ans[2] = Rd!Text(25, 14)
  /\ Len(Rd!ans[0]) = 12 /\ Len(Rd!ans[1]) = 13 /\ Len(Rd!ans[2]) = 14
<1>1. Rd!ans[0] = Rd!Text(0, 12) /\ Rd!ans[1] = Rd!Text(12, 13) /\ Rd!ans[2] = Rd!Text(25, 14)
  BY DEF Rd!ans
<1>2. 0 \in Nat /\ 12 \in Nat /\ 13 \in Nat /\ 14 \in Nat /\ 25 \in Nat
  OBVIOUS
<1>3. Len(Rd!Text(0, 12)) = 12 /\ Len(Rd!Text(12, 13)) = 13 /\ Len(Rd!Text(25, 14)) = 14
  BY <1>2, RdText
<1>4. Len(Rd!ans[0]) = 12 /\ Len(Rd!ans[1]) = 13 /\ Len(Rd!ans[2]) = 14
  BY <1>1, <1>3
<1>5. /\ x1 = 0 => Rd!Got(12) = Rd!Text(0, 12)
      /\ x1 = 12 => Rd!Got(13) = Rd!Text(12, 13)
      /\ x1 = 25 => Rd!Got(14) = Rd!Text(25, 14)
  BY DEF Rd!Got, Rd!SIZE
<1> QED BY <1>1, <1>4, <1>5

\* A read of the answer a at its place in the file: all of it, and it is what
\* the buffer then holds.
LEMMA RdReadAnswer ==
  ASSUME RdInv, NEW i \in Rd!Children, NEW j \in 0 .. 2,
         NEW from, NEW to, Rd!Reads(i, Rd!ans[j], from, to),
         x1 = CASE j = 0 -> 0 [] j = 1 -> 12 [] j = 2 -> 25,
         x2[i] = <<>> \/ (j = 2 /\ x2[i] = Rd!Text(12, 13))
  PROVE  /\ pc[i] = from /\ pc' = [pc EXCEPT ![i] = to]
         /\ \A s \in 0 .. 2 : ~Waits(sem[s], i)
         /\ x1' = CASE j = 0 -> 12 [] j = 1 -> 25 [] j = 2 -> 39
         /\ x2'[i] = Rd!ans[j] /\ x2' = [q \in Rd!Children |-> x2'[q]]
         /\ \A q \in Rd!Children : q # i => x2'[q] = x2[q]
         /\ sem' = sem
<1> DEFINE a == Rd!ans[j]
           at == CASE j = 0 -> 0 [] j = 1 -> 12 [] j = 2 -> 25
           n == CASE j = 0 -> 12 [] j = 1 -> 13 [] j = 2 -> 14
<1>1. a = Rd!Text(at, n) /\ Len(a) = n /\ Rd!Got(n) = a /\ at \in Nat /\ n \in Nat
  <2>1. CASE j = 0
    <3>1. at = 0 /\ n = 12 /\ x1 = 0
      BY <2>1
    <3> HIDE DEF at, n
    <3> QED BY <2>1, <3>1, RdReadsGive
  <2>2. CASE j = 1
    <3>1. at = 12 /\ n = 13 /\ x1 = 12
      BY <2>2
    <3> HIDE DEF at, n
    <3> QED BY <2>2, <3>1, RdReadsGive
  <2>3. CASE j = 2
    <3>1. at = 25 /\ n = 14 /\ x1 = 25
      BY <2>3
    <3> HIDE DEF at, n
    <3> QED BY <2>3, <3>1, RdReadsGive
  <2> QED BY <2>1, <2>2, <2>3
<1>2. Rd!Over(i, a) = a
  <2>1. x2[i] = <<>> \/ \E k \in 0 .. n : x2[i] = Rd!Text(12, k)
    <3>1. CASE j = 2 /\ x2[i] = Rd!Text(12, 13)
      <4>1. 13 \in 0 .. n
        BY <3>1
      <4> QED BY <3>1, <4>1
    <3> QED BY <3>1
  <2> HIDE DEF n, at, a
  <2> QED BY <1>1, <2>1, RdOver
<1> HIDE DEF a
<1>3. /\ pc[i] = from /\ \A s \in 0 .. 2 : ~Waits(sem[s], i)
      /\ x1' = x1 + Len(Rd!Got(Len(a))) /\ x2' = [x2 EXCEPT ![i] = Rd!Over(i, Rd!Got(Len(a)))]
      /\ pc' = [pc EXCEPT ![i] = IF Len(Rd!Got(Len(a))) = Len(a) /\ x2'[i] = a THEN to ELSE "abort"]
      /\ sem' = sem
  BY RdSem DEF Rd!Reads, Rd!At, a
<1>4. x1' = at + n /\ x2' = [x2 EXCEPT ![i] = a]
  BY <1>1, <1>2, <1>3
<1>5. /\ x2'[i] = a /\ x2' = [q \in Rd!Children |-> x2'[q]]
      /\ \A q \in Rd!Children : q # i => x2'[q] = x2[q]
  BY <1>4 DEF RdInv, RdTypes
<1>6. pc' = [pc EXCEPT ![i] = to]
  BY <1>1, <1>3, <1>5
<1>7. x1' = CASE j = 0 -> 12 [] j = 1 -> 25 [] j = 2 -> 39
  BY <1>4
<1> QED BY <1>3, <1>5, <1>6, <1>7 DEF a

\* The semaphores of a child that moves on and neither gives nor asks for a turn.
LEMMA RdKeepsTurns ==
  ASSUME RdInv, NEW i \in Rd!Children, NEW to, RdGoes(i, to),
         pc[i] \notin {"none", "p", "exit", "reaped"}, to \notin {"none", "p", "exit", "reaped"} \/ i = 3,
         to \notin {"none", "p"}, \A s \in 0 .. 2 : ~Waits(sem[s], i), sem' = sem
  PROVE  /\ \A s \in 0 .. 2 : Turn(s)'
         /\ i > 0 => GaveTurn(i - 1)
<1>1. pc'[i] = to /\ \A q \in Rd!Children : q # i => pc'[q] = pc[q]
  BY RdMoved DEF RdInv
<1>2. i > 0 => GaveTurn(i - 1)
  BY RdHasTurn
<1>3. \A s \in 0 .. 2 : Turn(s)'
  <2> SUFFICES ASSUME NEW s \in 0 .. 2 PROVE Turn(s)'
    OBVIOUS
  <2>1. s \in Rd!Children /\ s + 1 \in Rd!Children /\ s # 3
    BY DEF Rd!Children
  <2>2. Turn(s)
    BY DEF RdInv
  <2>3. GaveTurn(s)' = GaveTurn(s)
    BY <1>1, <2>1 DEF GaveTurn
  <2>4. AskedTurn(s + 1)' = AskedTurn(s + 1)
    BY <1>1, <2>1 DEF AskedTurn
  <2>5. AskedTurn(s + 1) /\ ~GaveTurn(s) => pc'[s + 1] = pc[s + 1]
    BY <1>1, <1>2, <2>1
  <2> QED BY <2>2, <2>3, <2>4, <2>5 DEF Turn
<1> QED BY <1>2, <1>3

\* The order of the answers: who has read comes behind those that have given
\* their turn on.
LEMMA RdOrder ==
  ASSUME RdInv
  PROVE  /\ HasRead(1) => GaveTurn(0) /\ HasRead(0)
         /\ HasRead(2) => GaveTurn(1) /\ HasRead(1)
         /\ pc[3] \in {"cur", "set", "dup1", "end", "dup2", "exit", "reaped"} => GaveTurn(2) /\ HasRead(2)
         /\ \A i \in Rd!Children : GaveTurn(i) => HasRead(i)
<1>1. \A i \in Rd!Children : GaveTurn(i) => HasRead(i)
  BY DEF GaveTurn, HasRead
<1>2. /\ Turn(0) /\ Turn(1) /\ Turn(2)
      /\ 0 + 1 = 1 /\ 1 + 1 = 2 /\ 2 + 1 = 3
  BY DEF RdInv
<1>3. 0 \in Rd!Children /\ 1 \in Rd!Children /\ 2 \in Rd!Children /\ 3 \in Rd!Children
  BY DEF Rd!Children
<1>4. HasRead(1) => GaveTurn(0)
  BY <1>2 DEF Turn, AskedTurn, HasRead
<1>5. HasRead(2) => GaveTurn(1)
  BY <1>2 DEF Turn, AskedTurn, HasRead
<1>6. pc[3] \in {"cur", "set", "dup1", "end", "dup2", "exit", "reaped"} => GaveTurn(2)
  BY <1>2 DEF Turn, AskedTurn
<1> QED BY <1>1, <1>3, <1>4, <1>5, <1>6

LEMMA RdRead ==
  ASSUME RdInv, NEW i \in Rd!Children, Rd!read(i)
  PROVE  RdInv'
<1>1. i \in 0 .. 2 /\ Rd!Reads(i, Rd!ans[i], "read", "v") /\ pc[i] = "read"
      /\ \A s \in 0 .. 2 : ~Waits(sem[s], i)
  BY RdSem DEF Rd!read, Rd!Reads, Rd!At, Rd!Children
<1>2. i > 0 => GaveTurn(i - 1)
  BY <1>1, RdHasTurn
<1>3. /\ x1 = CASE i = 0 -> 0 [] i = 1 -> 12 [] i = 2 -> 25
      /\ i = 1 => HasRead(0)
      /\ i = 2 => HasRead(0) /\ HasRead(1)
      /\ ~HasRead(i)
      /\ \A j \in 0 .. 2 : j > i => ~HasRead(j)
      /\ pc[3] \notin {"cur", "set", "dup1", "end", "dup2", "exit", "reaped"}
  <2>1. ~HasRead(i) /\ ~GaveTurn(i)
    BY <1>1 DEF HasRead, GaveTurn
  <2>2. CASE i = 0
    BY <2>1, <2>2, RdOrder, RdChildren DEF RdInv, OffsetIs
  <2>3. CASE i = 1
    <3>1. HasRead(0)
      BY <1>2, <2>3, RdOrder, RdChildren
    <3> QED BY <2>1, <2>3, <3>1, RdOrder, RdChildren DEF RdInv, OffsetIs
  <2>4. CASE i = 2
    <3>1. HasRead(1) /\ HasRead(0)
      BY <1>2, <2>4, RdOrder, RdChildren
    <3> QED BY <2>1, <2>4, <3>1, RdOrder, RdChildren DEF RdInv, OffsetIs
  <2> QED BY <1>1, <2>2, <2>3, <2>4
<1>4. x2[i] = <<>>
  BY <1>1 DEF RdInv, BufIs
<1>5. /\ pc' = [pc EXCEPT ![i] = "v"] /\ sem' = sem
      /\ x1' = CASE i = 0 -> 12 [] i = 1 -> 25 [] i = 2 -> 39
      /\ x2' = [q \in Rd!Children |-> x2'[q]]
      /\ \A q \in Rd!Children : q # i => x2'[q] = x2[q]
  BY <1>1, <1>3, <1>4, RdReadAnswer
<1>6. RdGoes(i, "v")
  BY <1>1, <1>5 DEF RdGoes, RdPlaces
<1>7. /\ pc'[i] = "v" /\ \A q \in Rd!Children : q # i => pc'[q] = pc[q]
      /\ pc' = [q \in Rd!Children |-> pc'[q]] /\ \A q \in Rd!Children : pc'[q] \in RdPlaces(q)
      /\ \E k \in 0 .. 4 : Rd!Forked' = 0 .. (k - 1)
  BY <1>6, RdMoved DEF RdInv
<1>8. RdTypes'
  BY <1>5, <1>7 DEF RdInv, RdTypes
<1>9. \A s \in 0 .. 2 : Turn(s)'
  BY <1>1, <1>5, <1>6, RdKeepsTurns
<1>10. /\ HasRead(i)' /\ \A q \in Rd!Children : q # i => HasRead(q)' = HasRead(q)
  BY <1>7 DEF HasRead
<1>11. OffsetIs'
  <2>1. pc'[3] = pc[3] /\ 0 \in Rd!Children /\ 1 \in Rd!Children /\ 2 \in Rd!Children
    BY <1>1, <1>7, RdChildren
  <2>2. CASE i = 0
    BY <1>3, <1>5, <1>10, <2>1, <2>2 DEF OffsetIs
  <2>3. CASE i = 1
    BY <1>3, <1>5, <1>10, <2>1, <2>3 DEF OffsetIs
  <2>4. CASE i = 2
    BY <1>3, <1>5, <1>10, <2>1, <2>4 DEF OffsetIs
  <2> QED BY <1>1, <2>2, <2>3, <2>4
<1>12. BufIs'
  BY <1>1, <1>5, <1>7, RdChildren DEF RdInv, BufIs
<1> QED BY <1>8, <1>9, <1>11, <1>12 DEF RdInv

LEMMA RdSignal ==
  ASSUME RdInv, NEW i \in Rd!Children, Rd!signal(i)
  PROVE  RdInv'
<1>1. /\ i \in 0 .. 2 /\ pc[i] = "v" /\ \A s \in 0 .. 2 : ~Waits(sem[s], i)
      /\ sem' = [sem EXCEPT ![i] = sem_v(sem[i])]
      /\ pc' = [pc EXCEPT ![i] = "exit"] /\ x1' = x1 /\ x2' = x2
  <2>1. /\ i \in 0 .. 2 /\ pc[i] = "v" /\ \A s \in 0 .. 2 : ~Rd!Waits(sem[s], i)
        /\ sem' = [sem EXCEPT ![i] = Rd!sem_v(sem[i])]
        /\ pc' = [pc EXCEPT ![i] = "exit"] /\ x1' = x1 /\ x2' = x2
    BY DEF Rd!signal, Rd!At, Rd!Signals, Rd!Children
  <2>2. Rd!sem_v(sem[i]) = sem_v(sem[i]) /\ \A s : Rd!Waits(sem[s], i) = Waits(sem[s], i)
    BY RdSem
  <2> QED BY <2>1, <2>2
<1>2. RdGoes(i, "exit")
  BY <1>1 DEF RdGoes, RdPlaces
<1>3. /\ pc'[i] = "exit" /\ \A q \in Rd!Children : q # i => pc'[q] = pc[q]
      /\ pc' = [q \in Rd!Children |-> pc'[q]] /\ \A q \in Rd!Children : pc'[q] \in RdPlaces(q)
      /\ \E k \in 0 .. 4 : Rd!Forked' = 0 .. (k - 1)
  BY <1>2, RdMoved DEF RdInv
<1>4. /\ \A s \in 0 .. 2 : s # i => sem'[s] = sem[s]
      /\ sem'[i] = sem_v(sem[i]) /\ sem' = [s \in 0 .. 2 |-> sem'[s]]
  BY <1>1 DEF RdInv, RdTypes
<1>5. SemOK(sem[i], Rd!Children) /\ Turn(i) /\ i \in Rd!Children /\ i + 1 \in Rd!Children /\ i # i + 1
  BY <1>1 DEF RdInv, RdTypes, Rd!Children
<1>6. /\ SemOK(sem'[i], Rd!Children) /\ sem'[i].value = sem[i].value + 1
      /\ sem[i].value < 0 => \E h \in Rd!Children : /\ Waits(sem[i], h)
                                                   /\ \A q : Waits(sem'[i], q) <=> Waits(sem[i], q) /\ q # h
      /\ sem[i].value >= 0 => \A q : ~Waits(sem'[i], q)
  <2>1. /\ SemOK(sem_v(sem[i]), Rd!Children) /\ sem_v(sem[i]).value = sem[i].value + 1
        /\ sem[i].value < 0 => \E h \in Rd!Children : /\ Waits(sem[i], h)
                                                     /\ \A q : Waits(sem_v(sem[i]), q) <=> Waits(sem[i], q) /\ q # h
        /\ sem[i].value >= 0 => \A q : ~Waits(sem_v(sem[i]), q) /\ ~Waits(sem[i], q)
    BY <1>5, SemV
  <2> QED BY <1>4, <2>1
<1>7. /\ ~GaveTurn(i) /\ GaveTurn(i)' /\ AskedTurn(i) /\ AskedTurn(i)' /\ HasRead(i) /\ HasRead(i)'
      /\ \A q \in Rd!Children : q # i => /\ GaveTurn(q)' = GaveTurn(q) /\ AskedTurn(q)' = AskedTurn(q)
                                         /\ HasRead(q)' = HasRead(q)
  BY <1>1, <1>3 DEF GaveTurn, AskedTurn, HasRead
<1>8. \A q \in Rd!Children : ~Waits(sem'[i], q)
  BY <1>5, <1>6 DEF Turn
<1>9. \A s \in 0 .. 2 : Turn(s)'
  <2> SUFFICES ASSUME NEW s \in 0 .. 2 PROVE Turn(s)'
    OBVIOUS
  <2>1. CASE s = i
    <3>1. sem'[i].value = 1 - (IF AskedTurn(i + 1)' THEN 1 ELSE 0)
      BY <1>5, <1>6, <1>7 DEF Turn
    <3> QED BY <1>7, <1>8, <2>1, <3>1 DEF Turn
  <2>2. CASE s # i
    <3>1. Turn(s) /\ s \in Rd!Children /\ s + 1 \in Rd!Children /\ sem'[s] = sem[s] /\ GaveTurn(s)' = GaveTurn(s)
      BY <1>4, <1>7, <2>2 DEF RdInv, Rd!Children
    <3>2. AskedTurn(s + 1)' = AskedTurn(s + 1)
      BY <1>1, <1>3, <3>1 DEF AskedTurn
    <3>3. pc[s + 1] \in {"read", "eof"} => pc'[s + 1] = pc[s + 1]
      BY <1>1, <1>3, <3>1
    <3> QED BY <3>1, <3>2, <3>3 DEF Turn
  <2> QED BY <2>1, <2>2
<1>10. \A s \in 0 .. 2 : SemOK(sem'[s], Rd!Children)
  <2> SUFFICES ASSUME NEW s \in 0 .. 2 PROVE SemOK(sem'[s], Rd!Children)
    OBVIOUS
  <2>1. CASE s = i
    BY <1>6, <2>1
  <2>2. CASE s # i
    BY <1>4, <2>2 DEF RdInv, RdTypes
  <2> QED BY <2>1, <2>2
<1>11. RdTypes'
  BY <1>1, <1>3, <1>4, <1>10 DEF RdInv, RdTypes
<1>12. pc'[3] = pc[3] /\ \A q \in Rd!Children : HasRead(q)' = HasRead(q)
  BY <1>1, <1>3, RdChildren DEF HasRead
<1>13. OffsetIs' /\ BufIs'
  BY <1>1, <1>3, <1>12, RdChildren DEF RdInv, OffsetIs, BufIs
<1> QED BY <1>9, <1>11, <1>13 DEF RdInv

\* The last child, which has the turn when all answers are read.
LEMMA RdLast ==
  ASSUME RdInv, NEW i \in Rd!Children,
         pc[i] \in {"eof", "cur", "set", "dup1", "end", "dup2"}, \A s \in 0 .. 2 : ~Waits(sem[s], i)
  PROVE  /\ i = 3 /\ \A j \in 0 .. 2 : HasRead(j)
         /\ x1 = IF pc[3] = "dup1" THEN 12 ELSE IF pc[3] \in {"end", "dup2"} THEN 25 ELSE 39
<1>1. i = 3
  BY RdChildren DEF RdInv, RdTypes, RdPlaces
<1>2. GaveTurn(2)
  <2>1. i > 0 /\ i - 1 = 2 /\ pc[i] \notin {"none", "p"}
    BY <1>1
  <2>2. i > 0 => GaveTurn(i - 1)
    BY <2>1, RdHasTurn
  <2> QED BY <2>1, <2>2
<1>3. HasRead(0) /\ HasRead(1) /\ HasRead(2)
  BY <1>2, RdOrder, RdChildren
<1> QED BY <1>1, <1>3, RdChildren DEF RdInv, OffsetIs

LEMMA RdLastMoves ==
  ASSUME RdInv, NEW to, RdGoes(3, to), pc[3] \in {"eof", "cur", "set", "dup1", "end", "dup2"},
         to \in {"cur", "set", "dup1", "end", "dup2", "exit"},
         \A s \in 0 .. 2 : ~Waits(sem[s], 3), sem' = sem,
         x1' = IF to = "dup1" THEN 12 ELSE IF to \in {"end", "dup2"} THEN 25 ELSE 39,
         x2' = [q \in Rd!Children |-> x2'[q]], \A q \in Rd!Children : q # 3 => x2'[q] = x2[q],
         to \in {"cur", "set", "dup1"} => x2'[3] = <<>>,
         to \in {"end", "dup2"} => x2'[3] = Rd!Text(12, 13)
  PROVE  RdInv'
<1>0. 3 \in Rd!Children
  BY RdChildren
<1>1. /\ pc'[3] = to /\ \A q \in Rd!Children : q # 3 => pc'[q] = pc[q]
      /\ pc' = [q \in Rd!Children |-> pc'[q]] /\ \A q \in Rd!Children : pc'[q] \in RdPlaces(q)
      /\ \E k \in 0 .. 4 : Rd!Forked' = 0 .. (k - 1)
  BY <1>0, RdMoved DEF RdInv
<1>2. RdTypes'
  BY <1>1 DEF RdInv, RdTypes
<1>3. \A s \in 0 .. 2 : Turn(s)'
  BY <1>0, RdKeepsTurns
<1>4. \A j \in 0 .. 2 : HasRead(j)
  BY <1>0, RdLast
<1>5. HasRead(0)' /\ HasRead(1)' /\ HasRead(2)'
  BY <1>1, <1>4, RdChildren DEF HasRead
<1>6. OffsetIs'
  BY <1>1, <1>5 DEF OffsetIs
<1>7. BufIs'
  BY <1>1, RdChildren DEF RdInv, BufIs
<1> QED BY <1>2, <1>3, <1>6, <1>7 DEF RdInv

LEMMA RdSeeks ==
  ASSUME RdInv, NEW i \in Rd!Children,
         \/ Rd!read_eof(i) \/ Rd!seek_cur(i) \/ Rd!seek_set(i) \/ Rd!seek_end(i)
  PROVE  RdInv'
<1>0. pc[i] \in {"eof", "cur", "set", "end"} /\ \A s \in 0 .. 2 : ~Waits(sem[s], i)
  BY RdSem DEF Rd!read_eof, Rd!seek_cur, Rd!seek_set, Rd!seek_end, Rd!Seeks, Rd!At
<1>1. /\ i = 3 /\ x1 = IF pc[3] = "end" THEN 25 ELSE 39
      /\ \A s \in 0 .. 2 : ~Waits(sem[s], 3)
  BY <1>0, RdLast
<1>2. /\ sem' = sem /\ x2' = x2
      /\ x2 = [q \in Rd!Children |-> x2[q]]
  BY DEF Rd!read_eof, Rd!seek_cur, Rd!seek_set, Rd!seek_end, Rd!Seeks, RdInv, RdTypes
<1>3. /\ pc[3] \in {"eof", "cur", "set"} => x2[3] = <<>>
      /\ pc[3] = "end" => x2[3] = Rd!Text(12, 13)
  BY RdChildren DEF RdInv, BufIs
<1>4. CASE Rd!read_eof(i)
  <2>1. Rd!Got(512) = <<>>
    <3>1. Rd!Got(512) = Rd!Text(39, 0)
      BY <1>1, <1>4 DEF Rd!Got, Rd!SIZE, Rd!read_eof, Rd!Seeks, Rd!At
    <3> QED BY <3>1 DEF Rd!Text
  <2>2. pc[3] = "eof" /\ pc' = [pc EXCEPT ![3] = "cur"] /\ x1' = 39
    BY <1>1, <1>4, <2>1 DEF Rd!read_eof, Rd!Seeks, Rd!At
  <2>3. RdGoes(3, "cur")
    BY <2>2 DEF RdGoes, RdPlaces
  <2> QED BY <1>1, <1>2, <1>3, <2>2, <2>3, RdLastMoves
<1>5. CASE Rd!seek_cur(i)
  <2>1. pc[3] = "cur" /\ pc' = [pc EXCEPT ![3] = "set"] /\ x1' = 39
    BY <1>1, <1>5 DEF Rd!seek_cur, Rd!Seeks, Rd!At
  <2>2. RdGoes(3, "set")
    BY <2>1 DEF RdGoes, RdPlaces
  <2> QED BY <1>1, <1>2, <1>3, <2>1, <2>2, RdLastMoves
<1>6. CASE Rd!seek_set(i)
  <2>1. pc[3] = "set" /\ pc' = [pc EXCEPT ![3] = "dup1"] /\ x1' = 12
    BY <1>1, <1>6 DEF Rd!seek_set, Rd!Seeks, Rd!At
  <2>2. RdGoes(3, "dup1")
    BY <2>1 DEF RdGoes, RdPlaces
  <2> QED BY <1>1, <1>2, <1>3, <2>1, <2>2, RdLastMoves
<1>7. CASE Rd!seek_end(i)
  <2>1. pc[3] = "end" /\ pc' = [pc EXCEPT ![3] = "dup2"] /\ x1' = 25
    BY <1>1, <1>7 DEF Rd!seek_end, Rd!Seeks, Rd!At, Rd!SeekEnd, Rd!SIZE
  <2>2. RdGoes(3, "dup2")
    BY <2>1 DEF RdGoes, RdPlaces
  <2> QED BY <1>1, <1>2, <1>3, <2>1, <2>2, RdLastMoves
<1> QED BY <1>4, <1>5, <1>6, <1>7

LEMMA RdDups ==
  ASSUME RdInv, NEW i \in Rd!Children, Rd!read_dup1(i) \/ Rd!read_dup2(i)
  PROVE  RdInv'
<1>0. pc[i] \in {"dup1", "dup2"} /\ \A s \in 0 .. 2 : ~Waits(sem[s], i)
  BY RdSem DEF Rd!read_dup1, Rd!read_dup2, Rd!Reads, Rd!At
<1>1. /\ i = 3 /\ x1 = IF pc[3] = "dup1" THEN 12 ELSE 25
      /\ \A s \in 0 .. 2 : ~Waits(sem[s], 3)
  BY <1>0, RdLast
<1>2. /\ pc[3] = "dup1" => x2[3] = <<>>
      /\ pc[3] = "dup2" => x2[3] = Rd!Text(12, 13)
  BY RdChildren DEF RdInv, BufIs
<1>3. CASE Rd!read_dup1(i)
  <2>1. Rd!Reads(3, Rd!ans[1], "dup1", "end") /\ pc[3] = "dup1" /\ 3 \in Rd!Children /\ 1 \in 0 .. 2
    BY <1>1, <1>3, RdChildren DEF Rd!read_dup1, Rd!Reads, Rd!At
  <2>2. x1 = (CASE 1 = 0 -> 0 [] 1 = 1 -> 12 [] 1 = 2 -> 25) /\ x2[3] = <<>>
    BY <1>1, <1>2, <2>1
  <2>3. /\ pc' = [pc EXCEPT ![3] = "end"]
        /\ x1' = (CASE 1 = 0 -> 12 [] 1 = 1 -> 25 [] 1 = 2 -> 39)
        /\ x2'[3] = Rd!ans[1] /\ x2' = [q \in Rd!Children |-> x2'[q]]
        /\ \A q \in Rd!Children : q # 3 => x2'[q] = x2[q]
        /\ sem' = sem
    BY <2>1, <2>2, RdReadAnswer
  <2>4. x1' = 25 /\ x2'[3] = Rd!Text(12, 13)
    BY <2>3, RdReadsGive
  <2>5. RdGoes(3, "end")
    BY <2>1, <2>3 DEF RdGoes, RdPlaces
  <2> QED BY <1>1, <2>1, <2>3, <2>4, <2>5, RdLastMoves
<1>4. CASE Rd!read_dup2(i)
  <2>1. Rd!Reads(3, Rd!ans[2], "dup2", "exit") /\ pc[3] = "dup2" /\ 3 \in Rd!Children /\ 2 \in 0 .. 2
    BY <1>1, <1>4, RdChildren DEF Rd!read_dup2, Rd!Reads, Rd!At
  <2>2. x1 = (CASE 2 = 0 -> 0 [] 2 = 1 -> 12 [] 2 = 2 -> 25) /\ x2[3] = Rd!Text(12, 13)
    BY <1>1, <1>2, <2>1
  <2>3. /\ pc' = [pc EXCEPT ![3] = "exit"]
        /\ x1' = (CASE 2 = 0 -> 12 [] 2 = 1 -> 25 [] 2 = 2 -> 39)
        /\ x2' = [q \in Rd!Children |-> x2'[q]]
        /\ \A q \in Rd!Children : q # 3 => x2'[q] = x2[q]
        /\ sem' = sem
    BY <2>1, <2>2, RdReadAnswer
  <2>4. x1' = 39
    BY <2>3
  <2>5. RdGoes(3, "exit")
    BY <2>1, <2>3 DEF RdGoes, RdPlaces
  <2> QED BY <1>1, <2>1, <2>3, <2>4, <2>5, RdLastMoves
<1> QED BY <1>3, <1>4

ReadInv == prog = "readtest" => RdInv

\* readtest.c: no assertion of a child fails in any order of the processes.  The
\* children come to the shared offset one after the other, each where its
\* answer begins, and the last one reads again what its lseeks have named.
THEOREM NobodyEverAborts == TestsSpec => []Read_NobodyAborts
<1>1. TestsInit => ReadInv
  BY RdInit DEF TestsInit, ReadInv
<1>2. ReadInv /\ [TestsNext]_allVars => ReadInv'
  <2> SUFFICES ASSUME ReadInv, [TestsNext]_allVars, prog = "readtest" PROVE RdInv'
    BY OneProgram DEF ReadInv
  <2>1. RdInv
    BY DEF ReadInv
  <2>2. CASE UNCHANGED allVars
    <3>1. sem' = sem /\ pc' = pc /\ x1' = x1 /\ x2' = x2
      BY <2>2 DEF allVars, vars
    <3>2. RdTypes' = RdTypes /\ OffsetIs' = OffsetIs /\ BufIs' = BufIs
      BY <3>1 DEF RdTypes, OffsetIs, BufIs, Rd!Forked, HasRead
    <3>3. \A s : Turn(s)' = Turn(s)
      BY <3>1 DEF Turn, GaveTurn, AskedTurn
    <3> QED BY <2>1, <3>2, <3>3 DEF RdInv
  <2>3. ASSUME NEW a \in Actors, readtest(a) PROVE RdInv'
    <3>1. CASE a = 0
      BY <2>1, <2>3, <3>1, RdFork, RdWait DEF readtest
    <3>2. CASE a # 0
      <4>1. a - 1 \in Rd!Children /\ Rd!test(a - 1)
        BY <2>3, <3>2 DEF readtest
      <4> QED BY <2>1, <4>1, RdTurn, RdRead, RdSignal, RdSeeks, RdDups DEF Rd!test
    <3> QED BY <3>1, <3>2
  <2> QED BY <2>2, <2>3, OneProgram DEF producer, rmtest, dfstest, waittest, forkfork
<1>3. ReadInv => Read_NobodyAborts
  BY DEF ReadInv, RdInv, RdTypes, RdPlaces, Read_NobodyAborts, Rd!NobodyAborts
<1> QED BY <1>1, <1>2, <1>3, PTL DEF TestsSpec

-----------------------------------------------------------------------------
(* dfstest.c.  The place where a path leads: the moves of each direction   *)
(* are counted.                                                            *)

Paths == Seq(1 .. 4)
Number(p, i, k) == Cardinality({j \in 1 .. (i - 1) : p[j] = k})
Cell(p, i) == <<(Start[1] + Number(p, i, 2)) - Number(p, i, 4), (Start[2] + Number(p, i, 1)) - Number(p, i, 3)>>

LEMMA StepIs ==
  ASSUME NEW a \in Int, NEW b \in Int
  PROVE  /\ D!Step(<<a, b>>, 1) = <<a, b + 1>> /\ D!Step(<<a, b>>, 2) = <<a + 1, b>>
         /\ D!Step(<<a, b>>, 3) = <<a, b - 1>> /\ D!Step(<<a, b>>, 4) = <<a - 1, b>>
BY DEF D!Step, D!moves

LEMMA NumberIs ==
  ASSUME NEW p \in Paths, NEW k
  PROVE  /\ Number(p, 1, k) = 0
         /\ \A i \in 1 .. (Len(p) + 1) : Number(p, i, k) \in Nat
         /\ \A i \in 1 .. Len(p) : Number(p, i + 1, k) = Number(p, i, k) + (IF p[i] = k THEN 1 ELSE 0)
<1> DEFINE S(i) == {j \in 1 .. (i - 1) : p[j] = k}
<1>1. S(1) = {}
  OBVIOUS
<1>2. \A i \in 1 .. (Len(p) + 1) : IsFiniteSet(S(i))
  <2> SUFFICES ASSUME NEW i \in 1 .. (Len(p) + 1) PROVE IsFiniteSet(S(i))
    OBVIOUS
  <2>1. IsFiniteSet(1 .. (i - 1)) /\ S(i) \subseteq 1 .. (i - 1)
    <3>1. i - 1 \in Int /\ 1 \in Int
      BY DEF Paths
    <3> QED BY <3>1, FS_Interval
  <2> HIDE DEF S
  <2> QED BY <2>1, FS_Subset
<1>3. ASSUME NEW i \in 1 .. Len(p)
      PROVE  /\ i \in Nat /\ i \notin S(i)
             /\ S(i + 1) = IF p[i] = k THEN S(i) \cup {i} ELSE S(i)
  BY DEF Paths
<1> HIDE DEF S
<1>4. \A i \in 1 .. (Len(p) + 1) : Cardinality(S(i)) \in Nat
  BY <1>2, FS_CardinalityType
<1>5. ASSUME NEW i \in 1 .. Len(p)
      PROVE  Cardinality(S(i + 1)) = Cardinality(S(i)) + (IF p[i] = k THEN 1 ELSE 0)
  <2>1. i \in 1 .. (Len(p) + 1)
    BY DEF Paths
  <2>2. CASE p[i] = k
    BY <1>2, <1>3, <2>1, <2>2, FS_AddElement, ZenonT(60)
  <2>3. CASE p[i] # k
    <3>1. S(i + 1) = S(i) /\ Cardinality(S(i)) \in Nat
      BY <1>3, <1>4, <2>1, <2>3
    <3> QED BY <2>3, <3>1
  <2> QED BY <2>2, <2>3
<1>6. Cardinality(S(1)) = 0
  BY <1>1, FS_EmptySet
<1> QED BY <1>4, <1>5, <1>6 DEF Number, S

LEMMA StartIs == Start = <<Start[1], Start[2]>> /\ Start[1] \in Int /\ Start[2] \in Int
BY TestsAssumption

LEMMA CellFirst == ASSUME NEW p \in Paths PROVE Cell(p, 1) = Start
<1>1. Number(p, 1, 1) = 0 /\ Number(p, 1, 2) = 0 /\ Number(p, 1, 3) = 0 /\ Number(p, 1, 4) = 0
  BY NumberIs
<1> QED BY <1>1, StartIs DEF Cell

LEMMA CellNext ==
  ASSUME NEW p \in Paths, NEW i \in 1 .. Len(p)
  PROVE  Cell(p, i + 1) = D!Step(Cell(p, i), p[i])
<1> DEFINE n(k) == Number(p, i, k)
<1>0. i \in 1 .. (Len(p) + 1) /\ p[i] \in 1 .. 4
  BY DEF Paths
<1>1. \A k \in 1 .. 4 : n(k) \in Nat /\ Number(p, i + 1, k) = n(k) + (IF p[i] = k THEN 1 ELSE 0)
  BY <1>0, NumberIs
<1> HIDE DEF n
<1>2. Cell(p, i) = <<(Start[1] + n(2)) - n(4), (Start[2] + n(1)) - n(3)>>
  BY DEF Cell, n
<1>3. /\ (Start[1] + n(2)) - n(4) \in Int /\ (Start[2] + n(1)) - n(3) \in Int
      /\ n(1) \in Nat /\ n(2) \in Nat /\ n(3) \in Nat /\ n(4) \in Nat
  BY <1>1, StartIs, SMTT(40)
<1>4. /\ Number(p, i + 1, 1) = n(1) + (IF p[i] = 1 THEN 1 ELSE 0)
      /\ Number(p, i + 1, 2) = n(2) + (IF p[i] = 2 THEN 1 ELSE 0)
      /\ Number(p, i + 1, 3) = n(3) + (IF p[i] = 3 THEN 1 ELSE 0)
      /\ Number(p, i + 1, 4) = n(4) + (IF p[i] = 4 THEN 1 ELSE 0)
  BY <1>1
<1> DEFINE a == (Start[1] + n(2)) - n(4)
           b == (Start[2] + n(1)) - n(3)
<1>5. /\ D!Step(<<a, b>>, 1) = <<a, b + 1>> /\ D!Step(<<a, b>>, 2) = <<a + 1, b>>
      /\ D!Step(<<a, b>>, 3) = <<a, b - 1>> /\ D!Step(<<a, b>>, 4) = <<a - 1, b>>
  <2> HIDE DEF a, b
  <2> QED BY <1>3, StepIs DEF a, b
<1>6. Cell(p, i + 1) = <<(Start[1] + Number(p, i + 1, 2)) - Number(p, i + 1, 4),
                         (Start[2] + Number(p, i + 1, 1)) - Number(p, i + 1, 3)>>
  BY DEF Cell
<1>7. CASE p[i] = 1
  <2>1. Cell(p, i + 1) = <<a, b + 1>>
    BY <1>3, <1>4, <1>6, <1>7, StartIs, SMTT(40)
  <2> QED BY <1>2, <1>5, <1>7, <2>1
<1>8. CASE p[i] = 2
  <2>1. Cell(p, i + 1) = <<a + 1, b>>
    BY <1>3, <1>4, <1>6, <1>8, StartIs, SMTT(40)
  <2> QED BY <1>2, <1>5, <1>8, <2>1
<1>9. CASE p[i] = 3
  <2>1. Cell(p, i + 1) = <<a, b - 1>>
    BY <1>3, <1>4, <1>6, <1>9, StartIs, SMTT(40)
  <2> QED BY <1>2, <1>5, <1>9, <2>1
<1>10. CASE p[i] = 4
  <2>1. Cell(p, i + 1) = <<a - 1, b>>
    BY <1>3, <1>4, <1>6, <1>10, StartIs, SMTT(40)
  <2> QED BY <1>2, <1>5, <1>10, <2>1
<1> QED BY <1>0, <1>7, <1>8, <1>9, <1>10

LEMMA CellSame ==
  ASSUME NEW p \in Paths, NEW v \in Paths, NEW i \in Nat, \A j \in 1 .. (i - 1) : p[j] = v[j]
  PROVE  Cell(p, i) = Cell(v, i)
<1>1. \A k : Number(p, i, k) = Number(v, i, k)
  <2> SUFFICES ASSUME NEW k PROVE {j \in 1 .. (i - 1) : p[j] = k} = {j \in 1 .. (i - 1) : v[j] = k}
    BY DEF Number
  <2> QED OBVIOUS
<1> QED BY <1>1 DEF Cell

\* Different moves lead to different places.
LEMMA StepOnce ==
  ASSUME NEW c \in Int \X Int, NEW k \in 1 .. 4, NEW l \in 1 .. 4, D!Step(c, k) = D!Step(c, l)
  PROVE  k = l
<1>1. c = <<c[1], c[2]>> /\ c[1] \in Int /\ c[2] \in Int
  OBVIOUS
<1> DEFINE a == c[1]
           b == c[2]
<1>2. /\ D!Step(c, 1) = <<a, b + 1>> /\ D!Step(c, 2) = <<a + 1, b>>
      /\ D!Step(c, 3) = <<a, b - 1>> /\ D!Step(c, 4) = <<a - 1, b>>
      /\ a \in Int /\ b \in Int
  BY <1>1, StepIs
<1> HIDE DEF a, b
<1>3. \A x, y, z, w : <<x, y>> = <<z, w>> => x = z /\ y = w
  OBVIOUS
<1>4. k \in {1, 2, 3, 4} /\ l \in {1, 2, 3, 4}
  OBVIOUS
<1> QED BY <1>2, <1>3, <1>4

-----------------------------------------------------------------------------
(* The paths that the search may follow, the maps that it draws, and the   *)
(* ways of the maze.                                                       *)

\* A path that visits no place twice and stops at Dest.
Straight(p) ==
  /\ \A i \in 1 .. (Len(p) + 1) : Cell(p, i) \in Cells
  /\ \A i, j \in 1 .. (Len(p) + 1) : Cell(p, i) = Cell(p, j) => i = j
  /\ \A i \in 1 .. Len(p) : Cell(p, i) # Dest
ToDest(v) == v \in Paths /\ Straight(v) /\ Cell(v, Len(v) + 1) = Dest

\* m is the map with the moves of p.
IsMap(m, p) ==
  /\ m = [c \in Cells |-> m[c]]
  /\ \A i \in 1 .. Len(p) : m[Cell(p, i)] = D!Ch[p[i]]
  /\ \A c \in Cells : (\A i \in 1 .. Len(p) : Cell(p, i) # c) => m[c] = D!Map0[c]

WayOf(v) == [i \in 1 .. (Len(v) + 1) |-> Cell(v, i)]

LEMMA Least ==
  ASSUME NEW S \in SUBSET Nat, S # {}
  PROVE  \E x \in S : \A y \in S : x <= y
<1>1. \E x \in S : \A y \in S : ~ (<<y, x>> \in OpToRel(<, Nat))
  BY WFMin, NatLessThanWellFounded
<1>2. \A x, y \in Nat : <<y, x>> \in OpToRel(<, Nat) <=> y < x
  BY Zenon DEF OpToRel
<1>3. \E x \in S : \A y \in S : ~(y < x)
  BY <1>1, <1>2, Zenon
<1> QED BY <1>3

LEMMA ChOnce ==
  /\ \A k, l \in 1 .. 4 : D!Ch[k] = D!Ch[l] => k = l
  /\ \A k \in 1 .. 4 : D!Ch[k] \in {">", "v", "<", "^"} /\ D!Ch[k] \notin {"+", "."}
BY DEF D!Ch

LEMMA MapOnce ==
  ASSUME NEW p, NEW m, IsMap(m, p), NEW n, IsMap(n, p)
  PROVE  m = n
<1>1. ASSUME NEW c \in Cells PROVE m[c] = n[c]
  <2>1. ASSUME NEW i \in 1 .. Len(p), Cell(p, i) = c PROVE m[c] = n[c]
    <3>1. m[Cell(p, i)] = D!Ch[p[i]] /\ n[Cell(p, i)] = D!Ch[p[i]]
      BY DEF IsMap
    <3> QED BY <2>1, <3>1
  <2>2. CASE \A i \in 1 .. Len(p) : Cell(p, i) # c
    BY <2>2 DEF IsMap
  <2> QED BY <2>1, <2>2
<1> QED BY <1>1 DEF IsMap

\* A map shows the way that is drawn into it.
LEMMA SamePlaces ==
  ASSUME NEW v, ToDest(v), NEW w, ToDest(w), NEW m, IsMap(m, v), IsMap(m, w)
  PROVE  \A i \in 1 .. Len(v) : i <= Len(w) /\ v[i] = w[i]
<1> DEFINE Bad == {i \in 1 .. Len(v) : ~(i <= Len(w) /\ v[i] = w[i])}
<1>0. /\ v \in Paths /\ w \in Paths /\ Len(v) \in Nat /\ Len(w) \in Nat
      /\ \A i \in 1 .. Len(v) : v[i] \in 1 .. 4
      /\ \A i \in 1 .. Len(w) : w[i] \in 1 .. 4
  BY DEF ToDest, Paths
<1>1. ASSUME Bad # {} PROVE FALSE
  <2>1. Bad \in SUBSET Nat
    BY <1>0
  <2>2. PICK x \in Bad : \A y \in Bad : x <= y
    <3> HIDE DEF Bad
    <3> QED BY <1>1, <2>1, Least
  <2>3. x \in 1 .. Len(v) /\ ~(x <= Len(w) /\ v[x] = w[x])
    OBVIOUS
  <2>4. \A j \in 1 .. (x - 1) : j <= Len(w) /\ v[j] = w[j]
    <3> SUFFICES ASSUME NEW j \in 1 .. (x - 1) PROVE j \notin Bad /\ j \in 1 .. Len(v)
      OBVIOUS
    <3> QED BY <1>0, <2>2, <2>3
  <2>5. Cell(v, x) = Cell(w, x)
    BY <1>0, <2>3, <2>4, CellSame
  <2>6. Cell(v, x) # Dest
    BY <2>3 DEF ToDest, Straight
  <2>7. x <= Len(w)
    <3> SUFFICES ASSUME x > Len(w) PROVE FALSE
      BY <1>0, <2>3
    <3>1. x = Len(w) + 1
      <4>1. x = 1 \/ x - 1 \in 1 .. (x - 1)
        BY <2>3
      <4> QED BY <1>0, <2>3, <2>4, <4>1
    <3> QED BY <2>5, <2>6, <3>1 DEF ToDest
  <2>8. x \in 1 .. Len(w)
    BY <1>0, <2>3, <2>7
  <2>9. m[Cell(v, x)] = D!Ch[v[x]] /\ m[Cell(w, x)] = D!Ch[w[x]]
    BY <2>3, <2>8 DEF IsMap
  <2> QED BY <1>0, <2>3, <2>5, <2>7, <2>8, <2>9, ChOnce
<1> QED BY <1>1

LEMMA MapShowsWay ==
  ASSUME NEW v, ToDest(v), NEW w, ToDest(w), NEW m, IsMap(m, v), IsMap(m, w)
  PROVE  v = w
<1>1. \A i \in 1 .. Len(v) : i <= Len(w) /\ v[i] = w[i]
  BY SamePlaces
<1>2. \A i \in 1 .. Len(w) : i <= Len(v) /\ w[i] = v[i]
  BY SamePlaces
<1>3. v \in Seq(1 .. 4) /\ w \in Seq(1 .. 4) /\ Len(v) \in Nat /\ Len(w) \in Nat
  BY DEF ToDest, Paths
<1>4. Len(v) = Len(w)
  <2>1. Len(v) > 0 => Len(v) \in 1 .. Len(v)
    BY <1>3
  <2>2. Len(w) > 0 => Len(w) \in 1 .. Len(w)
    BY <1>3
  <2> QED BY <1>1, <1>2, <1>3, <2>1, <2>2
<1> QED BY <1>1, <1>3, <1>4

LEMMA DCard == \A S : D!Cardinality(S) = Cardinality(S)
BY DEF D!Cardinality, Cardinality, D!IsFiniteSet, IsFiniteSet

IsWay(w) ==
  /\ w[1] = Start /\ w[Len(w)] = Dest
  /\ \A i, j \in 1 .. Len(w) : w[i] = w[j] => i = j
  /\ \A i \in 1 .. (Len(w) - 1) : \E k \in 1 .. 4 : w[i + 1] = D!Step(w[i], k)

LEMMA WaysAre ==
  \A w : w \in D!Ways <=>
    /\ \E n \in 1 .. Cardinality(Cells) : w \in [1 .. n -> Cells]
    /\ IsWay(w)
BY DCard DEF D!Ways, IsWay

LEMMA WayOfIn ==
  ASSUME NEW v, ToDest(v)
  PROVE  WayOf(v) \in D!Ways /\ Len(WayOf(v)) = Len(v) + 1
<1> DEFINE w == WayOf(v)
           n == Len(v) + 1
<1>1. v \in Paths /\ n \in Nat /\ n >= 1 /\ Len(v) \in Nat /\ Len(v) = n - 1
  BY DEF ToDest, Paths
<1>2. w \in [1 .. n -> Cells] /\ \A i \in 1 .. n : w[i] = Cell(v, i)
  BY DEF ToDest, Straight, WayOf
<1>3. Len(w) = n
  BY <1>1 DEF WayOf
<1>4. n <= Cardinality(Cells)
  <2>1. w \in Injection(1 .. n, Cells)
    BY <1>2 DEF Injection, IsInjective, ToDest, Straight
  <2>2. Cardinality(1 .. n) <= Cardinality(Cells)
    <3> HIDE DEF w, n
    <3> QED BY <2>1, FS_Injection, TestsAssumption
  <2>3. Cardinality(1 .. n) = n
    <3> HIDE DEF n
    <3>1. n \in Int /\ 1 \in Int
      BY <1>1
    <3>2. Cardinality(1 .. n) = IF 1 > n THEN 0 ELSE n - 1 + 1
      BY <3>1, FS_Interval
    <3> QED BY <1>1, <3>2
  <2> QED BY <2>2, <2>3
<1>5. w[1] = Start /\ w[n] = Dest
  <2>1. 1 \in 1 .. n /\ n \in 1 .. n
    BY <1>1
  <2> QED BY <1>1, <1>2, <2>1, CellFirst DEF ToDest
<1>6. \A i, j \in 1 .. n : w[i] = w[j] => i = j
  BY <1>2 DEF ToDest, Straight
<1>7. ASSUME NEW i \in 1 .. (n - 1) PROVE \E k \in 1 .. 4 : w[i + 1] = D!Step(w[i], k)
  <2>1. i \in 1 .. Len(v) /\ i \in 1 .. n /\ i + 1 \in 1 .. n /\ v[i] \in 1 .. 4
    BY <1>1 DEF Paths
  <2>2. w[i + 1] = D!Step(w[i], v[i])
    BY <1>1, <1>2, <2>1, CellNext
  <2> QED BY <2>1, <2>2
<1> HIDE DEF w, n
<1>8. IsWay(w)
  BY <1>3, <1>5, <1>6, <1>7 DEF IsWay
<1>9. Cardinality(Cells) \in Nat
  BY TestsAssumption, FS_CardinalityType
<1>10. n \in 1 .. Cardinality(Cells)
  BY <1>1, <1>4, <1>9
<1>11. w \in D!Ways
  BY <1>2, <1>8, <1>10, WaysAre
<1> QED BY <1>3, <1>11 DEF w, n

LEMMA InWayOf ==
  ASSUME NEW w \in D!Ways
  PROVE  \E v : ToDest(v) /\ WayOf(v) = w
<1>1. PICK n \in 1 .. Cardinality(Cells) : w \in [1 .. n -> Cells]
  BY WaysAre
<1>2. IsWay(w) /\ n \in Nat /\ n >= 1 /\ Len(w) = n
  <2>1. n \in Nat /\ n >= 1
    BY TestsAssumption, FS_CardinalityType
  <2> QED BY <1>1, <2>1, WaysAre
<1>3. /\ w[1] = Start /\ w[n] = Dest
      /\ \A i, j \in 1 .. n : w[i] = w[j] => i = j
      /\ \A i \in 1 .. (n - 1) : \E k \in 1 .. 4 : w[i + 1] = D!Step(w[i], k)
  BY <1>2 DEF IsWay
<1> DEFINE v == [i \in 1 .. (n - 1) |-> CHOOSE k \in 1 .. 4 : w[i + 1] = D!Step(w[i], k)]
<1>4. \A i \in 1 .. (n - 1) : v[i] \in 1 .. 4 /\ w[i + 1] = D!Step(w[i], v[i])
  BY <1>3
<1>5. v \in Paths /\ Len(v) = n - 1
  BY <1>2, <1>4 DEF Paths
<1> HIDE DEF v
<1>6. \A i \in 1 .. n : Cell(v, i) = w[i]
  <2> DEFINE Bad == {i \in 1 .. n : Cell(v, i) # w[i]}
  <2> SUFFICES ASSUME Bad # {} PROVE FALSE
    OBVIOUS
  <2>1. Bad \in SUBSET Nat
    BY <1>2
  <2>2. PICK x \in Bad : \A y \in Bad : x <= y
    <3> HIDE DEF Bad
    <3> QED BY <2>1, Least
  <2>3. x \in 1 .. n /\ Cell(v, x) # w[x]
    OBVIOUS
  <2>4. x # 1
    BY <1>3, <1>5, <2>3, CellFirst
  <2>5. x - 1 \in 1 .. (n - 1) /\ x - 1 \in 1 .. n /\ (x - 1) + 1 = x /\ ~(x <= x - 1)
    BY <1>2, <2>3, <2>4
  <2>6. Cell(v, x - 1) = w[x - 1]
    BY <2>2, <2>5
  <2>7. Cell(v, (x - 1) + 1) = D!Step(Cell(v, x - 1), v[x - 1])
    BY <1>5, <2>5, CellNext
  <2>8. w[(x - 1) + 1] = D!Step(w[x - 1], v[x - 1])
    BY <1>4, <2>5
  <2> QED BY <2>3, <2>5, <2>6, <2>7, <2>8
<1>7. Len(v) + 1 = n /\ \A i \in 1 .. Len(v) : i \in 1 .. n /\ i # n /\ n \in 1 .. n
  BY <1>2, <1>5
<1>8. WayOf(v) = w
  BY <1>1, <1>6, <1>7 DEF WayOf
<1>9. \A i \in 1 .. Len(v) : Cell(v, i) # Dest
  BY <1>3, <1>6, <1>7
<1>10. Straight(v)
  BY <1>1, <1>3, <1>6, <1>7, <1>9 DEF Straight
<1>11. Cell(v, Len(v) + 1) = Dest
  <2>1. n \in 1 .. n
    BY <1>2
  <2> QED BY <1>3, <1>6, <1>7, <2>1
<1> QED BY <1>5, <1>8, <1>10, <1>11 DEF ToDest

LEMMA DrawnIs ==
  ASSUME NEW v, ToDest(v)
  PROVE  IsMap(D!Drawn(WayOf(v)), v)
<1> DEFINE w == WayOf(v)
           n == Len(v) + 1
           m == D!Drawn(w)
           On(c) == \E i \in 1 .. Len(w) : w[i] = c
           Out(c) == CHOOSE k \in 1 .. 4 : \E i \in 1 .. (Len(w) - 1) : w[i] = c /\ w[i + 1] = D!Step(c, k)
<1>1. v \in Paths /\ n \in Nat /\ n >= 1 /\ Len(v) \in Nat /\ Len(v) = n - 1
  BY DEF ToDest, Paths
<1>2. Len(w) = n /\ \A i \in 1 .. n : w[i] = Cell(v, i) /\ w[i] \in Cells
  BY WayOfIn DEF WayOf, ToDest, Straight
<1>3. m = [c \in Cells |-> IF c = Dest THEN "+" ELSE IF On(c) THEN D!Ch[Out(c)] ELSE "."]
  BY DEF D!Drawn
<1>4. \A i, j \in 1 .. n : w[i] = w[j] => i = j
  BY <1>2 DEF ToDest, Straight
<1> HIDE DEF w, m
<1>5. ASSUME NEW i \in 1 .. Len(v) PROVE m[Cell(v, i)] = D!Ch[v[i]]
  <2> DEFINE c == Cell(v, i)
  <2>1. /\ i \in 1 .. n /\ i \in 1 .. (n - 1) /\ i + 1 \in 1 .. n /\ v[i] \in 1 .. 4
        /\ w[i] = c /\ c \in Cells /\ c # Dest /\ c \in Int \X Int
    <3>1. i \in 1 .. n /\ i \in 1 .. (n - 1) /\ i + 1 \in 1 .. n /\ v[i] \in 1 .. 4
      BY <1>1 DEF Paths
    <3>2. w[i] = c /\ c \in Cells
      BY <1>2, <3>1
    <3>3. c # Dest
      BY DEF ToDest, Straight
    <3> QED BY <3>1, <3>2, <3>3, TestsAssumption
  <2>2. w[i + 1] = D!Step(c, v[i])
    BY <1>1, <1>2, <2>1, CellNext
  <2> HIDE DEF c, n
  <2>3. \E k \in 1 .. 4 : \E j \in 1 .. (Len(w) - 1) : w[j] = c /\ w[j + 1] = D!Step(c, k)
    BY <1>2, <2>1, <2>2
  <2>4. PICK j \in 1 .. (Len(w) - 1) : w[j] = c /\ w[j + 1] = D!Step(c, Out(c)) /\ Out(c) \in 1 .. 4
    BY <2>3
  <2>5. j = i
    <3>1. j \in 1 .. n
      BY <1>1, <1>2, <2>4
    <3> QED BY <1>4, <2>1, <2>4, <3>1
  <2>6. Out(c) = v[i]
    <3> HIDE DEF Out
    <3>1. D!Step(c, Out(c)) = D!Step(c, v[i])
      BY <2>2, <2>4, <2>5
    <3> QED BY <2>1, <2>4, <3>1, StepOnce
  <2>7. On(c)
    BY <1>2, <2>1
  <2> HIDE DEF On, Out
  <2>8. m[c] = D!Ch[Out(c)]
    BY <1>3, <2>1, <2>7
  <2> QED BY <2>6, <2>8 DEF c
<1>6. ASSUME NEW c \in Cells, \A i \in 1 .. Len(v) : Cell(v, i) # c PROVE m[c] = D!Map0[c]
  <2>1. CASE c = Dest
    BY <1>3, <2>1 DEF D!Map0
  <2>2. CASE c # Dest
    <3>1. ~On(c)
      <4> SUFFICES ASSUME NEW i \in 1 .. Len(w), w[i] = c PROVE FALSE
        OBVIOUS
      <4>1. i \in 1 .. n /\ Cell(v, i) = c
        BY <1>2
      <4>2. i = n
        BY <1>1, <1>6, <4>1
      <4> QED BY <2>2, <4>1, <4>2 DEF ToDest
    <3> HIDE DEF On, Out
    <3>2. m[c] = "."
      BY <1>3, <2>2, <3>1
    <3> QED BY <2>2, <3>2 DEF D!Map0
  <2> QED BY <2>1, <2>2
<1>7. m = [c \in Cells |-> m[c]]
  <2> HIDE DEF On, Out
  <2> QED BY <1>3
<1>8. IsMap(m, v)
  BY <1>5, <1>6, <1>7 DEF IsMap
<1> QED BY <1>8 DEF m, w

-----------------------------------------------------------------------------
(* The processes.                                                          *)

Marks == {"+", ".", ">", "v", "<", "^"}
Proc(q) ==
  /\ q = [at |-> q.at, map |-> q.map, m |-> q.m, nfork |-> q.nfork, state |-> q.state]
  /\ q.m \in 1 .. 5 /\ q.nfork \in Nat /\ q.state \in {"loop", "wait", "zombie"}

\* Process p goes on, the others do not.
Becomes(p, m, n, s) ==
  /\ pc' = [d \in DOMAIN pc |-> pc'[d]] /\ \A d \in DOMAIN pc : d # p => pc'[d] = pc[d]
  /\ pc'[p] = [at |-> pc[p].at, map |-> pc[p].map, m |-> m, nfork |-> n, state |-> s]

Typed == pc = [p \in DOMAIN pc |-> pc[p]] /\ \A p \in DOMAIN pc : Proc(pc[p])

\* p's loop leads on to this place.
LeadsOn(p) == D!Step(pc[p].at, pc[p].m) \in Cells /\ pc[p].map[D!Step(pc[p].at, pc[p].m)] \in {"+", "."}

LEMMA DisplayDoes ==
  ASSUME Typed, NEW p \in DOMAIN pc, D!display(p)
  PROVE  /\ pc[p].state = "loop" /\ pc[p].map[pc[p].at] = "+"
         /\ x1' = Append(x1, pc[p].map) /\ x2' = x2
         /\ Becomes(p, pc[p].m, pc[p].nfork, "zombie")
<1>1. /\ pc[p].state = "loop" /\ pc[p].map[pc[p].at] = "+"
      /\ x1' = Append(x1, pc[p].map) /\ x2' = x2
      /\ pc' = [pc EXCEPT ![p].state = "zombie"]
  BY DEF D!display
<1>2. Proc(pc[p]) /\ pc = [d \in DOMAIN pc |-> pc[d]]
  BY DEF Typed
<1> QED BY <1>1, <1>2 DEF Becomes, Proc

LEMMA EnterWaitDoes ==
  ASSUME Typed, NEW p \in DOMAIN pc, D!enter_wait(p)
  PROVE  /\ pc[p].state = "loop" /\ pc[p].m > 4 /\ x1' = x1 /\ x2' = x2
         /\ Becomes(p, pc[p].m, pc[p].nfork, "wait")
<1>1. /\ pc[p].state = "loop" /\ pc[p].m > 4 /\ x1' = x1 /\ x2' = x2
      /\ pc' = [pc EXCEPT ![p].state = "wait", ![p].nfork = pc[p].nfork]
  BY DEF D!enter_wait, D!ToWait, D!moves
<1>2. Proc(pc[p]) /\ pc = [d \in DOMAIN pc |-> pc[d]]
  BY DEF Typed
<1> QED BY <1>1, <1>2 DEF Becomes, Proc

LEMMA ExitDoes ==
  ASSUME Typed, NEW p \in DOMAIN pc, D!exit(p)
  PROVE  /\ pc[p].state = "wait" /\ pc[p].nfork = 0 /\ x1' = x1 /\ x2' = x2
         /\ Becomes(p, pc[p].m, pc[p].nfork, "zombie")
<1>1. /\ pc[p].state = "wait" /\ pc[p].nfork = 0 /\ x1' = x1 /\ x2' = x2
      /\ pc' = [pc EXCEPT ![p].state = "zombie"]
  BY DEF D!exit
<1>2. Proc(pc[p]) /\ pc = [d \in DOMAIN pc |-> pc[d]]
  BY DEF Typed
<1> QED BY <1>1, <1>2 DEF Becomes, Proc

\* p reaps its child c.
Reaps(p, c) ==
  /\ c \in D!Children(p) /\ pc[c].state = "zombie" /\ c # p
  /\ pc' = [d \in DOMAIN pc \ {c} |-> pc'[d]]
  /\ \A d \in DOMAIN pc \ {c} : d # p => pc'[d] = pc[d]
  /\ pc'[p] = [at |-> pc[p].at, map |-> pc[p].map, m |-> pc[p].m, nfork |-> pc[p].nfork - 1, state |-> pc[p].state]

LEMMA WaitDoes ==
  ASSUME Typed, NEW p \in DOMAIN pc, D!wait(p)
  PROVE  /\ pc[p].state = "wait" /\ pc[p].nfork > 0 /\ x1' = x1 /\ x2' = x2
         /\ \/ \E c : Reaps(p, c)
            \/ D!Children(p) = {} /\ Becomes(p, pc[p].m, pc[p].nfork - 1, pc[p].state)
<1>1. pc[p].state = "wait" /\ pc[p].nfork > 0 /\ x1' = x1 /\ x2' = x2
  BY DEF D!wait
<1>2. Proc(pc[p]) /\ pc = [d \in DOMAIN pc |-> pc[d]]
  BY DEF Typed
<1>3. CASE D!Children(p) = {} /\ pc' = [pc EXCEPT ![p].nfork = @ - 1]
  BY <1>1, <1>2, <1>3 DEF Becomes, Proc
<1>4. ASSUME NEW c \in D!Children(p), pc[c].state = "zombie",
             pc' = [d \in DOMAIN pc \ {c} |-> IF d = p THEN [pc[p] EXCEPT !.nfork = @ - 1] ELSE pc[d]]
      PROVE  Reaps(p, c)
  <2>1. c # p
    BY <1>1, <1>4
  <2> QED BY <1>2, <1>4, <2>1 DEF Reaps, Proc
<1> QED BY <1>1, <1>3, <1>4 DEF D!wait

\* p forks the child c for its next move.
Forks(p, c) ==
  /\ c = Append(p, pc[p].m)
  /\ pc' = [d \in DOMAIN pc \cup {c} |-> pc'[d]]
  /\ \A d \in DOMAIN pc : d # p /\ d # c => pc'[d] = pc[d]
  /\ pc'[p] = [at |-> pc[p].at, map |-> pc[p].map, m |-> pc[p].m + 1, nfork |-> pc[p].nfork + 1, state |-> pc[p].state]
  /\ pc'[c] = [at |-> D!Step(pc[p].at, pc[p].m), map |-> [pc[p].map EXCEPT ![pc[p].at] = D!Ch[pc[p].m]],
                 m |-> 1, nfork |-> 0, state |-> "loop"]

LEMMA MoveDoes ==
  ASSUME Typed, NEW p \in DOMAIN pc, p \in Paths, D!move(p)
  PROVE  /\ pc[p].state = "loop" /\ pc[p].map[pc[p].at] # "+" /\ pc[p].m <= 4 /\ x1' = x1
         /\ \/ LeadsOn(p) /\ x2' = x2 /\ Forks(p, Append(p, pc[p].m))
            \/ LeadsOn(p) /\ x2' = TRUE /\ Becomes(p, pc[p].m + 1, pc[p].nfork + 1, pc[p].state)
            \/ ~LeadsOn(p) /\ x2' = x2 /\ Becomes(p, pc[p].m + 1, pc[p].nfork, pc[p].state)
<1> DEFINE q == pc[p]
           c == Append(p, q.m)
           counted == [pc EXCEPT ![p] = [q EXCEPT !.m = @ + 1, !.nfork = @ + 1]]
           child == [at |-> D!Step(q.at, q.m), map |-> [q.map EXCEPT ![q.at] = D!Ch[q.m]],
                     m |-> 1, nfork |-> 0, state |-> "loop"]
<1>1. Proc(q) /\ pc = [d \in DOMAIN pc |-> pc[d]]
  BY DEF Typed
<1>2. /\ q.state = "loop" /\ q.map[q.at] # "+" /\ q.m <= 4 /\ x1' = x1
      /\ IF LeadsOn(p)
         THEN \/ pc' = [d \in DOMAIN pc \cup {c} |-> IF d = c THEN child ELSE counted[d]] /\ x2' = x2
              \/ pc' = counted /\ x2' = TRUE
         ELSE pc' = [pc EXCEPT ![p].m = @ + 1] /\ x2' = x2
  BY DEF D!move, D!Enters, D!Marked, LeadsOn, D!moves
<1>3. c # p
  <2>1. Len(c) = Len(p) + 1 /\ Len(p) \in Nat
    BY DEF Paths
  <2> QED BY <2>1
<1>4. /\ counted = [d \in DOMAIN pc |-> counted[d]] /\ \A d \in DOMAIN pc : d # p => counted[d] = pc[d]
      /\ counted[p] = [at |-> q.at, map |-> q.map, m |-> q.m + 1, nfork |-> q.nfork + 1, state |-> q.state]
  BY <1>1 DEF Proc
<1>5. ASSUME ~LeadsOn(p) PROVE Becomes(p, q.m + 1, q.nfork, q.state)
  BY <1>1, <1>2, <1>5 DEF Becomes, Proc
<1> HIDE DEF counted, c, child
<1>6. ASSUME LeadsOn(p), pc' = counted PROVE Becomes(p, q.m + 1, q.nfork + 1, q.state)
  BY <1>4, <1>6 DEF Becomes
<1>7. ASSUME LeadsOn(p), pc' = [d \in DOMAIN pc \cup {c} |-> IF d = c THEN child ELSE counted[d]]
      PROVE  Forks(p, c)
  BY <1>3, <1>4, <1>7 DEF Forks, c, child
<1> QED BY <1>2, <1>5, <1>6, <1>7 DEF c

-----------------------------------------------------------------------------
(* The invariant of the search.                                            *)

\* q is p's parent, or the parent's parent, ...
Above(q, p) == Len(q) < Len(p) /\ \A i \in 1 .. Len(q) : q[i] = p[i]

MazeTree ==
  /\ DOMAIN pc \subseteq Paths /\ <<>> \in DOMAIN pc
  /\ \A p \in DOMAIN pc : \A n \in 0 .. (Len(p) - 1) : SubSeq(p, 1, n) \in DOMAIN pc
  /\ \A p, q \in DOMAIN pc : Above(q, p) => pc[q].m > p[Len(q) + 1] /\ pc[q].state # "zombie"
Placed(p) ==
  /\ Straight(p) /\ pc[p].at = Cell(p, Len(p) + 1) /\ IsMap(pc[p].map, p)
  /\ pc[p].at = Dest => pc[p].m = 1
Counted(p) == Cardinality(D!Children(p)) <= pc[p].nfork

\* The way v is ahead of process p, of some process; or it has been printed.
Ahead(p, v) == pc[p].state = "loop" /\ (p = v \/ (Above(p, v) /\ v[Len(p) + 1] >= pc[p].m))
Pending(v) == \E p \in DOMAIN pc : Ahead(p, v)
Shown(v) == \E i \in 1 .. Len(x1) : IsMap(x1[i], v)

MazeMaps ==
  /\ x1 \in Seq([Cells -> Marks]) /\ x2 \in BOOLEAN
  /\ \A i \in 1 .. Len(x1) : \E v : ToDest(v) /\ IsMap(x1[i], v)
  /\ \A i, j \in 1 .. Len(x1) : x1[i] = x1[j] => i = j
  /\ \A v : ToDest(v) => (Pending(v) => ~Shown(v)) /\ (~x2 => Pending(v) \/ Shown(v))

MazeInv == Typed /\ MazeTree /\ (\A p \in DOMAIN pc : Placed(p) /\ Counted(p)) /\ MazeMaps

LEMMA MapTyped ==
  ASSUME NEW p \in Paths, NEW m, IsMap(m, p)
  PROVE  m \in [Cells -> Marks]
<1>1. ASSUME NEW c \in Cells PROVE m[c] \in Marks
  <2>1. ASSUME NEW i \in 1 .. Len(p), Cell(p, i) = c PROVE m[c] \in Marks
    <3>1. m[Cell(p, i)] = D!Ch[p[i]]
      BY DEF IsMap
    <3>2. p[i] \in 1 .. 4
      BY DEF Paths
    <3> QED BY <2>1, <3>1, <3>2, ChOnce DEF Marks
  <2>2. CASE \A i \in 1 .. Len(p) : Cell(p, i) # c
    BY <2>2 DEF IsMap, D!Map0, Marks
  <2> QED BY <2>1, <2>2
<1> QED BY <1>1 DEF IsMap

\* The map shows '+' where the process is when it is at Dest.
LEMMA MapHere ==
  ASSUME NEW p \in DOMAIN pc, p \in Paths, Placed(p)
  PROVE  /\ pc[p].at \in Cells /\ Len(p) \in Nat
         /\ pc[p].map[pc[p].at] = "+" <=> pc[p].at = Dest
<1>1. Len(p) \in Nat /\ Len(p) + 1 \in 1 .. (Len(p) + 1) /\ \A i \in 1 .. Len(p) : i \in 1 .. (Len(p) + 1) /\ i # Len(p) + 1
  BY DEF Paths
<1>2. pc[p].at \in Cells /\ \A i \in 1 .. Len(p) : Cell(p, i) # pc[p].at
  BY <1>1 DEF Placed, Straight
<1>3. pc[p].map[pc[p].at] = D!Map0[pc[p].at]
  BY <1>2 DEF Placed, IsMap
<1> QED BY <1>1, <1>2, <1>3 DEF D!Map0

LEMMA ChildIs ==
  ASSUME MazeTree, NEW p \in Paths, NEW c
  PROVE  c \in D!Children(p) <=> c \in DOMAIN pc /\ Len(c) = Len(p) + 1 /\ Above(p, c)
<1>1. c \in D!Children(p) <=> c \in DOMAIN pc /\ Len(c) = Len(p) + 1 /\ SubSeq(c, 1, Len(p)) = p
  BY DEF D!Children
<1>2. ASSUME c \in DOMAIN pc, Len(c) = Len(p) + 1
      PROVE  SubSeq(c, 1, Len(p)) = p <=> Above(p, c)
  <2>1. p \in Seq(1 .. 4) /\ c \in Seq(1 .. 4) /\ Len(p) \in Nat
    BY <1>2 DEF MazeTree, Paths
  <2>2. /\ SubSeq(c, 1, Len(p)) \in Seq(1 .. 4) /\ Len(SubSeq(c, 1, Len(p))) = Len(p)
        /\ \A i \in 1 .. Len(p) : SubSeq(c, 1, Len(p))[i] = c[i]
    BY <1>2, <2>1
  <2> QED BY <1>2, <2>1, <2>2 DEF Above
<1> QED BY <1>1, <1>2

LEMMA ChildrenFinite ==
  ASSUME MazeTree, NEW p \in Paths
  PROVE  IsFiniteSet(D!Children(p)) /\ Cardinality(D!Children(p)) \in Nat
<1> DEFINE S == D!Children(p)
           f == [c \in S |-> c[Len(p) + 1]]
<1>1. ASSUME NEW c \in S
      PROVE  c \in Seq(1 .. 4) /\ Len(c) = Len(p) + 1 /\ \A i \in 1 .. Len(p) : c[i] = p[i]
  BY ChildIs DEF MazeTree, Paths, Above
<1>2. p \in Seq(1 .. 4) /\ Len(p) \in Nat
  BY DEF Paths
<1> HIDE DEF S
<1>3. f \in [S -> 1 .. 4]
  BY <1>1, <1>2
<1>4. ASSUME NEW c \in S, NEW d \in S, f[c] = f[d] PROVE c = d
  <2>1. \A i \in 1 .. (Len(p) + 1) : i \in 1 .. Len(p) \/ i = Len(p) + 1
    BY <1>2
  <2>2. \A i \in 1 .. (Len(p) + 1) : c[i] = d[i]
    BY <1>1, <1>4, <2>1
  <2> QED BY <1>1, <2>2
<1>5. f \in Injection(S, 1 .. 4)
  <2> HIDE DEF f
  <2> QED BY <1>3, <1>4 DEF Injection, IsInjective
<1>6. IsFiniteSet(1 .. 4)
  <2>1. 1 \in Int /\ 4 \in Int
    OBVIOUS
  <2> QED BY <2>1, FS_Interval
<1>7. IsFiniteSet(S)
  <2> HIDE DEF f
  <2> QED BY <1>5, <1>6, FS_Injection
<1> QED BY <1>7, FS_CardinalityType DEF S

LEMMA NoneBelow ==
  ASSUME MazeTree, NEW p \in DOMAIN pc, D!Children(p) = {}
  PROVE  \A r \in DOMAIN pc : ~Above(p, r)
<1> SUFFICES ASSUME NEW r \in DOMAIN pc, Above(p, r) PROVE FALSE
  OBVIOUS
<1>1. p \in Seq(1 .. 4) /\ r \in Seq(1 .. 4) /\ p \in Paths /\ Len(p) \in Nat /\ Len(r) \in Nat /\ Len(p) < Len(r)
  BY DEF MazeTree, Paths, Above
<1> DEFINE c == SubSeq(r, 1, Len(p) + 1)
<1>2. c \in DOMAIN pc
  <2>1. CASE Len(p) + 1 = Len(r)
    <3>1. c = r
      BY <1>1, <2>1
    <3> QED BY <3>1
  <2>2. CASE Len(p) + 1 # Len(r)
    <3>1. Len(p) + 1 \in 0 .. (Len(r) - 1)
      BY <1>1, <2>2
    <3> QED BY <3>1 DEF MazeTree
  <2> QED BY <2>1, <2>2
<1>3. Len(c) = Len(p) + 1 /\ \A i \in 1 .. Len(p) : c[i] = r[i]
  BY <1>1
<1>4. Above(p, c)
  BY <1>1, <1>3 DEF Above
<1> HIDE DEF c
<1> QED BY <1>1, <1>2, <1>3, <1>4, ChildIs

LEMMA StillMaze ==
  ASSUME MazeInv, NEW p \in DOMAIN pc, NEW m \in 1 .. 5, NEW n \in Nat, NEW s \in {"loop", "wait", "zombie"},
         Becomes(p, m, n, s), m >= pc[p].m, pc[p].at = Dest => m = 1,
         Cardinality(D!Children(p)) <= n,
         s = "zombie" => \A r \in DOMAIN pc : ~Above(p, r)
  PROVE  /\ Typed' /\ MazeTree' /\ \A d \in DOMAIN pc' : Placed(d)' /\ Counted(d)'
         /\ DOMAIN pc' = DOMAIN pc /\ \A d \in DOMAIN pc : d # p => pc'[d] = pc[d]
         /\ pc'[p].state = s /\ pc'[p].m = m
<1>1. /\ DOMAIN pc' = DOMAIN pc /\ pc' = [d \in DOMAIN pc' |-> pc'[d]]
      /\ \A d \in DOMAIN pc : d # p => pc'[d] = pc[d]
      /\ pc'[p] = [at |-> pc[p].at, map |-> pc[p].map, m |-> m, nfork |-> n, state |-> s]
  BY DEF Becomes
<1>2. /\ pc'[p].at = pc[p].at /\ pc'[p].map = pc[p].map /\ pc'[p].m = m /\ pc'[p].nfork = n /\ pc'[p].state = s
      /\ Proc(pc'[p])
  BY <1>1 DEF Proc
<1>3. Typed'
  BY <1>1, <1>2 DEF MazeInv, Typed
<1>4. MazeTree'
  <2>1. ASSUME NEW d \in DOMAIN pc, NEW q \in DOMAIN pc, Above(q, d)
        PROVE  pc'[q].m > d[Len(q) + 1] /\ pc'[q].state # "zombie"
    <3>1. pc[q].m > d[Len(q) + 1] /\ pc[q].state # "zombie"
      BY <2>1 DEF MazeInv, MazeTree
    <3>2. CASE q = p
      <4>1. pc[p].m \in 1 .. 5 /\ d[Len(q) + 1] \in 1 .. 4
        BY <2>1 DEF MazeInv, Typed, Proc, MazeTree, Paths, Above
      <4> QED BY <1>2, <2>1, <3>1, <3>2, <4>1
    <3> QED BY <1>1, <3>1, <3>2
  <2> QED BY <1>1, <2>1 DEF MazeInv, MazeTree
<1>5. \A d : D!Children(d)' = D!Children(d)
  BY <1>1 DEF D!Children
<1>6. \A d \in DOMAIN pc' : Placed(d)' /\ Counted(d)'
  <2> SUFFICES ASSUME NEW d \in DOMAIN pc PROVE Placed(d)' /\ Counted(d)'
    BY <1>1
  <2>1. Placed(d) /\ Counted(d)
    BY DEF MazeInv
  <2>2. CASE d = p
    BY <1>2, <1>5, <2>1, <2>2 DEF Placed, Counted
  <2>3. CASE d # p
    BY <1>1, <1>5, <2>1, <2>3 DEF Placed, Counted
  <2> QED BY <2>2, <2>3
<1> QED BY <1>1, <1>2, <1>3, <1>4, <1>6

LEMMA SameMaps ==
  ASSUME MazeMaps, x1' = x1, x2' \in BOOLEAN, x2 => x2',
         \A v : ToDest(v) => (Pending(v)' => Pending(v)) /\ (~x2' /\ Pending(v) => Pending(v)')
  PROVE  MazeMaps'
<1>1. \A v : Shown(v)' <=> Shown(v)
  BY DEF Shown
<1>2. ASSUME NEW v, ToDest(v)
      PROVE  (Pending(v)' => ~Shown(v)') /\ (~x2' => Pending(v)' \/ Shown(v)')
  BY <1>1, <1>2 DEF MazeMaps
<1> QED BY <1>2 DEF MazeMaps

\* A way goes no further than Dest.
LEMMA DestEnds ==
  ASSUME NEW p \in Paths, Cell(p, Len(p) + 1) = Dest, NEW v, ToDest(v)
  PROVE  ~Above(p, v)
<1> SUFFICES ASSUME Above(p, v) PROVE FALSE
  OBVIOUS
<1>1. Len(p) \in Nat /\ Len(v) \in Nat /\ Len(p) < Len(v) /\ v \in Paths
  BY DEF Above, ToDest, Paths
<1>2. Len(p) + 1 \in Nat /\ \A j \in 1 .. ((Len(p) + 1) - 1) : p[j] = v[j]
  BY <1>1 DEF Above
<1>3. Cell(p, Len(p) + 1) = Cell(v, Len(p) + 1)
  BY <1>1, <1>2, CellSame
<1>4. Len(p) + 1 \in 1 .. Len(v)
  BY <1>1
<1> QED BY <1>3, <1>4 DEF ToDest, Straight

LEMMA MazeDisplay ==
  ASSUME MazeInv, NEW p \in DOMAIN pc, D!display(p)
  PROVE  MazeInv'
<1>0. p \in Paths /\ Typed /\ Placed(p) /\ Counted(p) /\ MazeMaps
  BY DEF MazeInv, MazeTree
<1>1. /\ pc[p].state = "loop" /\ pc[p].map[pc[p].at] = "+"
      /\ x1' = Append(x1, pc[p].map) /\ x2' = x2
      /\ Becomes(p, pc[p].m, pc[p].nfork, "zombie")
  BY <1>0, DisplayDoes
<1>2. pc[p].at = Dest /\ pc[p].m = 1 /\ Cell(p, Len(p) + 1) = Dest /\ ToDest(p) /\ IsMap(pc[p].map, p)
  BY <1>0, <1>1, MapHere DEF Placed, ToDest
<1>3. \A r \in DOMAIN pc : ~Above(p, r)
  <2> SUFFICES ASSUME NEW r \in DOMAIN pc, Above(p, r) PROVE FALSE
    OBVIOUS
  <2>1. 1 > r[Len(p) + 1]
    BY <1>2 DEF MazeInv, MazeTree
  <2>2. r[Len(p) + 1] \in 1 .. 4
    <3>1. Len(p) \in Nat /\ Len(p) < Len(r) /\ r \in Seq(1 .. 4)
      BY <1>0 DEF MazeInv, MazeTree, Paths, Above
    <3> QED BY <3>1
  <2> QED BY <2>1, <2>2
<1>4. pc[p].m \in 1 .. 5 /\ pc[p].m >= pc[p].m /\ pc[p].nfork \in Nat /\ Cardinality(D!Children(p)) <= pc[p].nfork
  BY <1>0 DEF Typed, Proc, Counted
<1>5. /\ Typed' /\ MazeTree' /\ \A d \in DOMAIN pc' : Placed(d)' /\ Counted(d)'
      /\ DOMAIN pc' = DOMAIN pc /\ \A d \in DOMAIN pc : d # p => pc'[d] = pc[d]
      /\ pc'[p].state = "zombie" /\ pc'[p].m = pc[p].m
  BY <1>1, <1>2, <1>3, <1>4, StillMaze
<1> DEFINE n == Len(x1)
<1>6. /\ x1 \in Seq([Cells -> Marks]) /\ n \in Nat
      /\ pc[p].map \in [Cells -> Marks]
  BY <1>0, <1>2, MapTyped DEF MazeMaps
<1>7. /\ x1' \in Seq([Cells -> Marks]) /\ Len(x1') = n + 1
      /\ \A i \in 1 .. n : x1'[i] = x1[i]
      /\ x1'[n + 1] = pc[p].map
  BY <1>1, <1>6
<1>8. /\ \A i \in 1 .. n : \E v : ToDest(v) /\ IsMap(x1[i], v)
      /\ \A i, j \in 1 .. n : x1[i] = x1[j] => i = j
      /\ \A v : ToDest(v) => (Pending(v) => ~Shown(v)) /\ (~x2 => Pending(v) \/ Shown(v))
  BY <1>0 DEF MazeMaps
<1>9. \A v : Shown(v)' <=> Shown(v) \/ IsMap(pc[p].map, v)
  <2> SUFFICES ASSUME NEW v PROVE (\E i \in 1 .. (n + 1) : IsMap(x1'[i], v)) <=> (\E i \in 1 .. n : IsMap(x1[i], v)) \/ IsMap(pc[p].map, v)
    BY <1>7 DEF Shown
  <2>1. \A i \in 1 .. (n + 1) : i \in 1 .. n \/ i = n + 1
    BY <1>6
  <2>2. \A i \in 1 .. n : i \in 1 .. (n + 1)
    BY <1>6
  <2>3. n + 1 \in 1 .. (n + 1)
    BY <1>6
  <2> HIDE DEF n
  <2> QED BY <1>7, <2>1, <2>2, <2>3
<1> HIDE DEF n
<1>10. Pending(p) /\ ~Shown(p)
  BY <1>1, <1>2, <1>8 DEF Pending, Ahead
<1>11. \A i \in 1 .. (n + 1) : \E v : ToDest(v) /\ IsMap(x1'[i], v)
  <2> SUFFICES ASSUME NEW i \in 1 .. (n + 1) PROVE \E v : ToDest(v) /\ IsMap(x1'[i], v)
    OBVIOUS
  <2>1. i \in 1 .. n \/ i = n + 1
    BY <1>6
  <2> QED BY <1>2, <1>7, <1>8, <2>1
<1>12. \A i \in 1 .. n : x1[i] # pc[p].map
  BY <1>2, <1>10 DEF Shown, n
<1>13. \A i, j \in 1 .. (n + 1) : x1'[i] = x1'[j] => i = j
  <2> SUFFICES ASSUME NEW i \in 1 .. (n + 1), NEW j \in 1 .. (n + 1), x1'[i] = x1'[j] PROVE i = j
    OBVIOUS
  <2>1. (i \in 1 .. n \/ i = n + 1) /\ (j \in 1 .. n \/ j = n + 1)
    BY <1>6
  <2> QED BY <1>7, <1>8, <1>12, <2>1
<1>14. ASSUME NEW v, ToDest(v), Pending(v)' PROVE ~Shown(v)'
  <2>1. PICK d \in DOMAIN pc : Ahead(d, v)'
    BY <1>5, <1>14 DEF Pending
  <2>2. d # p
    BY <1>5, <2>1 DEF Ahead
  <2>3. Ahead(d, v)
    BY <1>5, <2>1, <2>2 DEF Ahead
  <2>4. ~Shown(v)
    BY <1>8, <1>14, <2>3 DEF Pending
  <2>5. ~IsMap(pc[p].map, v)
    <3> SUFFICES ASSUME IsMap(pc[p].map, v) PROVE FALSE
      OBVIOUS
    <3>1. v = p
      BY <1>2, <1>14, MapShowsWay
    <3>2. Above(d, p) /\ p[Len(d) + 1] >= pc[d].m
      BY <2>2, <2>3, <3>1 DEF Ahead
    <3>3. pc[d].m > p[Len(d) + 1]
      BY <3>2 DEF MazeInv, MazeTree
    <3>4. Len(d) \in Nat /\ Len(d) < Len(p) /\ p \in Seq(1 .. 4) /\ pc[d].m \in 1 .. 5
      BY <1>0, <3>2 DEF Typed, Proc, Paths, Above, MazeInv, MazeTree
    <3>5. p[Len(d) + 1] \in 1 .. 4
      BY <3>4
    <3> QED BY <3>2, <3>3, <3>4, <3>5
  <2> QED BY <1>9, <2>4, <2>5
<1>15. ASSUME NEW v, ToDest(v), ~x2 PROVE Pending(v)' \/ Shown(v)'
  <2>1. CASE Shown(v)
    BY <1>9, <2>1
  <2>2. ASSUME NEW d \in DOMAIN pc, Ahead(d, v) PROVE Pending(v)' \/ Shown(v)'
    <3>1. CASE d # p
      BY <1>5, <2>2, <3>1 DEF Pending, Ahead
    <3>2. CASE d = p
      <4>1. p = v
        BY <1>0, <1>2, <1>15, <2>2, <3>2, DestEnds DEF Ahead
      <4> QED BY <1>2, <1>9, <4>1
    <3> QED BY <3>1, <3>2
  <2> QED BY <1>8, <1>15, <2>1, <2>2 DEF Pending
<1>16. MazeMaps'
  <2>1. x2' \in BOOLEAN
    BY <1>0, <1>1 DEF MazeMaps
  <2> QED BY <1>1, <1>7, <1>11, <1>13, <1>14, <1>15, <2>1 DEF MazeMaps
<1> QED BY <1>5, <1>16 DEF MazeInv

\* A step after which p is ahead of the same ways: none.
LEMMA NotAhead ==
  ASSUME MazeInv, NEW p \in DOMAIN pc, x1' = x1, x2' = x2,
         DOMAIN pc' = DOMAIN pc, \A d \in DOMAIN pc : d # p => pc'[d] = pc[d],
         pc'[p].state # "loop", \A v : ToDest(v) => ~Ahead(p, v)
  PROVE  MazeMaps'
<1>1. ASSUME NEW v, ToDest(v) PROVE Pending(v)' <=> Pending(v)
  <2>1. \A d \in DOMAIN pc : d # p => (Ahead(d, v)' <=> Ahead(d, v))
    BY DEF Ahead
  <2>2. ~Ahead(p, v)' /\ ~Ahead(p, v)
    BY <1>1 DEF Ahead
  <2> QED BY <2>1, <2>2 DEF Pending
<1>2. MazeMaps /\ x2' \in BOOLEAN
  BY DEF MazeInv, MazeMaps
<1> QED BY <1>1, <1>2, SameMaps

LEMMA MazeEnterWait ==
  ASSUME MazeInv, NEW p \in DOMAIN pc, D!enter_wait(p)
  PROVE  MazeInv'
<1>0. p \in Paths /\ Typed /\ Placed(p) /\ Counted(p)
  BY DEF MazeInv, MazeTree
<1>1. /\ pc[p].state = "loop" /\ pc[p].m > 4 /\ x1' = x1 /\ x2' = x2
      /\ Becomes(p, pc[p].m, pc[p].nfork, "wait")
  BY <1>0, EnterWaitDoes
<1>2. /\ pc[p].m \in 1 .. 5 /\ pc[p].m >= pc[p].m /\ pc[p].nfork \in Nat /\ Cardinality(D!Children(p)) <= pc[p].nfork
      /\ pc[p].at # Dest
  BY <1>0, <1>1 DEF Typed, Proc, Counted, Placed
<1>3. /\ Typed' /\ MazeTree' /\ \A d \in DOMAIN pc' : Placed(d)' /\ Counted(d)'
      /\ DOMAIN pc' = DOMAIN pc /\ \A d \in DOMAIN pc : d # p => pc'[d] = pc[d]
      /\ pc'[p].state = "wait"
  BY <1>1, <1>2, StillMaze
<1>4. ASSUME NEW v, ToDest(v) PROVE ~Ahead(p, v)
  <2>1. p # v
    BY <1>0, <1>2, <1>4 DEF Placed, ToDest
  <2>2. Above(p, v) => v[Len(p) + 1] \in 1 .. 4
    BY <1>0, <1>4 DEF ToDest, Paths, Above
  <2> QED BY <1>1, <1>2, <2>1, <2>2 DEF Ahead
<1>5. MazeMaps'
  BY <1>1, <1>3, <1>4, NotAhead
<1> QED BY <1>3, <1>5 DEF MazeInv

LEMMA MazeExit ==
  ASSUME MazeInv, NEW p \in DOMAIN pc, D!exit(p)
  PROVE  MazeInv'
<1>0. p \in Paths /\ Typed /\ Placed(p) /\ Counted(p) /\ MazeTree
  BY DEF MazeInv, MazeTree
<1>1. /\ pc[p].state = "wait" /\ pc[p].nfork = 0 /\ x1' = x1 /\ x2' = x2
      /\ Becomes(p, pc[p].m, pc[p].nfork, "zombie")
  BY <1>0, ExitDoes
<1>2. /\ pc[p].m \in 1 .. 5 /\ pc[p].m >= pc[p].m /\ pc[p].nfork \in Nat /\ Cardinality(D!Children(p)) <= pc[p].nfork
      /\ pc[p].at = Dest => pc[p].m = 1
  BY <1>0, <1>1 DEF Typed, Proc, Counted, Placed
<1>3. \A r \in DOMAIN pc : ~Above(p, r)
  <2>1. IsFiniteSet(D!Children(p)) /\ Cardinality(D!Children(p)) \in Nat
    BY <1>0, ChildrenFinite
  <2>2. D!Children(p) = {}
    BY <1>1, <1>2, <2>1, FS_EmptySet
  <2> QED BY <1>0, <2>2, NoneBelow
<1>4. /\ Typed' /\ MazeTree' /\ \A d \in DOMAIN pc' : Placed(d)' /\ Counted(d)'
      /\ DOMAIN pc' = DOMAIN pc /\ \A d \in DOMAIN pc : d # p => pc'[d] = pc[d]
      /\ pc'[p].state = "zombie"
  BY <1>1, <1>2, <1>3, StillMaze
<1>5. \A v : ToDest(v) => ~Ahead(p, v)
  BY <1>1 DEF Ahead
<1>6. MazeMaps'
  BY <1>1, <1>4, <1>5, NotAhead
<1> QED BY <1>4, <1>6 DEF MazeInv

\* The next place on a way that is ahead of p is open, and p's map shows that.
LEMMA WayLeadsOn ==
  ASSUME NEW p \in DOMAIN pc, p \in Paths, Placed(p), NEW v, ToDest(v), Above(p, v), v[Len(p) + 1] = pc[p].m
  PROVE  LeadsOn(p)
<1> DEFINE n == Len(p)
           to == D!Step(pc[p].at, pc[p].m)
<1>1. /\ v \in Paths /\ n \in Nat /\ Len(v) \in Nat /\ n < Len(v)
      /\ \A i \in 1 .. n : v[i] = p[i]
  BY DEF ToDest, Paths, Above
<1>2. \A i \in 1 .. (n + 1) : i \in Nat /\ \A j \in 1 .. (i - 1) : p[j] = v[j]
  BY <1>1
<1>3. \A i \in 1 .. (n + 1) : Cell(p, i) = Cell(v, i)
  BY <1>1, <1>2, CellSame
<1>4. /\ n + 1 \in 1 .. (n + 1) /\ n + 1 \in 1 .. Len(v) /\ n + 2 \in 1 .. (Len(v) + 1) /\ (n + 1) + 1 = n + 2
      /\ \A i \in 1 .. n : i \in 1 .. (n + 1) /\ i \in 1 .. (Len(v) + 1) /\ i # n + 2
  BY <1>1
<1>5. to = Cell(v, n + 2)
  <2>1. Cell(v, (n + 1) + 1) = D!Step(Cell(v, n + 1), v[n + 1])
    BY <1>1, <1>4, CellNext
  <2> QED BY <1>3, <1>4, <2>1 DEF Placed
<1> HIDE DEF to
<1>6. to \in Cells
  BY <1>4, <1>5 DEF ToDest, Straight
<1>7. \A i \in 1 .. n : Cell(p, i) # to
  <2> SUFFICES ASSUME NEW i \in 1 .. n PROVE Cell(v, i) # Cell(v, n + 2)
    BY <1>3, <1>4, <1>5
  <2> QED BY <1>4 DEF ToDest, Straight
<1>8. pc[p].map[to] = D!Map0[to]
  BY <1>6, <1>7 DEF Placed, IsMap
<1> QED BY <1>6, <1>8 DEF LeadsOn, D!Map0, to

\* A turn of the loop that forks no child.
LEMMA MazeNoFork ==
  ASSUME MazeInv, NEW p \in DOMAIN pc, pc[p].state = "loop", pc[p].map[pc[p].at] # "+", pc[p].m <= 4,
         NEW n \in {pc[p].nfork, pc[p].nfork + 1}, Becomes(p, pc[p].m + 1, n, pc[p].state),
         x1' = x1, x2' = TRUE \/ (x2' = x2 /\ ~LeadsOn(p))
  PROVE  MazeInv'
<1>0. p \in Paths /\ Typed /\ Placed(p) /\ Counted(p) /\ MazeTree /\ MazeMaps
  BY DEF MazeInv, MazeTree
<1>1. pc[p].at # Dest
  BY <1>0, MapHere
<1>2. /\ pc[p].m \in 1 .. 5 /\ pc[p].m + 1 \in 1 .. 5 /\ pc[p].m + 1 >= pc[p].m
      /\ pc[p].nfork \in Nat /\ n \in Nat /\ Cardinality(D!Children(p)) <= n
      /\ pc[p].state \in {"loop", "wait", "zombie"}
  <2>1. /\ pc[p].m \in 1 .. 5 /\ pc[p].nfork \in Nat /\ Cardinality(D!Children(p)) <= pc[p].nfork
        /\ Cardinality(D!Children(p)) \in Nat
    BY <1>0, ChildrenFinite DEF Typed, Proc, Counted
  <2> QED BY <2>1
<1>3. /\ Typed' /\ MazeTree' /\ \A d \in DOMAIN pc' : Placed(d)' /\ Counted(d)'
      /\ DOMAIN pc' = DOMAIN pc /\ \A d \in DOMAIN pc : d # p => pc'[d] = pc[d]
      /\ pc'[p].state = "loop" /\ pc'[p].m = pc[p].m + 1
  BY <1>1, <1>2, StillMaze
<1>4. \A v : \A d \in DOMAIN pc : d # p => (Ahead(d, v)' <=> Ahead(d, v))
  BY <1>3 DEF Ahead
<1>5. ASSUME NEW v, ToDest(v)
      PROVE  /\ Ahead(p, v)' => Ahead(p, v)
             /\ Ahead(p, v) /\ ~LeadsOn(p) => Ahead(p, v)'
  <2>1. p # v
    BY <1>0, <1>1, <1>5 DEF Placed, ToDest
  <2>2. Above(p, v) => v[Len(p) + 1] \in 1 .. 4
    <3>1. Above(p, v) => Len(p) \in Nat /\ Len(p) < Len(v) /\ v \in Seq(1 .. 4)
      BY <1>0, <1>5 DEF ToDest, Paths, Above
    <3> QED BY <3>1
  <2>3. Above(p, v) /\ ~LeadsOn(p) => v[Len(p) + 1] # pc[p].m
    BY <1>0, <1>5, WayLeadsOn
  <2> QED BY <1>2, <1>3, <2>1, <2>2, <2>3 DEF Ahead
<1>6. ASSUME NEW v, ToDest(v)
      PROVE  /\ Pending(v)' => Pending(v)
             /\ ~x2' /\ Pending(v) => Pending(v)'
  BY <1>3, <1>4, <1>5, <1>6 DEF Pending
<1>7. MazeMaps'
  <2>1. x2' \in BOOLEAN /\ (x2 => x2')
    BY <1>0 DEF MazeMaps
  <2> QED BY <1>0, <1>6, <2>1, SameMaps
<1> QED BY <1>3, <1>7 DEF MazeInv

LEMMA StepMoves == ASSUME NEW c \in Int \X Int, NEW k \in 1 .. 4 PROVE D!Step(c, k) # c
<1>1. c = <<c[1], c[2]>> /\ c[1] \in Int /\ c[2] \in Int
  OBVIOUS
<1> DEFINE a == c[1]
           b == c[2]
<1>2. /\ D!Step(c, 1) = <<a, b + 1>> /\ D!Step(c, 2) = <<a + 1, b>>
      /\ D!Step(c, 3) = <<a, b - 1>> /\ D!Step(c, 4) = <<a - 1, b>>
      /\ a \in Int /\ b \in Int /\ c = <<a, b>>
  BY <1>1, StepIs
<1> HIDE DEF a, b
<1>3. \A x, y, z, w : <<x, y>> = <<z, w>> => x = z /\ y = w
  OBVIOUS
<1>4. k \in {1, 2, 3, 4}
  OBVIOUS
<1> QED BY <1>2, <1>3, <1>4

\* Where a child begins: one move on, with the move marked in its map.
LEMMA ChildPlaced ==
  ASSUME NEW p \in DOMAIN pc, p \in Paths, Placed(p), pc[p].m \in 1 .. 4,
         pc[p].map[pc[p].at] # "+", LeadsOn(p), NEW c, c = Append(p, pc[p].m)
  PROVE  /\ c \in Paths /\ Len(c) = Len(p) + 1 /\ Above(p, c) /\ c[Len(c)] = pc[p].m
         /\ Straight(c) /\ Cell(c, Len(c) + 1) = D!Step(pc[p].at, pc[p].m)
         /\ IsMap([pc[p].map EXCEPT ![pc[p].at] = D!Ch[pc[p].m]], c)
<1> DEFINE n == Len(p)
           k == pc[p].m
           at == pc[p].at
           to == D!Step(at, k)
           map == pc[p].map
           new == [map EXCEPT ![at] = D!Ch[k]]
<1>1. /\ n \in Nat /\ c \in Paths /\ Len(c) = n + 1 /\ \A i \in 1 .. n : c[i] = p[i]
      /\ c[n + 1] = k /\ k \in 1 .. 4
  BY DEF Paths
<1>2. \A i \in 1 .. (n + 1) : Cell(c, i) = Cell(p, i)
  <2>1. \A i \in 1 .. (n + 1) : i \in Nat /\ \A j \in 1 .. (i - 1) : c[j] = p[j]
    BY <1>1
  <2> QED BY <1>1, <2>1, CellSame
<1>3. /\ at = Cell(p, n + 1) /\ at \in Cells /\ at # Dest /\ at \in Int \X Int
      /\ IsMap(map, p) /\ Straight(p)
      /\ n + 1 \in 1 .. (n + 1) /\ n + 1 \in 1 .. Len(c)
  <2>1. at \in Cells /\ at # Dest
    BY MapHere
  <2> QED BY <1>1, <2>1, TestsAssumption DEF Placed
<1>4. Cell(c, (n + 1) + 1) = to
  BY <1>1, <1>2, <1>3, CellNext, ZenonT(60)
<1>5. to \in Cells /\ map[to] \in {"+", "."}
  BY DEF LeadsOn
<1> HIDE DEF n, k, at, to, map
<1>6. ASSUME NEW i \in 1 .. (n + 1) PROVE Cell(p, i) # to
  <2>1. CASE i = n + 1
    BY <1>1, <1>3, <2>1, StepMoves DEF to
  <2>2. CASE i # n + 1
    <3>1. i \in 1 .. Len(p) /\ p[i] \in 1 .. 4
      BY <1>1, <2>2 DEF n, Paths
    <3>2. map[Cell(p, i)] = D!Ch[p[i]]
      BY <1>3, <3>1 DEF IsMap
    <3> QED BY <1>5, <3>1, <3>2, ChOnce
  <2> QED BY <2>1, <2>2
<1>7. \A i \in 1 .. (Len(c) + 1) : i \in 1 .. (n + 1) \/ i = (n + 1) + 1
  BY <1>1
<1>8. Straight(c)
  <2>1. \A i, j \in 1 .. (n + 1) : Cell(p, i) = Cell(p, j) => i = j
    BY <1>3 DEF Straight, n
  <2>2. ASSUME NEW i \in 1 .. (n + 1) PROVE Cell(p, i) \in Cells /\ Cell(p, i) # Dest
    <3>1. Cell(p, i) \in Cells
      BY <1>3 DEF Straight, n
    <3>2. i \in 1 .. n \/ i = n + 1
      BY <1>1
    <3> QED BY <1>3, <3>1, <3>2 DEF Straight, n
  <2>3. \A i \in 1 .. (Len(c) + 1) : Cell(c, i) \in Cells
    BY <1>2, <1>4, <1>5, <1>7, <2>2
  <2>4. \A i, j \in 1 .. (Len(c) + 1) : Cell(c, i) = Cell(c, j) => i = j
    BY <1>2, <1>4, <1>6, <1>7, <2>1
  <2>5. \A i \in 1 .. Len(c) : Cell(c, i) # Dest
    BY <1>1, <1>2, <2>2
  <2> QED BY <2>3, <2>4, <2>5 DEF Straight
<1>9. map = [d \in Cells |-> map[d]]
  BY <1>3 DEF IsMap
<1>10. new = [d \in Cells |-> new[d]] /\ new[at] = D!Ch[k] /\ \A d \in Cells : d # at => new[d] = map[d]
  BY <1>3, <1>9
<1> HIDE DEF new
<1>11. IsMap(new, c)
  <2>1. ASSUME NEW i \in 1 .. Len(c) PROVE new[Cell(c, i)] = D!Ch[c[i]]
    <3>1. CASE i = n + 1
      BY <1>1, <1>2, <1>3, <1>10, <3>1
    <3>2. CASE i # n + 1
      <4>1. i \in 1 .. n /\ i \in 1 .. (n + 1)
        BY <1>1, <3>2
      <4>2. Cell(p, i) # at /\ Cell(p, i) \in Cells
        BY <1>1, <1>3, <3>2, <4>1 DEF Straight, n
      <4>3. map[Cell(p, i)] = D!Ch[p[i]]
        BY <1>3, <4>1 DEF IsMap, n
      <4> QED BY <1>1, <1>2, <1>10, <4>1, <4>2, <4>3
    <3> QED BY <3>1, <3>2
  <2>2. ASSUME NEW d \in Cells, \A i \in 1 .. Len(c) : Cell(c, i) # d PROVE new[d] = D!Map0[d]
    <3>1. d # at
      BY <1>1, <1>2, <1>3, <2>2
    <3>2. \A i \in 1 .. n : Cell(p, i) # d
      <4>1. \A i \in 1 .. n : i \in 1 .. Len(c) /\ i \in 1 .. (n + 1)
        BY <1>1
      <4> QED BY <1>2, <2>2, <4>1
    <3>3. map[d] = D!Map0[d]
      BY <1>3, <3>2 DEF IsMap, n
    <3> QED BY <1>10, <3>1, <3>3
  <2> QED BY <1>10, <2>1, <2>2 DEF IsMap
<1>12. Above(p, c)
  BY <1>1 DEF Above, n
<1> QED BY <1>1, <1>4, <1>8, <1>11, <1>12 DEF n, k, at, to, map, new

LEMMA MazeFork ==
  ASSUME MazeInv, NEW p \in DOMAIN pc, pc[p].state = "loop", pc[p].map[pc[p].at] # "+", pc[p].m <= 4,
         LeadsOn(p), x1' = x1, x2' = x2, NEW c, Forks(p, c)
  PROVE  MazeInv'
<1>0. p \in Paths /\ Typed /\ Placed(p) /\ Counted(p) /\ MazeTree /\ MazeMaps /\ Proc(pc[p])
  BY DEF MazeInv, MazeTree, Typed
<1>1. pc[p].at # Dest /\ pc[p].m \in 1 .. 4 /\ pc[p].nfork \in Nat
  BY <1>0, MapHere DEF Proc
<1>2. /\ c \in Paths /\ Len(c) = Len(p) + 1 /\ Above(p, c) /\ c[Len(c)] = pc[p].m
      /\ Straight(c) /\ Cell(c, Len(c) + 1) = D!Step(pc[p].at, pc[p].m)
      /\ IsMap([pc[p].map EXCEPT ![pc[p].at] = D!Ch[pc[p].m]], c)
      /\ Len(p) \in Nat /\ Len(c) \in Nat
  <2>1. c = Append(p, pc[p].m)
    BY DEF Forks
  <2>2. /\ c \in Paths /\ Len(c) = Len(p) + 1 /\ Above(p, c) /\ c[Len(c)] = pc[p].m
        /\ Straight(c) /\ Cell(c, Len(c) + 1) = D!Step(pc[p].at, pc[p].m)
        /\ IsMap([pc[p].map EXCEPT ![pc[p].at] = D!Ch[pc[p].m]], c)
    BY <1>0, <1>1, <2>1, ChildPlaced
  <2>3. Len(p) \in Nat /\ Len(c) \in Nat
    BY <1>0, <2>2 DEF Paths
  <2> QED BY <2>2, <2>3
<1>3. c \notin DOMAIN pc
  <2> SUFFICES ASSUME c \in DOMAIN pc PROVE FALSE
    OBVIOUS
  <2>1. pc[p].m > c[Len(p) + 1]
    BY <1>0, <1>2 DEF MazeTree
  <2> QED BY <1>1, <1>2, <2>1
<1>4. /\ DOMAIN pc' = DOMAIN pc \cup {c} /\ pc' = [d \in DOMAIN pc' |-> pc'[d]]
      /\ \A d \in DOMAIN pc : d # p => pc'[d] = pc[d]
      /\ pc'[p] = [at |-> pc[p].at, map |-> pc[p].map, m |-> pc[p].m + 1, nfork |-> pc[p].nfork + 1, state |-> pc[p].state]
      /\ pc'[c] = [at |-> D!Step(pc[p].at, pc[p].m), map |-> [pc[p].map EXCEPT ![pc[p].at] = D!Ch[pc[p].m]],
                   m |-> 1, nfork |-> 0, state |-> "loop"]
  BY <1>3 DEF Forks
<1>5. /\ pc'[p].at = pc[p].at /\ pc'[p].map = pc[p].map /\ pc'[p].m = pc[p].m + 1
      /\ pc'[p].nfork = pc[p].nfork + 1 /\ pc'[p].state = "loop" /\ Proc(pc'[p])
  BY <1>1, <1>4 DEF Proc
<1>6. /\ pc'[c].at = Cell(c, Len(c) + 1) /\ IsMap(pc'[c].map, c) /\ pc'[c].m = 1
      /\ pc'[c].nfork = 0 /\ pc'[c].state = "loop" /\ Proc(pc'[c])
  BY <1>2, <1>4 DEF Proc
<1>7. Typed'
  BY <1>0, <1>4, <1>5, <1>6 DEF Typed
<1>8. MazeTree'
  <2>1. DOMAIN pc' \subseteq Paths /\ <<>> \in DOMAIN pc'
    BY <1>0, <1>2, <1>4 DEF MazeTree
  <2>2. ASSUME NEW d \in DOMAIN pc', NEW n \in 0 .. (Len(d) - 1) PROVE SubSeq(d, 1, n) \in DOMAIN pc'
    <3>1. CASE d \in DOMAIN pc
      BY <1>0, <1>4, <2>2, <3>1 DEF MazeTree
    <3>2. CASE d = c
      <4>1. p \in Seq(1 .. 4) /\ c \in Seq(1 .. 4) /\ n \in 0 .. Len(p) /\ n <= Len(c)
        BY <1>0, <1>2, <2>2, <3>2 DEF Paths
      <4>2. SubSeq(c, 1, n) = SubSeq(p, 1, n)
        <5>1. \A i \in 1 .. n : c[i] = p[i]
          BY <1>2, <4>1 DEF Above
        <5>2. /\ SubSeq(c, 1, n) \in Seq(1 .. 4) /\ Len(SubSeq(c, 1, n)) = n
              /\ \A i \in 1 .. n : SubSeq(c, 1, n)[i] = c[i]
          BY <4>1
        <5>3. /\ SubSeq(p, 1, n) \in Seq(1 .. 4) /\ Len(SubSeq(p, 1, n)) = n
              /\ \A i \in 1 .. n : SubSeq(p, 1, n)[i] = p[i]
          BY <4>1
        <5> QED BY <5>1, <5>2, <5>3
      <4>3. CASE n = Len(p)
        <5>1. SubSeq(p, 1, n) = p
          BY <4>1, <4>3
        <5> QED BY <1>4, <3>2, <4>2, <5>1
      <4>4. CASE n # Len(p)
        <5>1. n \in 0 .. (Len(p) - 1)
          BY <1>2, <4>1, <4>4
        <5>2. SubSeq(p, 1, n) \in DOMAIN pc
          BY <1>0, <5>1 DEF MazeTree
        <5> QED BY <1>4, <3>2, <4>2, <5>2
      <4> QED BY <4>3, <4>4
    <3> QED BY <1>4, <3>1, <3>2
  <2>3. ASSUME NEW d \in DOMAIN pc', NEW q \in DOMAIN pc', Above(q, d)
        PROVE  pc'[q].m > d[Len(q) + 1] /\ pc'[q].state # "zombie"
    <3>1. CASE q \in DOMAIN pc /\ d \in DOMAIN pc
      <4>1. pc[q].m > d[Len(q) + 1] /\ pc[q].state # "zombie"
        BY <1>0, <2>3, <3>1 DEF MazeTree
      <4>2. CASE q # p
        BY <1>4, <3>1, <4>1, <4>2
      <4>3. CASE q = p
        <5>1. Len(p) < Len(d) /\ d \in Seq(1 .. 4)
          BY <2>1, <2>3, <4>3 DEF Above, Paths
        <5>2. d[Len(p) + 1] \in 1 .. 4
          BY <1>2, <5>1
        <5> QED BY <1>1, <1>5, <4>1, <4>3, <5>2
      <4> QED BY <4>2, <4>3
    <3>2. CASE q \in DOMAIN pc /\ d = c
      <4>1. CASE q = p
        BY <1>1, <1>2, <1>5, <3>2, <4>1
      <4>2. CASE q # p
        <5>1. q \in Seq(1 .. 4) /\ p \in Seq(1 .. 4) /\ Len(q) \in Nat /\ Len(q) < Len(p) + 1 /\ \A i \in 1 .. Len(q) : q[i] = c[i]
          BY <1>0, <1>2, <2>1, <2>3, <3>2 DEF Above, Paths
        <5>2. \A i \in 1 .. Len(q) : q[i] = p[i]
          BY <1>2, <5>1 DEF Above
        <5>3. Len(q) # Len(p)
          <6> SUFFICES ASSUME Len(q) = Len(p) PROVE q = p
            BY <4>2
          <6> QED BY <5>1, <5>2
        <5>4. Above(q, p) /\ Len(q) + 1 \in 1 .. Len(p)
          BY <1>2, <5>1, <5>2, <5>3 DEF Above
        <5>5. pc[q].m > p[Len(q) + 1] /\ pc[q].state # "zombie"
          BY <1>0, <3>2, <5>4 DEF MazeTree
        <5>6. c[Len(q) + 1] = p[Len(q) + 1]
          BY <1>2, <5>4 DEF Above
        <5> QED BY <1>4, <3>2, <4>2, <5>5, <5>6
      <4> QED BY <4>1, <4>2
    <3>3. CASE q = c /\ d \in DOMAIN pc
      <4>1. Above(p, d) /\ d[Len(p) + 1] = pc[p].m
        BY <1>2, <2>3, <3>3, SMTT(40) DEF Above
      <4>2. pc[p].m > d[Len(p) + 1]
        BY <1>0, <3>3, <4>1 DEF MazeTree
      <4> QED BY <1>1, <4>1, <4>2
    <3>4. CASE q = c /\ d = c
      BY <1>2, <2>3, <3>4 DEF Above
    <3> QED BY <1>4, <3>1, <3>2, <3>3, <3>4
  <2> QED BY <2>1, <2>2, <2>3 DEF MazeTree
<1>9. \A d : D!Children(d)' = {e \in DOMAIN pc' : Len(e) = Len(d) + 1 /\ SubSeq(e, 1, Len(d)) = d}
  BY DEF D!Children
<1>10. SubSeq(c, 1, Len(p)) = p
  <2>1. p \in Seq(1 .. 4) /\ c \in Seq(1 .. 4)
    BY <1>0, <1>2 DEF Paths
  <2> QED BY <1>2, <2>1 DEF Above
<1>11. ASSUME NEW d \in DOMAIN pc PROVE Counted(d)'
  <2>1. d \in Paths /\ Counted(d)
    BY <1>0 DEF MazeInv, MazeTree
  <2>2. IsFiniteSet(D!Children(d)) /\ Cardinality(D!Children(d)) \in Nat
    BY <1>0, <2>1, ChildrenFinite
  <2>3. CASE d = p
    <3>1. D!Children(p)' = D!Children(p) \cup {c} /\ c \notin D!Children(p)
      BY <1>2, <1>3, <1>4, <1>9, <1>10 DEF D!Children
    <3>2. Cardinality(D!Children(p) \cup {c}) = Cardinality(D!Children(p)) + 1
      BY <2>2, <2>3, <3>1, FS_AddElement
    <3> QED BY <1>1, <1>5, <2>1, <2>2, <2>3, <3>1, <3>2 DEF Counted
  <2>4. CASE d # p
    <3>1. ~(Len(c) = Len(d) + 1 /\ SubSeq(c, 1, Len(d)) = d)
      <4> SUFFICES ASSUME Len(c) = Len(d) + 1, SubSeq(c, 1, Len(d)) = d PROVE d = p
        BY <2>4
      <4>1. Len(d) = Len(p)
        BY <1>2, <2>1 DEF Paths
      <4> QED BY <1>10, <4>1
    <3>2. D!Children(d)' = D!Children(d)
      BY <1>4, <1>9, <3>1 DEF D!Children
    <3> QED BY <1>4, <2>1, <2>4, <3>2 DEF Counted
  <2> QED BY <2>3, <2>4
<1>12. Counted(c)'
  <2>1. D!Children(c)' = {}
    <3> SUFFICES ASSUME NEW e \in D!Children(c)' PROVE FALSE
      OBVIOUS
    <3>1. e \in DOMAIN pc' /\ Len(e) = Len(c) + 1 /\ Above(c, e)
      <4>1. MazeTree' => (e \in D!Children(c)' <=> e \in DOMAIN pc' /\ Len(e) = Len(c) + 1 /\ Above(c, e))
        <5>1. e \in D!Children(c)' <=> e \in DOMAIN pc' /\ Len(e) = Len(c) + 1 /\ SubSeq(e, 1, Len(c)) = c
          BY <1>9
        <5>2. ASSUME MazeTree', e \in DOMAIN pc', Len(e) = Len(c) + 1, SubSeq(e, 1, Len(c)) = c
              PROVE  Above(c, e)
          <6>1. e \in Seq(1 .. 4)
            BY <5>2 DEF MazeTree, Paths
          <6>2. \A i \in 1 .. Len(c) : SubSeq(e, 1, Len(c))[i] = e[i]
            BY <1>2, <5>2, <6>1
          <6> QED BY <1>2, <5>2, <6>2 DEF Above
        <5>3. ASSUME MazeTree', e \in DOMAIN pc', Len(e) = Len(c) + 1, Above(c, e)
              PROVE  SubSeq(e, 1, Len(c)) = c
          <6>1. e \in Seq(1 .. 4) /\ c \in Seq(1 .. 4)
            BY <1>2, <5>3 DEF MazeTree, Paths
          <6>2. /\ SubSeq(e, 1, Len(c)) \in Seq(1 .. 4) /\ Len(SubSeq(e, 1, Len(c))) = Len(c)
                /\ \A i \in 1 .. Len(c) : SubSeq(e, 1, Len(c))[i] = e[i]
            BY <1>2, <5>3, <6>1
          <6> QED BY <1>2, <5>3, <6>1, <6>2 DEF Above
        <5> QED BY <5>1, <5>2, <5>3
      <4> QED BY <1>8, <4>1
    <3>2. pc'[c].m > e[Len(c) + 1]
      BY <1>4, <1>8, <3>1 DEF MazeTree
    <3>3. e[Len(c) + 1] \in 1 .. 4
      <4>1. e \in Seq(1 .. 4)
        BY <1>8, <3>1 DEF MazeTree, Paths
      <4> QED BY <1>2, <3>1, <4>1
    <3> QED BY <1>6, <3>2, <3>3
  <2> QED BY <1>6, <2>1, FS_EmptySet DEF Counted
<1>13. \A d \in DOMAIN pc' : Placed(d)' /\ Counted(d)'
  <2>1. Placed(p)'
    BY <1>0, <1>1, <1>5 DEF Placed
  <2>2. Placed(c)'
    BY <1>2, <1>6 DEF Placed
  <2>3. \A d \in DOMAIN pc : d # p => Placed(d)'
    BY <1>4 DEF MazeInv, Placed
  <2> QED BY <1>4, <1>11, <1>12, <2>1, <2>2, <2>3
<1>14. ASSUME NEW v, ToDest(v)
       PROVE  /\ \A d \in DOMAIN pc : d # p => (Ahead(d, v)' <=> Ahead(d, v))
              /\ Ahead(p, v) <=> Ahead(p, v)' \/ Ahead(c, v)'
  <2>1. \A d \in DOMAIN pc : d # p => (Ahead(d, v)' <=> Ahead(d, v))
    BY <1>4 DEF Ahead
  <2>2. p # v /\ v \in Seq(1 .. 4) /\ Len(v) \in Nat
    BY <1>0, <1>1, <1>14 DEF Placed, ToDest, Paths
  <2>3. Ahead(p, v) <=> Above(p, v) /\ v[Len(p) + 1] >= pc[p].m
    BY <2>2 DEF Ahead
  <2>4. Ahead(p, v)' <=> Above(p, v) /\ v[Len(p) + 1] >= pc[p].m + 1
    BY <1>5, <2>2 DEF Ahead
  <2>5. Ahead(c, v)' <=> c = v \/ (Above(c, v) /\ v[Len(c) + 1] >= 1)
    BY <1>6 DEF Ahead
  <2>6. Above(p, v) => v[Len(p) + 1] \in 1 .. 4
    BY <1>2, <2>2 DEF Above
  <2>7. Above(c, v) => v[Len(c) + 1] \in 1 .. 4
    BY <1>2, <2>2 DEF Above
  <2>8. c = v \/ Above(c, v) <=> Above(p, v) /\ v[Len(p) + 1] = pc[p].m
    <3>1. ASSUME c = v \/ Above(c, v) PROVE Above(p, v) /\ v[Len(p) + 1] = pc[p].m
      BY <1>2, <3>1 DEF Above
    <3>2. ASSUME Above(p, v), v[Len(p) + 1] = pc[p].m PROVE c = v \/ Above(c, v)
      <4>1. \A i \in 1 .. Len(c) : i \in 1 .. Len(p) \/ i = Len(p) + 1
        BY <1>2
      <4>2. \A i \in 1 .. Len(c) : c[i] = v[i]
        BY <1>2, <3>2, <4>1 DEF Above
      <4>3. c \in Seq(1 .. 4) /\ Len(c) <= Len(v)
        BY <1>2, <2>2, <3>2 DEF Paths, Above
      <4>4. CASE Len(c) = Len(v)
        BY <2>2, <4>2, <4>3, <4>4
      <4>5. CASE Len(c) # Len(v)
        BY <1>2, <2>2, <4>2, <4>3, <4>5 DEF Above
      <4> QED BY <4>4, <4>5
    <3> QED BY <3>1, <3>2
  <2>9. Ahead(p, v) <=> Ahead(p, v)' \/ Ahead(c, v)'
    BY <1>1, <2>3, <2>4, <2>5, <2>6, <2>7, <2>8
  <2> QED BY <2>1, <2>9
<1>15. ASSUME NEW v, ToDest(v) PROVE Pending(v)' <=> Pending(v)
  BY <1>4, <1>14, <1>15 DEF Pending
<1>16. MazeMaps'
  <2>1. x2' \in BOOLEAN
    BY <1>0 DEF MazeMaps
  <2> QED BY <1>0, <1>15, <2>1, SameMaps
<1> QED BY <1>7, <1>8, <1>13, <1>16 DEF MazeInv

LEMMA MazeReap ==
  ASSUME MazeInv, NEW p \in DOMAIN pc, pc[p].state = "wait", pc[p].nfork > 0, x1' = x1, x2' = x2,
         NEW c, Reaps(p, c)
  PROVE  MazeInv'
<1>0. p \in Paths /\ Typed /\ Placed(p) /\ Counted(p) /\ MazeTree /\ MazeMaps /\ Proc(pc[p])
  BY DEF MazeInv, MazeTree, Typed
<1>1. /\ DOMAIN pc' = DOMAIN pc \ {c} /\ pc' = [d \in DOMAIN pc' |-> pc'[d]]
      /\ \A d \in DOMAIN pc' : d # p => pc'[d] = pc[d]
      /\ c \in D!Children(p) /\ pc[c].state = "zombie" /\ c # p
      /\ pc'[p] = [at |-> pc[p].at, map |-> pc[p].map, m |-> pc[p].m, nfork |-> pc[p].nfork - 1, state |-> pc[p].state]
  BY DEF Reaps
<1>2. /\ pc'[p].at = pc[p].at /\ pc'[p].map = pc[p].map /\ pc'[p].m = pc[p].m
      /\ pc'[p].nfork = pc[p].nfork - 1 /\ pc'[p].state = "wait" /\ Proc(pc'[p])
  BY <1>0, <1>1 DEF Proc
<1>3. c \in DOMAIN pc /\ Len(c) = Len(p) + 1 /\ Len(p) \in Nat
  BY <1>0, <1>1, ChildIs DEF Paths
<1>4. Typed'
  BY <1>0, <1>1, <1>2 DEF Typed
<1>5. \A r \in DOMAIN pc : ~Above(c, r)
  BY <1>0, <1>1, <1>3 DEF MazeTree
<1>6. MazeTree'
  <2>1. <<>> \in DOMAIN pc'
    <3>1. c # <<>>
      BY <1>3
    <3> QED BY <1>0, <1>1, <3>1 DEF MazeTree
  <2>2. ASSUME NEW d \in DOMAIN pc', NEW n \in 0 .. (Len(d) - 1) PROVE SubSeq(d, 1, n) \in DOMAIN pc'
    <3>1. SubSeq(d, 1, n) \in DOMAIN pc /\ d \in DOMAIN pc /\ d \in Seq(1 .. 4)
      BY <1>0, <1>1 DEF MazeTree, Paths
    <3>2. Len(SubSeq(d, 1, n)) = n /\ n < Len(d) /\ \A i \in 1 .. n : SubSeq(d, 1, n)[i] = d[i]
      BY <3>1
    <3>3. Above(SubSeq(d, 1, n), d)
      BY <3>2 DEF Above
    <3> QED BY <1>1, <1>5, <3>1, <3>3
  <2>3. ASSUME NEW d \in DOMAIN pc', NEW q \in DOMAIN pc', Above(q, d)
        PROVE  pc'[q].m > d[Len(q) + 1] /\ pc'[q].state # "zombie"
    <3>1. pc[q].m > d[Len(q) + 1] /\ pc[q].state # "zombie"
      BY <1>0, <1>1, <2>3 DEF MazeTree
    <3> QED BY <1>1, <1>2, <3>1
  <2> QED BY <1>0, <1>1, <2>1, <2>2, <2>3 DEF MazeTree
<1>7. \A d : D!Children(d)' = D!Children(d) \ {c}
  BY <1>1 DEF D!Children
<1>8. ASSUME NEW d \in DOMAIN pc' PROVE Placed(d)' /\ Counted(d)'
  <2>1. d \in DOMAIN pc /\ d \in Paths /\ Placed(d) /\ Counted(d)
    BY <1>0, <1>1 DEF MazeInv, MazeTree
  <2>2. IsFiniteSet(D!Children(d)) /\ Cardinality(D!Children(d)) \in Nat
    BY <1>0, <2>1, ChildrenFinite
  <2>3. CASE d = p
    <3>1. Cardinality(D!Children(p) \ {c}) = Cardinality(D!Children(p)) - 1
      BY <1>1, <2>2, <2>3, FS_RemoveElement
    <3>2. pc[p].nfork \in Nat
      BY <1>0 DEF Proc
    <3>3. Counted(p)'
      <4>1. D!Children(p)' = D!Children(p) \ {c}
        BY <1>7
      <4>2. Cardinality(D!Children(p)') = Cardinality(D!Children(p)) - 1
        BY <3>1, <4>1
      <4>3. Cardinality(D!Children(p)) <= pc[p].nfork /\ Cardinality(D!Children(p)) \in Nat
        BY <2>1, <2>2, <2>3 DEF Counted
      <4>4. Cardinality(D!Children(p)') <= pc'[p].nfork
        BY <1>2, <3>2, <4>2, <4>3
      <4> QED BY <4>4 DEF Counted
    <3> QED BY <1>2, <2>1, <2>3, <3>3 DEF Placed
  <2>4. CASE d # p
    <3>1. Cardinality(D!Children(d) \ {c}) <= Cardinality(D!Children(d)) /\ Cardinality(D!Children(d) \ {c}) \in Nat
      <4>1. IsFiniteSet(D!Children(d) \ {c})
        BY <2>2, FS_Subset
      <4> QED BY <2>2, <4>1, FS_Subset, FS_CardinalityType
    <3>2. pc'[d] = pc[d] /\ pc[d].nfork \in Nat
      BY <1>0, <1>1, <2>1, <2>4 DEF Typed, Proc
    <3>3. Counted(d)'
      BY <1>7, <2>1, <2>2, <3>1, <3>2 DEF Counted
    <3> QED BY <2>1, <3>2, <3>3 DEF Placed
  <2> QED BY <2>3, <2>4
<1>9. ASSUME NEW v PROVE Pending(v)' <=> Pending(v)
  <2>1. ~Ahead(c, v) /\ ~Ahead(p, v) /\ ~Ahead(p, v)'
    BY <1>0, <1>1, <1>2 DEF Ahead
  <2>2. \A d \in DOMAIN pc' : d # p => (Ahead(d, v)' <=> Ahead(d, v))
    BY <1>1 DEF Ahead
  <2> QED BY <1>1, <2>1, <2>2 DEF Pending
<1>10. MazeMaps'
  <2>1. x2' \in BOOLEAN
    BY <1>0 DEF MazeMaps
  <2> QED BY <1>0, <1>9, <2>1, SameMaps
<1> QED BY <1>4, <1>6, <1>8, <1>10 DEF MazeInv

\* wait() that finds no child: p only counts down.
LEMMA MazeWaitNone ==
  ASSUME MazeInv, NEW p \in DOMAIN pc, pc[p].state = "wait", pc[p].nfork > 0, x1' = x1, x2' = x2,
         D!Children(p) = {}, Becomes(p, pc[p].m, pc[p].nfork - 1, pc[p].state)
  PROVE  MazeInv'
<1>0. Typed /\ Placed(p)
  BY DEF MazeInv
<1>1. /\ pc[p].m \in 1 .. 5 /\ pc[p].m >= pc[p].m /\ pc[p].at = Dest => pc[p].m = 1
      /\ pc[p].nfork - 1 \in Nat
  BY <1>0 DEF Typed, Proc, Placed
<1>2. Cardinality(D!Children(p)) <= pc[p].nfork - 1
  <2>1. Cardinality(D!Children(p)) = 0
    BY FS_EmptySet
  <2> QED BY <1>1, <2>1
<1>3. /\ Typed' /\ MazeTree' /\ \A d \in DOMAIN pc' : Placed(d)' /\ Counted(d)'
      /\ DOMAIN pc' = DOMAIN pc /\ \A d \in DOMAIN pc : d # p => pc'[d] = pc[d]
      /\ pc'[p].state = "wait"
  <2>1. Becomes(p, pc[p].m, pc[p].nfork - 1, "wait")
    OBVIOUS
  <2>2. pc[p].m \in 1 .. 5 /\ pc[p].m >= pc[p].m
    BY <1>0 DEF Typed, Proc
  <2>3. pc[p].at = Dest => pc[p].m = 1
    BY <1>0 DEF Placed
  <2> QED BY <1>1, <1>2, <2>1, <2>2, <2>3, StillMaze
<1>4. \A v : ToDest(v) => ~Ahead(p, v)
  BY DEF Ahead
<1>5. MazeMaps'
  BY <1>3, <1>4, NotAhead
<1> QED BY <1>3, <1>5 DEF MazeInv

LEMMA MazeStep == ASSUME MazeInv, D!Next PROVE MazeInv'
<1>1. PICK p \in DOMAIN pc : D!dfs(p)
  BY DEF D!Next
<1>2. Typed /\ p \in Paths
  BY DEF MazeInv, MazeTree
<1>3. CASE D!display(p)
  BY <1>3, MazeDisplay
<1>4. CASE D!enter_wait(p)
  BY <1>4, MazeEnterWait
<1>5. CASE D!exit(p)
  BY <1>5, MazeExit
<1>6. CASE D!move(p)
  <2>1. /\ pc[p].state = "loop" /\ pc[p].map[pc[p].at] # "+" /\ pc[p].m <= 4 /\ x1' = x1
        /\ \/ LeadsOn(p) /\ x2' = x2 /\ Forks(p, Append(p, pc[p].m))
           \/ LeadsOn(p) /\ x2' = TRUE /\ Becomes(p, pc[p].m + 1, pc[p].nfork + 1, pc[p].state)
           \/ ~LeadsOn(p) /\ x2' = x2 /\ Becomes(p, pc[p].m + 1, pc[p].nfork, pc[p].state)
    BY <1>2, <1>6, MoveDoes
  <2>2. CASE LeadsOn(p) /\ x2' = x2 /\ Forks(p, Append(p, pc[p].m))
    BY <2>1, <2>2, MazeFork
  <2>3. CASE LeadsOn(p) /\ x2' = TRUE /\ Becomes(p, pc[p].m + 1, pc[p].nfork + 1, pc[p].state)
    BY <2>1, <2>3, MazeNoFork
  <2>4. CASE ~LeadsOn(p) /\ x2' = x2 /\ Becomes(p, pc[p].m + 1, pc[p].nfork, pc[p].state)
    BY <2>1, <2>4, MazeNoFork
  <2> QED BY <2>1, <2>2, <2>3, <2>4
<1>7. CASE D!wait(p)
  <2>1. /\ pc[p].state = "wait" /\ pc[p].nfork > 0 /\ x1' = x1 /\ x2' = x2
        /\ \/ \E c : Reaps(p, c)
           \/ D!Children(p) = {} /\ Becomes(p, pc[p].m, pc[p].nfork - 1, pc[p].state)
    BY <1>2, <1>7, WaitDoes
  <2>2. ASSUME NEW c, Reaps(p, c) PROVE MazeInv'
    BY <2>1, <2>2, MazeReap
  <2>3. CASE D!Children(p) = {} /\ Becomes(p, pc[p].m, pc[p].nfork - 1, pc[p].state)
    BY <2>1, <2>3, MazeWaitNone
  <2> QED BY <2>1, <2>2, <2>3
<1> QED BY <1>1, <1>3, <1>4, <1>5, <1>6, <1>7 DEF D!dfs

LEMMA MazeStart == ASSUME D!Init PROVE MazeInv
<1>1. /\ DOMAIN pc = {<<>>} /\ pc = [d \in DOMAIN pc |-> pc[d]]
      /\ pc[<<>>] = [at |-> Start, map |-> D!Map0, m |-> 1, nfork |-> 0, state |-> "loop"]
      /\ x1 = <<>> /\ x2 = FALSE
  BY DEF D!Init, D!Enters
<1>2. <<>> \in Paths /\ Len(<<>>) = 0 /\ Len(x1) = 0
  BY <1>1 DEF Paths
<1>3. Cell(<<>>, 1) = Start /\ Start \in Cells /\ Start \in Int \X Int
  BY <1>2, CellFirst, TestsAssumption
<1>4. Proc(pc[<<>>]) /\ Typed
  BY <1>1 DEF Typed, Proc
<1>5. MazeTree
  <2>1. \A n \in 0 .. (Len(<<>>) - 1) : FALSE
    BY <1>2
  <2>2. ~Above(<<>>, <<>>)
    BY <1>2 DEF Above
  <2> QED BY <1>1, <1>2, <2>1, <2>2 DEF MazeTree
<1>6. Placed(<<>>)
  <2>1. Straight(<<>>)
    BY <1>2, <1>3 DEF Straight
  <2>2. IsMap(D!Map0, <<>>)
    BY <1>2 DEF IsMap, D!Map0
  <2> QED BY <1>1, <1>2, <1>3, <2>1, <2>2 DEF Placed
<1>7. Counted(<<>>)
  <2>1. D!Children(<<>>) = {}
    BY <1>1, <1>2, SMTT(40) DEF D!Children
  <2>2. Cardinality(D!Children(<<>>)) = 0 /\ pc[<<>>].nfork = 0
    BY <1>1, <2>1, FS_EmptySet, SMTT(40)
  <2> QED BY <2>2 DEF Counted
<1>8. ASSUME NEW v, ToDest(v) PROVE Pending(v)
  <2>1. v \in Seq(1 .. 4) /\ Len(v) \in Nat
    BY <1>8 DEF ToDest, Paths
  <2>2. CASE v = <<>>
    BY <1>1, <2>2 DEF Pending, Ahead
  <2>3. CASE v # <<>>
    <3>1. Len(v) > 0
      BY <2>1, <2>3
    <3>2. Above(<<>>, v) /\ v[1] \in 1 .. 4
      BY <1>2, <2>1, <3>1 DEF Above
    <3>3. pc[<<>>].m = 1 /\ pc[<<>>].state = "loop" /\ Len(<<>>) + 1 = 1
      BY <1>1, <1>2
    <3> QED BY <1>1, <3>2, <3>3 DEF Pending, Ahead
  <2> QED BY <2>2, <2>3
<1>9. MazeMaps
  <2>1. x1 \in Seq([Cells -> Marks]) /\ x2 \in BOOLEAN
    <3>1. \A S : <<>> \in Seq(S)
      OBVIOUS
    <3>2. x1 \in Seq([Cells -> Marks])
      BY <1>1, <3>1, Zenon
    <3> QED BY <1>1, <3>2
  <2>2. \A v : ~Shown(v)
    BY <1>2 DEF Shown
  <2> QED BY <1>2, <1>8, <2>1, <2>2 DEF MazeMaps
<1> QED BY <1>1, <1>4, <1>5, <1>6, <1>7, <1>9 DEF MazeInv

\* What has been printed are ways, and when nothing is ahead, all of them.
LEMMA ShownAreWays ==
  ASSUME MazeMaps, NEW i \in 1 .. Len(x1)
  PROVE  \E v : ToDest(v) /\ x1[i] = D!Drawn(WayOf(v)) /\ WayOf(v) \in D!Ways
<1>1. PICK v : ToDest(v) /\ IsMap(x1[i], v)
  BY DEF MazeMaps
<1>2. IsMap(D!Drawn(WayOf(v)), v) /\ WayOf(v) \in D!Ways
  BY <1>1, DrawnIs, WayOfIn
<1>3. x1[i] = D!Drawn(WayOf(v))
  BY <1>1, <1>2, MapOnce
<1> QED BY <1>1, <1>2, <1>3

LEMMA DrawnOnce ==
  ASSUME NEW v \in D!Ways, NEW w \in D!Ways, D!Drawn(v) = D!Drawn(w)
  PROVE  v = w
<1>1. PICK a : ToDest(a) /\ WayOf(a) = v
  BY InWayOf
<1>2. PICK b : ToDest(b) /\ WayOf(b) = w
  BY InWayOf
<1>3. IsMap(D!Drawn(v), a) /\ IsMap(D!Drawn(w), b)
  BY <1>1, <1>2, DrawnIs
<1>4. a = b
  BY <1>1, <1>2, <1>3, MapShowsWay
<1> QED BY <1>1, <1>2, <1>4

LEMMA AllShown ==
  ASSUME MazeMaps, ~x2, \A v : ~Pending(v)
  PROVE  Len(x1) = Cardinality(D!Ways)
<1> DEFINE n == Len(x1)
           f == [i \in 1 .. n |-> CHOOSE w \in D!Ways : x1[i] = D!Drawn(w)]
<1>1. n \in Nat /\ \A i, j \in 1 .. n : x1[i] = x1[j] => i = j
  BY DEF MazeMaps
<1>2. \A i \in 1 .. n : f[i] \in D!Ways /\ x1[i] = D!Drawn(f[i])
  BY ShownAreWays
<1>3. f \in [1 .. n -> D!Ways]
  BY <1>2
<1> HIDE DEF f
<1>4. \A i, j \in 1 .. n : f[i] = f[j] => i = j
  BY <1>1, <1>2
<1>5. ASSUME NEW w \in D!Ways PROVE \E i \in 1 .. n : f[i] = w
  <2>1. PICK v : ToDest(v) /\ WayOf(v) = w
    BY InWayOf
  <2>2. Shown(v)
    BY <2>1 DEF MazeMaps
  <2>3. PICK i \in 1 .. n : IsMap(x1[i], v)
    BY <2>2 DEF Shown
  <2>4. IsMap(D!Drawn(w), v)
    BY <2>1, DrawnIs
  <2>5. x1[i] = D!Drawn(w)
    BY <2>3, <2>4, MapOnce
  <2> QED BY <1>2, <2>3, <2>5, DrawnOnce
<1>6. f \in Bijection(1 .. n, D!Ways)
  BY <1>3, <1>4, <1>5 DEF Bijection, Injection, Surjection, IsInjective
<1> HIDE DEF n
<1>7. IsFiniteSet(1 .. n) /\ Cardinality(1 .. n) = n
  <2>1. n \in Int /\ 1 \in Int
    BY <1>1
  <2>2. IsFiniteSet(1 .. n) /\ Cardinality(1 .. n) = IF 1 > n THEN 0 ELSE n - 1 + 1
    BY <2>1, FS_Interval
  <2> QED BY <1>1, <2>2
<1>8. Cardinality(D!Ways) = Cardinality(1 .. n)
  <2>1. f \in Surjection(1 .. n, D!Ways) /\ f \in Injection(1 .. n, D!Ways)
    BY <1>6 DEF Bijection
  <2> QED BY <1>7, <2>1, FS_Surjection
<1> QED BY <1>7, <1>8 DEF n

LEMMA MazeSafe == ASSUME MazeInv PROVE D!ShowsEveryWay /\ D!LastToLeave
<1>1. MazeTree /\ MazeMaps
  BY DEF MazeInv
<1>2. ASSUME D!Returned PROVE DOMAIN pc = {<<>>}
  <2>1. <<>> \in DOMAIN pc /\ pc[<<>>].state = "zombie"
    BY <1>2 DEF D!Returned
  <2>2. ASSUME NEW p \in DOMAIN pc, p # <<>> PROVE FALSE
    <3>1. p \in Seq(1 .. 4) /\ Len(<<>>) = 0
      BY <1>1 DEF MazeTree, Paths
    <3>2. Above(<<>>, p)
      BY <2>2, <3>1 DEF Above
    <3> QED BY <1>1, <2>1, <3>2 DEF MazeTree
  <2> QED BY <2>1, <2>2
<1>3. ASSUME D!Returned, ~x2 PROVE Len(x1) = D!Cardinality(D!Ways)
  <2>1. DOMAIN pc = {<<>>} /\ pc[<<>>].state # "loop"
    BY <1>2, <1>3 DEF D!Returned
  <2>2. \A v : ~Pending(v)
    BY <2>1 DEF Pending, Ahead
  <2> QED BY <1>1, <1>3, <2>2, AllShown, DCard
<1>4. \A i \in 1 .. Len(x1) : \E w \in D!Ways : x1[i] = D!Drawn(w)
  BY <1>1, ShownAreWays
<1>5. \A i, j \in 1 .. Len(x1) : x1[i] = x1[j] => i = j
  BY <1>1 DEF MazeMaps
<1> QED BY <1>2, <1>3, <1>4, <1>5 DEF D!ShowsEveryWay, D!LastToLeave

SearchInv == prog = "dfstest" => MazeInv

\* dfstest.c, for every maze: in every order of the processes each map printed
\* is a way from Start to Dest, no way is printed twice, and all of them have
\* been printed when the first process returns, unless a fork failed.  Nothing
\* of the test runs on then.
THEOREM EveryWayShown == TestsSpec => []Dfs_ShowsEveryWay
<1>1. TestsInit => SearchInv
  BY MazeStart DEF TestsInit, SearchInv
<1>2. SearchInv /\ [TestsNext]_allVars => SearchInv'
  <2> SUFFICES ASSUME SearchInv, [TestsNext]_allVars, prog = "dfstest" PROVE MazeInv'
    BY OneProgram DEF SearchInv
  <2>1. MazeInv
    BY DEF SearchInv
  <2>2. CASE UNCHANGED allVars
    <3>1. pc' = pc /\ x1' = x1 /\ x2' = x2
      BY <2>2 DEF allVars, vars
    <3>2. \A p : D!Children(p)' = D!Children(p)
      BY <3>1 DEF D!Children
    <3>3. /\ Typed' /\ MazeTree'
          /\ \A p \in DOMAIN pc : Placed(p)' /\ Counted(p)'
      BY <2>1, <3>1, <3>2 DEF MazeInv, Typed, MazeTree, Placed, Counted
    <3>4. MazeMaps'
      BY <2>1, <3>1 DEF MazeInv, MazeMaps, Pending, Ahead, Shown
    <3> QED BY <3>1, <3>3, <3>4 DEF MazeInv
  <2>3. CASE D!Next
    BY <2>1, <2>3, MazeStep
  <2> QED BY <2>2, <2>3, OneProgram DEF dfstest, producer, rmtest, readtest, waittest, forkfork
<1>3. SearchInv => Dfs_ShowsEveryWay
  BY MazeSafe DEF SearchInv, Dfs_ShowsEveryWay
<1> QED BY <1>1, <1>2, <1>3, PTL DEF TestsSpec

=============================================================================
