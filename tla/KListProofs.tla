----------------------------- MODULE KListProofs -----------------------------
(***************************************************************************)
(* Proofs about KList, for every pool size, set of lists and payloads.     *)
(* RingsOK /\ TypeOK is inductive.  Its core, RingInv, is stated over an   *)
(* arbitrary set S of linked cells, so that the two pointer operations     *)
(* have a lemma each: unlinking takes a cell out of S, list_add_next puts  *)
(* one in.  Every operation of list.c is one after the other.              *)
(***************************************************************************)
EXTENDS KList, FiniteSetTheorems, WellFoundedInduction, TLAPS

\* The links and the history of the cells, with S the linked ones.
RingState(nx, pv, ow, st, S) ==
  /\ nx \in [Cells -> Cells \cup {NULL}]
  /\ pv \in [Cells -> Cells \cup {NULL}]
  /\ ow \in [Cells -> Rings]
  /\ st \in [Nodes -> Nat]
  /\ S \in SUBSET Cells
  /\ \A m, n \in Nodes : m # n => st[m] # st[n]
  /\ RingInv(nx, pv, ow, st, S)

\* k is later than every addition so far.
Newer(k, st) == k \in Nat /\ \A n \in Nodes : st[n] < k

With(f, x, v) == [f EXCEPT ![x] = v]

\* p->prev->next = p->next; p->next->prev = p->prev takes p out of its ring.
LEMMA UnlinkRing ==
  ASSUME NEW nx, NEW pv, NEW ow, NEW st, NEW S,
         RingState(nx, pv, ow, st, S),
         NEW p \in Nodes, p \in S
  PROVE  /\ RingState(UnlinkN(nx, pv, p), UnlinkP(nx, pv, p), ow, st, S \ {p})
         /\ \A c \in Cells : UnlinkN(nx, pv, p)[c] = NULL <=> nx[c] = NULL
<1> DEFINE nx1 == UnlinkN(nx, pv, p)
           pv1 == UnlinkP(nx, pv, p)
           T == S \ {p}
<1> nx \in [Cells -> Cells \cup {NULL}] /\ pv \in [Cells -> Cells \cup {NULL}]
  BY DEF RingState
<1> ow \in [Cells -> Rings] /\ st \in [Nodes -> Nat] /\ S \in SUBSET Cells
  BY DEF RingState
<1> RingInv(nx, pv, ow, st, S) /\ \A m, n \in Nodes : m # n => st[m] # st[n]
  BY DEF RingState
<1>1. /\ nx[p] \in S /\ pv[p] \in S
      /\ pv[nx[p]] = p /\ nx[pv[p]] = p
      /\ ow[nx[p]] = ow[p] /\ ow[pv[p]] = ow[p]
  BY DEF RingInv, RingLinks
<1>2. nx[p] # p /\ pv[p] # p
  <2>1. nx[p] # p
    BY DEF RingInv, RingOrder
  <2> QED BY <2>1, <1>1
<1>3. p \notin Rings /\ NULL \notin Cells
  BY CellAssumption DEF Cells
<1>4. /\ nx1 \in [Cells -> Cells \cup {NULL}]
      /\ pv1 \in [Cells -> Cells \cup {NULL}]
      /\ \A c \in Cells : nx1[c] = IF c = pv[p] THEN nx[p] ELSE nx[c]
      /\ \A c \in Cells : pv1[c] = IF c = nx[p] THEN pv[p] ELSE pv[c]
  BY <1>1 DEF UnlinkN, UnlinkP
<1>5. RingLinks(nx1, pv1, ow, T)
  <2> SUFFICES ASSUME NEW c \in T
               PROVE  /\ nx1[c] \in T /\ pv1[c] \in T
                      /\ pv1[nx1[c]] = c /\ nx1[pv1[c]] = c
                      /\ ow[nx1[c]] = ow[c]
                      /\ ow[c] \in T
                      /\ c \in Rings => ow[c] = c
                      /\ c \notin Rings => c \in Nodes
    BY DEF RingLinks
  <2>1. /\ nx[c] \in S /\ pv[c] \in S
        /\ pv[nx[c]] = c /\ nx[pv[c]] = c
        /\ ow[nx[c]] = ow[c]
        /\ ow[c] \in S
        /\ c \in Rings => ow[c] = c
        /\ c \notin Rings => c \in Nodes
    BY DEF RingInv, RingLinks
  <2>2. ow[c] \in T
    BY <2>1, <1>3
  <2>3. nx1[c] \in T /\ pv1[nx1[c]] = c /\ ow[nx1[c]] = ow[c]
    BY <2>1, <1>1, <1>2, <1>4
  <2>4. pv1[c] \in T /\ nx1[pv1[c]] = c
    BY <2>1, <1>1, <1>2, <1>4
  <2> QED BY <2>1, <2>2, <2>3, <2>4
<1>6. RingOrder(nx1, st, T)
  <2> SUFFICES ASSUME NEW c \in T, c \in Nodes, nx1[c] \in Nodes
               PROVE  st[nx1[c]] < st[c]
    BY DEF RingOrder
  <2>1. CASE c = pv[p]
    <3>1. nx1[c] = nx[p] /\ nx[c] = p
      BY <2>1, <1>1, <1>4
    <3>2. st[nx[p]] < st[p] /\ st[p] < st[c]
      BY <3>1, <1>1 DEF RingInv, RingOrder
    <3> QED BY <3>1, <3>2
  <2>2. CASE c # pv[p]
    BY <2>2, <1>4 DEF RingInv, RingOrder
  <2> QED BY <2>1, <2>2
<1>7. RingGapless(nx1, ow, st, T)
  <2> SUFFICES ASSUME NEW c \in T, NEW m \in T, m \in Nodes, ow[m] = ow[c]
               PROVE  \/ c \in Nodes /\ st[m] >= st[c]
                      \/ nx1[c] \in Nodes /\ st[m] <= st[nx1[c]]
    BY DEF RingGapless
  <2>1. \/ c \in Nodes /\ st[m] >= st[c]
        \/ nx[c] \in Nodes /\ st[m] <= st[nx[c]]
    BY DEF RingInv, RingGapless
  <2>2. CASE c = pv[p]
    <3>1. nx1[c] = nx[p] /\ nx[c] = p /\ ow[m] = ow[p]
      BY <2>2, <1>1, <1>4
    <3>2. \/ st[m] >= st[p]
          \/ nx[p] \in Nodes /\ st[m] <= st[nx[p]]
      BY <3>1 DEF RingInv, RingGapless
    <3> QED BY <2>1, <3>1, <3>2
  <2>3. CASE c # pv[p]
    BY <2>1, <2>3, <1>4
  <2> QED BY <2>2, <2>3
<1>8. \A c \in Cells : nx1[c] = NULL <=> nx[c] = NULL
  BY <1>1, <1>3, <1>4
<1>9. RingInv(nx1, pv1, ow, st, T)
  BY <1>5, <1>6, <1>7 DEF RingInv
<1>10. T \in SUBSET Cells
  OBVIOUS
<1> HIDE DEF nx1, pv1, T
<1>11. RingState(nx1, pv1, ow, st, T)
  BY <1>4, <1>9, <1>10 DEF RingState
<1> QED BY <1>8, <1>11 DEF nx1, pv1, T

\* list_add_next(r, p) puts p right behind the sentinel r, as its newest cell.
LEMMA AddNextRing ==
  ASSUME NEW nx, NEW pv, NEW ow, NEW st, NEW S,
         RingState(nx, pv, ow, st, S),
         NEW r \in Rings, r \in S,
         NEW p \in Nodes, p \notin S,
         NEW k, Newer(k, st)
  PROVE  /\ RingState(AddNextN(nx, r, p), AddNextP(nx, pv, r, p),
                      With(ow, p, r), With(st, p, k), S \cup {p})
         /\ \A c \in Cells : AddNextN(nx, r, p)[c] = NULL <=>
                               (c # p /\ nx[c] = NULL)
<1> DEFINE nx1 == AddNextN(nx, r, p)
           pv1 == AddNextP(nx, pv, r, p)
           ow1 == [ow EXCEPT ![p] = r]
           st1 == [st EXCEPT ![p] = k]
           T == S \cup {p}
           q == nx[r]
<1> nx \in [Cells -> Cells \cup {NULL}] /\ pv \in [Cells -> Cells \cup {NULL}]
  BY DEF RingState
<1> ow \in [Cells -> Rings] /\ st \in [Nodes -> Nat] /\ S \in SUBSET Cells
  BY DEF RingState
<1> RingInv(nx, pv, ow, st, S) /\ \A m, n \in Nodes : m # n => st[m] # st[n]
  BY DEF RingState
<1> k \in Nat /\ \A n \in Nodes : st[n] < k
  BY DEF Newer
<1>1. /\ q \in S /\ pv[q] = r /\ ow[q] = r /\ ow[r] = r
      /\ q \in Cells
  BY DEF RingInv, RingLinks
<1>2. p \in Cells /\ p \notin Rings /\ r \notin Nodes /\ NULL \notin Cells
      /\ Nodes \subseteq Cells
  BY CellAssumption DEF Cells
<1>3. /\ nx1 \in [Cells -> Cells \cup {NULL}]
      /\ pv1 \in [Cells -> Cells \cup {NULL}]
      /\ nx1[p] = q /\ nx1[r] = p
      /\ \A c \in Cells : c # p /\ c # r => nx1[c] = nx[c]
      /\ pv1[p] = r /\ pv1[q] = p
      /\ \A c \in Cells : c # p /\ c # q => pv1[c] = pv[c]
  BY <1>1, <1>2 DEF AddNextN, AddNextP
<1>4. /\ ow1[p] = r
      /\ \A c \in S : ow1[c] = ow[c]
      /\ st1[p] = k
      /\ \A n \in Nodes : n # p => st1[n] = st[n]
  BY <1>2
<1>5. RingLinks(nx1, pv1, ow1, T)
  <2> SUFFICES ASSUME NEW c \in T
               PROVE  /\ nx1[c] \in T /\ pv1[c] \in T
                      /\ pv1[nx1[c]] = c /\ nx1[pv1[c]] = c
                      /\ ow1[nx1[c]] = ow1[c]
                      /\ ow1[c] \in T
                      /\ c \in Rings => ow1[c] = c
                      /\ c \notin Rings => c \in Nodes
    BY DEF RingLinks
  <2>1. CASE c = p
    BY <2>1, <1>1, <1>2, <1>3, <1>4
  <2>2. CASE c # p
    <3>1. /\ c \in S
          /\ nx[c] \in S /\ pv[c] \in S
          /\ pv[nx[c]] = c /\ nx[pv[c]] = c
          /\ ow[nx[c]] = ow[c]
          /\ ow[c] \in S
          /\ c \in Rings => ow[c] = c
          /\ c \notin Rings => c \in Nodes
      BY <2>2 DEF RingInv, RingLinks
    <3>2. nx1[c] \in T /\ pv1[nx1[c]] = c /\ ow1[nx1[c]] = ow1[c]
      BY <3>1, <2>2, <1>1, <1>2, <1>3, <1>4
    <3>3. pv1[c] \in T /\ nx1[pv1[c]] = c
      BY <3>1, <2>2, <1>1, <1>2, <1>3, <1>4
    <3> QED BY <3>1, <3>2, <3>3, <1>4
  <2> QED BY <2>1, <2>2
<1>6. RingOrder(nx1, st1, T)
  <2> SUFFICES ASSUME NEW c \in T, c \in Nodes, nx1[c] \in Nodes
               PROVE  st1[nx1[c]] < st1[c]
    BY DEF RingOrder
  <2>1. c # r
    BY <1>2
  <2>2. CASE c = p
    BY <2>2, <1>1, <1>3, <1>4
  <2>3. CASE c # p
    <3>1. nx1[c] = nx[c] /\ nx[c] \in S /\ c \in S
      BY <2>1, <2>3, <1>3 DEF RingInv, RingLinks
    <3>2. st[nx[c]] < st[c]
      BY <3>1 DEF RingInv, RingOrder
    <3> QED BY <3>1, <3>2, <2>3, <1>4
  <2> QED BY <2>2, <2>3
<1>7. RingGapless(nx1, ow1, st1, T)
  <2> SUFFICES ASSUME NEW c \in T, NEW m \in T, m \in Nodes, ow1[m] = ow1[c]
               PROVE  \/ c \in Nodes /\ st1[m] >= st1[c]
                      \/ nx1[c] \in Nodes /\ st1[m] <= st1[nx1[c]]
    BY DEF RingGapless
  <2>1. CASE c = r
    <3>1. nx1[c] = p /\ st1[p] = k
      BY <2>1, <1>3, <1>4
    <3>2. st1[m] <= k
      BY <1>4
    <3> QED BY <3>1, <3>2
  <2>2. CASE c = p
    <3>1. CASE m = p
      BY <2>2, <3>1, <1>4
    <3>2. CASE m # p
      <4>1. m \in S /\ ow[m] = ow[r]
        BY <2>2, <3>2, <1>1, <1>4
      <4>2. q \in Nodes /\ st[m] <= st[q]
        BY <4>1, <1>2 DEF RingInv, RingGapless
      <4> QED BY <4>1, <4>2, <3>2, <2>2, <1>1, <1>3, <1>4
    <3> QED BY <3>1, <3>2
  <2>3. CASE c # r /\ c # p
    <3>1. c \in S /\ nx1[c] = nx[c] /\ nx[c] \in S /\ ow1[c] = ow[c]
      BY <2>3, <1>3, <1>4 DEF RingInv, RingLinks
    <3>2. CASE m = p
      <4>1. ow[r] = ow[c]
        BY <3>1, <3>2, <1>1, <1>4
      <4>2. c \in Nodes
        BY <3>1, <4>1, <1>1, <2>3 DEF RingInv, RingLinks
      <4> QED BY <4>2, <3>2, <2>3, <1>4
    <3>3. CASE m # p
      <4>1. m \in S /\ ow[m] = ow[c]
        BY <3>1, <3>3, <1>4
      <4>2. \/ c \in Nodes /\ st[m] >= st[c]
            \/ nx[c] \in Nodes /\ st[m] <= st[nx[c]]
        BY <3>1, <4>1 DEF RingInv, RingGapless
      <4> QED BY <4>1, <4>2, <3>1, <3>3, <2>3, <1>4
    <3> QED BY <3>2, <3>3
  <2> QED BY <2>1, <2>2, <2>3
<1>8. \A c \in Cells : nx1[c] = NULL <=> (c # p /\ nx[c] = NULL)
  <2> SUFFICES ASSUME NEW c \in Cells PROVE nx1[c] = NULL <=> (c # p /\ nx[c] = NULL)
    OBVIOUS
  <2>1. nx[r] # NULL
    BY <1>1, <1>2
  <2> QED BY <2>1, <1>1, <1>2, <1>3
<1>9. RingInv(nx1, pv1, ow1, st1, T)
  BY <1>5, <1>6, <1>7 DEF RingInv
<1>10. T \in SUBSET Cells /\ ow1 \in [Cells -> Rings]
  BY <1>2
<1>11. st1 \in [Nodes -> Nat]
  OBVIOUS
<1>12. \A m, n \in Nodes : m # n => st1[m] # st1[n]
  BY <1>4
<1> HIDE DEF nx1, pv1, ow1, st1, T
<1>13. RingState(nx1, pv1, ow1, st1, T)
  BY <1>3, <1>9, <1>10, <1>11, <1>12 DEF RingState
<1> QED BY <1>8, <1>13 DEF nx1, pv1, ow1, st1, T, With

-----------------------------------------------------------------------------
(* The inductive invariant.                                                *)

IInv == TypeOK /\ RingsOK

\* Moving a pool cell from the ring it is in to behind the sentinel r: what
\* list_enqueue, list_dequeue and list_remove do to the links.
Move(r, p) ==
  /\ next' = AddNextN(UnlinkN(next, prev, p), r, p)
  /\ prev' = AddNextP(UnlinkN(next, prev, p), UnlinkP(next, prev, p), r, p)
  /\ Record(r, p)

\* Such a move keeps every ring well formed and links or unlinks nothing else.
LEMMA MoveRing ==
  ASSUME IInv, inited,
         NEW p \in Nodes,
         NEW r \in Rings, r \in Linked,
         Move(r, p)
  PROVE  /\ next' \in [Cells -> Cells \cup {NULL}]
         /\ prev' \in [Cells -> Cells \cup {NULL}]
         /\ owner' \in [Cells -> Rings]
         /\ stamp' \in [Nodes -> Nat]
         /\ clock' \in Nat
         /\ Linked' = Linked
         /\ RingInv(next, prev, owner, stamp, Linked)'
         /\ StampInv'
         /\ SentinelInv'
<1> DEFINE nx1 == UnlinkN(next, prev, p)
           pv1 == UnlinkP(next, prev, p)
<1>1. p \in Linked /\ p \in Cells /\ p \notin Rings /\ Linked \in SUBSET Cells
      /\ r # p
  BY CellAssumption DEF IInv, RingsOK, InitedInv, Cells, Linked
<1>2. /\ RingState(nx1, pv1, owner, stamp, Linked \ {p})
      /\ \A c \in Cells : nx1[c] = NULL <=> next[c] = NULL
  <2>1. RingState(next, prev, owner, stamp, Linked)
    BY <1>1 DEF IInv, TypeOK, RingsOK, StampInv, RingState
  <2> QED BY <2>1, <1>1, UnlinkRing
<1>3. /\ owner' = [owner EXCEPT ![p] = r]
      /\ stamp' = [stamp EXCEPT ![p] = clock]
      /\ clock' = clock + 1
      /\ next' = AddNextN(nx1, r, p)
      /\ prev' = AddNextP(nx1, pv1, r, p)
  BY DEF Move, Record
<1>4. /\ clock \in Nat
      /\ owner \in [Cells -> Rings]
      /\ stamp \in [Nodes -> Nat]
      /\ \A n \in Nodes : stamp[n] < clock
      /\ \A q \in Rings : owner[q] = q
  BY DEF IInv, TypeOK, RingsOK, StampInv, SentinelInv
<1> HIDE DEF nx1, pv1
<1>5. /\ RingState(next', prev', owner', stamp', (Linked \ {p}) \cup {p})
      /\ \A c \in Cells : next'[c] = NULL <=> (c # p /\ nx1[c] = NULL)
  <2> DEFINE S == Linked \ {p}
  <2>1. r \in S /\ p \notin S
    BY <1>1
  <2>2. Newer(clock, stamp)
    BY <1>4 DEF Newer
  <2>3. RingState(nx1, pv1, owner, stamp, S)
    BY <1>2
  <2> HIDE DEF S
  <2>4. /\ RingState(AddNextN(nx1, r, p), AddNextP(nx1, pv1, r, p),
                     With(owner, p, r), With(stamp, p, clock), S \cup {p})
        /\ \A c \in Cells : AddNextN(nx1, r, p)[c] = NULL <=>
                              (c # p /\ nx1[c] = NULL)
    BY ONLY <2>1, <2>2, <2>3, AddNextRing, p \in Nodes, r \in Rings, SMTT(40)
  <2>5. /\ RingState(next', prev', owner', stamp', S \cup {p})
        /\ \A c \in Cells : next'[c] = NULL <=> (c # p /\ nx1[c] = NULL)
    BY <2>4, <1>3 DEF With
  <2> QED BY <2>5 DEF S
<1>6. Linked' = Linked
  BY <1>1, <1>2, <1>5 DEF Linked
<1>7. (Linked \ {p}) \cup {p} = Linked'
  BY <1>1, <1>6
<1>8. RingState(next', prev', owner', stamp', Linked')
  BY <1>5, <1>7
<1>9. /\ \A n \in Nodes : stamp'[n] < clock'
      /\ clock' \in Nat
  BY <1>3, <1>4
<1>10. SentinelInv'
  BY <1>1, <1>3, <1>4 DEF SentinelInv, Cells
<1> QED BY <1>6, <1>8, <1>9, <1>10 DEF RingState, StampInv

\* A linked sentinel means that the pool has been built, and a list that is not
\* empty has a pool cell before its sentinel.
LEMMA LinkedFacts ==
  ASSUME IInv, NEW r \in Rings, next[r] # NULL
  PROVE  /\ inited /\ r \in Linked /\ FreeList \in Linked
         /\ ~list_empty(r) => /\ prev[r] \in Nodes /\ prev[r] \in Linked
                              /\ owner[prev[r]] = r
                              /\ \A m \in Nodes : owner[m] = r => stamp[m] >= stamp[prev[r]]
         /\ list_empty(r) => \A m \in Nodes : owner[m] # r
<1>1. inited /\ r \in Linked /\ FreeList \in Linked /\ Nodes \subseteq Linked
  BY DEF IInv, RingsOK, InitedInv, Linked, Cells
<1>2. r \in Cells /\ r \notin Nodes /\ Linked \subseteq Cells
  BY CellAssumption DEF Cells, Linked
<1>3. /\ prev[r] \in Linked /\ next[prev[r]] = r
      /\ owner[prev[r]] = r
      /\ prev[r] \in Rings => owner[prev[r]] = prev[r]
      /\ prev[r] \notin Rings => prev[r] \in Nodes
      /\ owner[r] = r
  BY <1>1 DEF IInv, RingsOK, RingInv, RingLinks
<1>4. ASSUME ~list_empty(r)
      PROVE  /\ prev[r] \in Nodes
             /\ \A m \in Nodes : owner[m] = r => stamp[m] >= stamp[prev[r]]
  <2>1. prev[r] # r
    BY <1>3, <1>4 DEF list_empty
  <2>2. prev[r] \in Nodes
    BY <1>3, <2>1
  <2>3. ASSUME NEW m \in Nodes, owner[m] = r
        PROVE  stamp[m] >= stamp[prev[r]]
    <3>1. \/ prev[r] \in Nodes /\ stamp[m] >= stamp[prev[r]]
          \/ next[prev[r]] \in Nodes /\ stamp[m] <= stamp[next[prev[r]]]
      BY <1>1, <1>3, <2>3 DEF IInv, RingsOK, RingInv, RingGapless
    <3> QED BY <3>1, <1>2, <1>3
  <2> QED BY <2>2, <2>3
<1>5. ASSUME list_empty(r), NEW m \in Nodes, owner[m] = r
      PROVE  FALSE
  <2>1. \/ r \in Nodes /\ stamp[m] >= stamp[r]
        \/ next[r] \in Nodes /\ stamp[m] <= stamp[next[r]]
    BY <1>1, <1>3, <1>5 DEF IInv, RingsOK, RingInv, RingGapless
  <2> QED BY <2>1, <1>2, <1>5 DEF list_empty
<1> QED BY <1>1, <1>3, <1>4, <1>5

\* The links init_list builds, with a list l next to the pool.
LEMMA PoolRing ==
  ASSUME NEW l \in Lists,
         TypeOK, InitedInv, SentinelInv, ~inited,
         next' = [c \in Cells |-> IF c = l THEN l ELSE PoolNext(c)],
         prev' = [c \in Cells |-> IF c = l THEN l ELSE PoolPrev(c)],
         UNCHANGED history
  PROVE  /\ next' \in [Cells -> Cells \cup {NULL}]
         /\ prev' \in [Cells -> Cells \cup {NULL}]
         /\ Linked' = Nodes \cup {FreeList, l}
         /\ RingInv(next, prev, owner, stamp, Linked)'
         /\ StampInv'
<1> DEFINE S == Nodes \cup {FreeList, l}
<1>1. /\ l \in Cells /\ FreeList \in Cells /\ Nodes \subseteq Cells
      /\ l \in Rings /\ FreeList \in Rings
      /\ l # FreeList /\ l \notin Nodes /\ FreeList \notin Nodes
      /\ NULL \notin Cells
      /\ 0 \in Nodes /\ LIST_NUM - 1 \in Nodes
      /\ \A r \in Rings : r \notin Nodes
  BY CellAssumption, PoolAssumption DEF Cells, Rings, Nodes
<1>2. \A n \in Nodes : /\ n \in Int
                       /\ n # 0 => n - 1 \in Nodes
                       /\ n # LIST_NUM - 1 => n + 1 \in Nodes
  BY PoolAssumption DEF Nodes
<1>3. /\ \A c \in Cells : next[c] = NULL
      /\ \A n \in Nodes : owner[n] = FreeList /\ stamp[n] = n /\ n < clock
  BY PoolAssumption DEF InitedInv, Linked, Nodes
<1>4. /\ next'[l] = l /\ prev'[l] = l
      /\ next'[FreeList] = LIST_NUM - 1 /\ prev'[FreeList] = 0
      /\ next'[0] = FreeList /\ prev'[LIST_NUM - 1] = FreeList
      /\ \A n \in Nodes : n # 0 => next'[n] = n - 1
      /\ \A n \in Nodes : n # LIST_NUM - 1 => prev'[n] = n + 1
      /\ \A c \in Cells : c \notin S => next'[c] = NULL /\ prev'[c] = prev[c]
  BY <1>1, <1>3 DEF PoolNext, PoolPrev
<1>5. /\ owner' = owner /\ stamp' = stamp /\ clock' = clock
      /\ owner[l] = l /\ owner[FreeList] = FreeList
  BY <1>1 DEF history, SentinelInv
<1>6. Linked' = S
  <2>1. \A c \in Cells : c \in S => next'[c] # NULL
    BY <1>1, <1>2, <1>4
  <2> QED BY <2>1, <1>1, <1>4 DEF Linked
<1>7. RingLinks(next', prev', owner', S)
  <2> SUFFICES ASSUME NEW c \in S
               PROVE  /\ next'[c] \in S /\ prev'[c] \in S
                      /\ prev'[next'[c]] = c /\ next'[prev'[c]] = c
                      /\ owner'[next'[c]] = owner'[c]
                      /\ owner'[c] \in S
                      /\ c \in Rings => owner'[c] = c
                      /\ c \notin Rings => c \in Nodes
    BY DEF RingLinks
  <2>1. CASE c = l
    BY <2>1, <1>1, <1>4, <1>5
  <2>2. CASE c = FreeList
    BY <2>2, <1>1, <1>2, <1>3, <1>4, <1>5, PoolAssumption
  <2>3. CASE c \in Nodes
    <3>1. next'[c] \in S /\ prev'[c] \in S
      BY <2>3, <1>2, <1>4, ZenonT(60)
    <3>2. prev'[next'[c]] = c
      <4>1. CASE c = 0
        BY <4>1, <1>1, <1>4
      <4>2. CASE c # 0
        <5>1. next'[c] = c - 1 /\ c - 1 \in Nodes /\ c \in Int /\ c - 1 # LIST_NUM - 1
          BY <2>3, <4>2, <1>2, <1>4, PoolAssumption DEF Nodes
        <5> QED BY <5>1, <1>4
      <4> QED BY <4>1, <4>2
    <3>3. next'[prev'[c]] = c
      <4>1. CASE c = LIST_NUM - 1
        BY <4>1, <1>1, <1>4
      <4>2. CASE c # LIST_NUM - 1
        <5>1. prev'[c] = c + 1 /\ c + 1 \in Nodes /\ c \in Int /\ c + 1 # 0
          BY <2>3, <4>2, <1>2, <1>4, PoolAssumption DEF Nodes
        <5> QED BY <5>1, <1>4
      <4> QED BY <4>1, <4>2
    <3>4. owner'[next'[c]] = owner'[c] /\ owner'[c] = FreeList
      <4>1. CASE c = 0
        BY <4>1, <2>3, <1>1, <1>3, <1>4, <1>5
      <4>2. CASE c # 0
        <5>1. next'[c] = c - 1 /\ c - 1 \in Nodes
          BY <4>2, <2>3, <1>2, <1>4
        <5> QED BY <5>1, <2>3, <1>3, <1>5
      <4> QED BY <4>1, <4>2
    <3> QED BY <2>3, <3>1, <3>2, <3>3, <3>4, <1>1
  <2> QED BY <2>1, <2>2, <2>3
<1>8. RingOrder(next', stamp', S)
  <2> SUFFICES ASSUME NEW c \in Nodes, next'[c] \in Nodes
               PROVE  stamp'[next'[c]] < stamp'[c]
    BY DEF RingOrder
  <2>1. c \in Int /\ c # 0
    BY <1>1, <1>2, <1>4
  <2>3. next'[c] = c - 1
    BY <2>1, <1>4
  <2>2. stamp'[c] = c /\ stamp'[next'[c]] = c - 1
    BY <2>3, <1>3, <1>5
  <2> QED BY <2>1, <2>2
<1>9. RingGapless(next', owner', stamp', S)
  <2> SUFFICES ASSUME NEW c \in S, NEW n \in Nodes, owner'[n] = owner'[c]
               PROVE  \/ c \in Nodes /\ stamp'[n] >= stamp'[c]
                      \/ next'[c] \in Nodes /\ stamp'[n] <= stamp'[next'[c]]
    BY DEF RingGapless
  <2>1. owner'[c] = FreeList /\ c # l /\ stamp'[n] = n /\ n \in 0 .. LIST_NUM - 1
    BY <1>1, <1>3, <1>5 DEF Nodes
  <2>2. CASE c = FreeList
    <3>1. next'[c] \in Nodes /\ stamp'[next'[c]] = LIST_NUM - 1
      BY <2>2, <1>1, <1>3, <1>4, <1>5
    <3> QED BY <3>1, <2>1, PoolAssumption
  <2>3. CASE c \in Nodes
    <3>1. stamp'[c] = c /\ c \in 0 .. LIST_NUM - 1
      BY <2>3, <1>3, <1>5 DEF Nodes
    <3>2. CASE c = 0
      BY <2>1, <2>3, <3>1, <3>2, PoolAssumption
    <3>3. CASE c # 0
      <4>1. next'[c] = c - 1 /\ next'[c] \in Nodes /\ stamp'[next'[c]] = c - 1
        BY <2>3, <3>3, <1>2, <1>3, <1>4, <1>5
      <4> QED BY <4>1, <2>1, <2>3, <3>1, PoolAssumption
    <3> QED BY <3>2, <3>3
  <2> QED BY <2>1, <2>2, <2>3
<1>10. StampInv'
  BY <1>3, <1>5 DEF StampInv
<1>11. next' \in [Cells -> Cells \cup {NULL}]
  <2>1. \A c \in Cells : next'[c] \in Cells \cup {NULL}
    BY <1>1, <1>2, <1>4
  <2> QED BY <2>1
<1>12. prev' \in [Cells -> Cells \cup {NULL}]
  <2>1. ASSUME NEW c \in Cells, c \notin S
        PROVE  prev'[c] \in Cells \cup {NULL}
    <3>1. prev'[c] = prev[c]
      BY <2>1, <1>4
    <3> QED BY <3>1 DEF TypeOK
  <2>2. ASSUME NEW c \in S
        PROVE  prev'[c] \in Cells \cup {NULL}
    BY <1>1, <1>2, <1>4
  <2> QED BY <2>1, <2>2
<1> HIDE DEF S
<1>13. RingInv(next', prev', owner', stamp', S)
  BY <1>7, <1>8, <1>9 DEF RingInv
<1>14. RingInv(next, prev, owner, stamp, Linked)'
  BY <1>6, <1>13
<1> QED BY <1>6, <1>10, <1>11, <1>12, <1>14 DEF S

\* list_init on a list_t that is not linked yet: a ring of its own.
LEMMA NewRing ==
  ASSUME NEW l \in Lists,
         IInv, inited, next[l] = NULL,
         next' = [next EXCEPT ![l] = l],
         prev' = [prev EXCEPT ![l] = l],
         UNCHANGED history
  PROVE  /\ Linked' = Linked \cup {l}
         /\ RingInv(next, prev, owner, stamp, Linked)'
<1> DEFINE S == Linked
           T == Linked \cup {l}
<1>1. /\ l \in Cells /\ l \in Rings /\ l \notin Nodes /\ NULL \notin Cells
      /\ l \notin S /\ S \subseteq Cells
  BY CellAssumption DEF Cells, Rings, Linked
<1>2. /\ next \in [Cells -> Cells \cup {NULL}]
      /\ prev \in [Cells -> Cells \cup {NULL}]
      /\ owner[l] = l
      /\ owner' = owner /\ stamp' = stamp
  BY <1>1 DEF IInv, TypeOK, RingsOK, SentinelInv, history
<1>3. /\ next'[l] = l /\ prev'[l] = l
      /\ \A c \in S : next'[c] = next[c] /\ prev'[c] = prev[c]
      /\ \A c \in Cells : c # l => next'[c] = next[c]
  BY <1>1, <1>2
<1>4. Linked' = T
  BY <1>1, <1>3 DEF Linked
<1>5. \A c \in S : /\ next[c] \in S /\ prev[c] \in S
                   /\ prev[next[c]] = c /\ next[prev[c]] = c
                   /\ owner[next[c]] = owner[c]
                   /\ owner[c] \in S
                   /\ c \in Rings => owner[c] = c
                   /\ c \notin Rings => c \in Nodes
  BY DEF IInv, RingsOK, RingInv, RingLinks
<1>6. /\ RingOrder(next, stamp, S)
      /\ RingGapless(next, owner, stamp, S)
  BY DEF IInv, RingsOK, RingInv
<1> HIDE DEF S
<1>7. RingLinks(next', prev', owner', T)
  <2> SUFFICES ASSUME NEW c \in T
               PROVE  /\ next'[c] \in T /\ prev'[c] \in T
                      /\ prev'[next'[c]] = c /\ next'[prev'[c]] = c
                      /\ owner'[next'[c]] = owner'[c]
                      /\ owner'[c] \in T
                      /\ c \in Rings => owner'[c] = c
                      /\ c \notin Rings => c \in Nodes
    BY DEF RingLinks
  <2>1. CASE c = l
    BY <2>1, <1>1, <1>2, <1>3
  <2>2. CASE c \in S
    BY <2>2, <1>2, <1>3, <1>5 DEF S
  <2> QED BY <2>1, <2>2 DEF S
<1>8. RingOrder(next', stamp', T)
  BY <1>1, <1>2, <1>3, <1>6 DEF RingOrder, S
<1>9. RingGapless(next', owner', stamp', T)
  <2> SUFFICES ASSUME NEW c \in T, NEW n \in T, n \in Nodes, owner[n] = owner[c]
               PROVE  \/ c \in Nodes /\ stamp[n] >= stamp[c]
                      \/ next'[c] \in Nodes /\ stamp[n] <= stamp[next'[c]]
    BY <1>2 DEF RingGapless
  <2>1. n \in S /\ owner[n] \in S
    BY <1>1, <1>5 DEF S
  <2>2. c # l
    BY <2>1, <1>1, <1>2
  <2>3. c \in S /\ next'[c] = next[c]
    BY <2>2, <1>3 DEF S
  <2> QED BY <2>1, <2>3, <1>6 DEF RingGapless
<1>10. RingInv(next', prev', owner', stamp', T)
  BY <1>7, <1>8, <1>9 DEF RingInv
<1> QED BY <1>4, <1>10

\* Every call of the library keeps the invariant.
LEMMA StepKeepsIInv == IInv /\ [Next]_vars => IInv'
<1> SUFFICES ASSUME IInv, [Next]_vars PROVE IInv'
  OBVIOUS
<1> USE DEF Rings
<1>0. FreeList \in Rings /\ Lists \subseteq Rings /\ Rings \subseteq Cells /\ Nodes \subseteq Cells
  BY DEF Cells
<1>1. ASSUME NEW l \in Lists, list_init(l) PROVE IInv'
  <2>1. /\ l \in Rings /\ l \in Cells /\ UNCHANGED <<ptr, ret, aborted, history>>
        /\ inited' = TRUE
    BY <1>0, <1>1 DEF list_init
  <2>2. CASE ~inited
    <3>1. /\ next' = [c \in Cells |-> IF c = l THEN l ELSE PoolNext(c)]
          /\ prev' = [c \in Cells |-> IF c = l THEN l ELSE PoolPrev(c)]
      BY <1>1, <2>2 DEF list_init
    <3>2. TypeOK /\ InitedInv /\ SentinelInv
      BY DEF IInv, RingsOK
    <3>3. /\ next' \in [Cells -> Cells \cup {NULL}]
          /\ prev' \in [Cells -> Cells \cup {NULL}]
          /\ Linked' = Nodes \cup {FreeList, l}
          /\ RingInv(next, prev, owner, stamp, Linked)'
          /\ StampInv'
      BY <2>1, <2>2, <3>1, <3>2, PoolRing
    <3>4. TypeOK'
      BY <2>1, <3>2, <3>3 DEF TypeOK, history
    <3>5. InitedInv' /\ SentinelInv'
      BY <2>1, <3>2, <3>3 DEF InitedInv, SentinelInv, history
    <3> QED BY <3>3, <3>4, <3>5 DEF IInv, RingsOK
  <2>3. CASE inited
    <3>1. /\ next' = [next EXCEPT ![l] = l]
          /\ prev' = [prev EXCEPT ![l] = l]
      BY <1>1, <2>3 DEF list_init
    <3>2. TypeOK /\ InitedInv /\ SentinelInv /\ StampInv
      BY DEF IInv, RingsOK
    <3>3. TypeOK'
      <4>1. /\ next' \in [Cells -> Cells \cup {NULL}]
            /\ prev' \in [Cells -> Cells \cup {NULL}]
        BY <2>1, <3>1, <3>2 DEF TypeOK
      <4> QED BY <4>1, <2>1, <3>2 DEF TypeOK, history
    <3>4. Linked \subseteq Linked' /\ RingInv(next, prev, owner, stamp, Linked)'
      <4>1. CASE next[l] = NULL
        BY <4>1, <2>1, <2>3, <3>1, NewRing
      <4>2. CASE next[l] = l
        <5>1. prev[l] = l
          BY <4>2, <2>1, CellAssumption DEF IInv, RingsOK, RingInv, RingLinks, Linked
        <5>2. next' = next /\ prev' = prev
          BY <4>2, <5>1, <3>1, <3>2 DEF TypeOK
        <5> QED BY <5>2, <2>1 DEF IInv, RingsOK, Linked, history
      <4> QED BY <4>1, <4>2, <1>1 DEF list_init
    <3>5. StampInv' /\ SentinelInv' /\ InitedInv'
      BY <2>1, <2>3, <3>2, <3>4 DEF StampInv, SentinelInv, InitedInv, history
    <3> QED BY <3>3, <3>4, <3>5 DEF IInv, RingsOK
  <2> QED BY <2>2, <2>3
<1>2. ASSUME NEW r \in Rings, NEW p \in Nodes, r \in Linked, inited, Move(r, p),
             ptr' \in [Nodes -> Vals \cup {NULL}],
             ret' \in Nodes \cup Vals \cup {NULL},
             UNCHANGED <<inited, aborted>>
      PROVE  IInv'
  <2>1. /\ next' \in [Cells -> Cells \cup {NULL}]
        /\ prev' \in [Cells -> Cells \cup {NULL}]
        /\ owner' \in [Cells -> Rings]
        /\ stamp' \in [Nodes -> Nat]
        /\ clock' \in Nat
        /\ Linked' = Linked
        /\ RingInv(next, prev, owner, stamp, Linked)'
        /\ StampInv'
        /\ SentinelInv'
    BY <1>2, MoveRing
  <2>2. TypeOK'
    BY <1>2, <2>1 DEF TypeOK, IInv
  <2>3. InitedInv'
    BY <1>2, <2>1 DEF InitedInv, IInv, RingsOK
  <2> QED BY <2>1, <2>2, <2>3 DEF IInv, RingsOK
<1>3. ASSUME NEW l \in Lists, NEW v \in Vals, list_enqueue(l, v) PROVE IInv'
  <2>1. CASE list_empty(FreeList)
    <3>1. aborted' = TRUE /\ UNCHANGED <<links, ptr, inited, ret, history>>
      BY <1>3, <2>1 DEF list_enqueue
    <3>2. TypeOK'
      BY <3>1 DEF IInv, TypeOK, links, history
    <3>3. RingsOK'
      BY <3>1 DEF IInv, RingsOK, Linked, StampInv, InitedInv, SentinelInv, links, history
    <3> QED BY <3>2, <3>3 DEF IInv
  <2>2. CASE ~list_empty(FreeList)
    <3> DEFINE p == prev[FreeList]
    <3>1. inited /\ l \in Linked /\ FreeList \in Linked
      BY <1>0, <1>3, LinkedFacts DEF list_enqueue
    <3>2. p \in Nodes
      BY <1>0, <2>2, <3>1, LinkedFacts DEF Linked
    <3>3. Move(l, p) /\ ptr' = [ptr EXCEPT ![p] = v] /\ ret' = p /\ UNCHANGED <<inited, aborted>>
      BY <1>3, <2>2 DEF list_enqueue, Move
    <3>4. ptr' \in [Nodes -> Vals \cup {NULL}] /\ ret' \in Nodes \cup Vals \cup {NULL}
      BY <3>2, <3>3 DEF IInv, TypeOK
    <3> HIDE DEF p
    <3> QED BY <3>1, <3>2, <3>3, <3>4, <1>0, <1>2
  <2> QED BY <2>1, <2>2
<1>4. ASSUME NEW l \in Lists, list_dequeue(l) PROVE IInv'
  <2>1. CASE list_empty(l)
    <3>1. ret' = NULL /\ UNCHANGED <<links, ptr, inited, aborted, history>>
      BY <1>4, <2>1 DEF list_dequeue
    <3>2. TypeOK'
      BY <3>1 DEF IInv, TypeOK, links, history
    <3>3. RingsOK'
      BY <3>1 DEF IInv, RingsOK, Linked, StampInv, InitedInv, SentinelInv, links, history
    <3> QED BY <3>2, <3>3 DEF IInv
  <2>2. CASE ~list_empty(l)
    <3> DEFINE p == prev[l]
    <3>1. inited /\ FreeList \in Linked /\ p \in Nodes
      BY <1>0, <1>4, <2>2, LinkedFacts DEF list_dequeue
    <3>2. Move(FreeList, p) /\ ret' = ptr[p] /\ UNCHANGED <<ptr, inited, aborted>>
      BY <1>4, <2>2 DEF list_dequeue, Move
    <3>3. ptr' \in [Nodes -> Vals \cup {NULL}] /\ ret' \in Nodes \cup Vals \cup {NULL}
      BY <3>1, <3>2 DEF IInv, TypeOK
    <3> HIDE DEF p
    <3> QED BY <3>1, <3>2, <3>3, <1>0, <1>2
  <2> QED BY <2>1, <2>2
<1>5. ASSUME NEW l \in Lists, NEW entry \in Nodes, list_remove(l, entry) PROVE IInv'
  <2>1. inited /\ FreeList \in Linked
    BY <1>0, <1>5, LinkedFacts DEF list_remove
  <2>2. Move(FreeList, entry) /\ UNCHANGED <<ptr, inited, ret, aborted>>
    BY <1>5 DEF list_remove, Move
  <2>3. ptr' \in [Nodes -> Vals \cup {NULL}] /\ ret' \in Nodes \cup Vals \cup {NULL}
    BY <2>2 DEF IInv, TypeOK
  <2> QED BY <2>1, <2>2, <2>3, <1>0, <1>2
<1>6. CASE UNCHANGED vars
  <2>1. TypeOK'
    BY <1>6 DEF IInv, TypeOK, vars
  <2>2. RingsOK'
    BY <1>6 DEF IInv, RingsOK, Linked, StampInv, InitedInv, SentinelInv, vars
  <2> QED BY <2>1, <2>2 DEF IInv
<1> QED BY <1>1, <1>3, <1>4, <1>5, <1>6 DEF Next

LEMMA InitIInv == Init => IInv
<1> SUFFICES ASSUME Init PROVE IInv
  OBVIOUS
<1>1. Nodes \subseteq Nat /\ FreeList \in Rings /\ LIST_NUM \in Nat
  BY PoolAssumption DEF Nodes, Rings
<1>2. owner \in [Cells -> Rings] /\ (\A r \in Rings : owner[r] = r)
      /\ (\A n \in Nodes : owner[n] = FreeList)
  <2>1. \A c \in Cells : c \notin Nodes => c \in Rings
    BY DEF Cells
  <2>2. \A r \in Rings : r \notin Nodes /\ r \in Cells
    BY CellAssumption DEF Cells
  <2> QED BY <1>1, <2>1, <2>2 DEF Init, Cells
<1>3. TypeOK
  BY <1>1, <1>2 DEF Init, TypeOK
<1>4. Linked = {}
  BY DEF Init, Linked
<1>5. RingInv(next, prev, owner, stamp, Linked)
  BY <1>4 DEF RingInv, RingLinks, RingOrder, RingGapless
<1>6. StampInv
  BY PoolAssumption DEF Init, StampInv, Nodes
<1>7. InitedInv /\ SentinelInv
  BY <1>2, <1>4 DEF Init, InitedInv, SentinelInv
<1> QED BY <1>3, <1>5, <1>6, <1>7 DEF IInv, RingsOK

\* The types of list.c's fields hold in every state, and its cells always form
\* one complete, time-ordered ring per list, for every pool size and every mix
\* of calls.
THEOREM RingsAlwaysOK == Spec => [](TypeOK /\ RingsOK)
<1>1. Init => IInv
  BY InitIInv
<1>2. IInv /\ [Next]_vars => IInv'
  BY StepKeepsIInv
<1>3. IInv => TypeOK /\ RingsOK
  BY DEF IInv
<1> QED BY <1>1, <1>2, <1>3, PTL DEF Spec

\* The types of list.c's fields: no call returns a sentinel as a queue entry.
THEOREM FieldsAlwaysTyped == Spec => []TypeOK
BY RingsAlwaysOK, PTL

-----------------------------------------------------------------------------
(* What a walk along next meets.                                           *)

LEMMA Smallest ==
  ASSUME NEW S \in SUBSET Nat, S # {}
  PROVE  \E x \in S : \A y \in S : x <= y
<1>1. \E x \in S : \A y \in S : ~ (<<y, x>> \in OpToRel(<, Nat))
  BY WFMin, NatLessThanWellFounded
<1>2. \A x, y \in Nat : <<y, x>> \in OpToRel(<, Nat) <=> y < x
  BY Zenon DEF OpToRel
<1>3. \E x \in S : \A y \in S : ~(y < x)
  BY <1>1, <1>2, Zenon
<1> QED BY <1>3

\* A walk of n steps from r.
IsWalk(f, r, n) == f = [k \in 0 .. n |-> IF k = 0 THEN r ELSE next[f[k - 1]]]

LEMMA WalkExists == ASSUME NEW r, NEW n \in Nat PROVE \E f : IsWalk(f, r, n)
<1> DEFINE Bad == {i \in Nat : ~\E f : IsWalk(f, r, i)}
<1>1. ASSUME ~\E f : IsWalk(f, r, n) PROVE FALSE
  <2>1. Bad \in SUBSET Nat /\ Bad # {}
    BY <1>1
  <2>2. PICK x \in Bad : \A y \in Bad : x <= y
    <3> HIDE DEF Bad
    <3> QED BY <2>1, Smallest
  <2>3. x \in Nat /\ ~\E f : IsWalk(f, r, x)
    BY <2>2
  <2>4. CASE x = 0
    <3> DEFINE f == [k \in 0 .. 0 |-> r]
    <3>1. \A k \in 0 .. 0 : k = 0
      OBVIOUS
    <3>2. f = [k \in 0 .. 0 |-> IF k = 0 THEN r ELSE next[f[k - 1]]]
      BY <3>1
    <3> QED BY <2>3, <2>4, <3>2 DEF IsWalk
  <2>5. CASE x # 0
    <3>1. x - 1 \in Nat /\ x - 1 \notin Bad
      BY <2>2, <2>3, <2>5
    <3>2. PICK f : IsWalk(f, r, x - 1)
      BY <3>1
    <3>3. f = [k \in 0 .. (x - 1) |-> IF k = 0 THEN r ELSE next[f[k - 1]]]
      BY <3>2 DEF IsWalk
    <3> DEFINE g == [k \in 0 .. x |-> IF k = x THEN next[f[x - 1]] ELSE f[k]]
    <3>4. ASSUME NEW k \in 0 .. x PROVE g[k] = IF k = 0 THEN r ELSE next[g[k - 1]]
      <4>1. CASE k = x
        <5>1. g[k] = next[f[x - 1]] /\ x - 1 \in 0 .. x /\ x - 1 # x /\ k # 0
          BY <2>3, <2>5, <4>1
        <5>2. g[k - 1] = f[x - 1]
          BY <4>1, <5>1
        <5> QED BY <5>1, <5>2
      <4>2. CASE k # x
        <5>1. k \in 0 .. (x - 1) /\ g[k] = f[k]
          BY <2>3, <4>2
        <5>2. f[k] = IF k = 0 THEN r ELSE next[f[k - 1]]
          BY <3>3, <5>1
        <5>3. k # 0 => k - 1 \in 0 .. x /\ k - 1 # x
          BY <2>3, <4>2
        <5>4. k # 0 => g[k - 1] = f[k - 1]
          BY <5>3
        <5> QED BY <5>1, <5>2, <5>4
      <4> QED BY <4>1, <4>2
    <3>5. g = [k \in 0 .. x |-> g[k]]
      OBVIOUS
    <3> HIDE DEF g
    <3>6. g = [k \in 0 .. x |-> IF k = 0 THEN r ELSE next[g[k - 1]]]
      BY <3>4, <3>5
    <3> QED BY <2>3, <3>6 DEF IsWalk
  <2> QED BY <2>4, <2>5
<1> QED BY <1>1

LEMMA WalkIs ==
  ASSUME NEW r
  PROVE  Walk(r)[0] = r /\ \A k \in 0 .. LIST_NUM : Walk(r)[k + 1] = next[Walk(r)[k]]
<1>1. LIST_NUM \in Nat /\ LIST_NUM + 1 \in Nat
  BY PoolAssumption
<1>2. \E f : IsWalk(f, r, LIST_NUM + 1)
  BY <1>1, WalkExists
<1>3. IsWalk(Walk(r), r, LIST_NUM + 1)
  BY <1>2, Zenon DEF Walk, IsWalk
<1>4. Walk(r) = [k \in 0 .. (LIST_NUM + 1) |-> IF k = 0 THEN r ELSE next[Walk(r)[k - 1]]]
  BY <1>3 DEF IsWalk
<1> DEFINE W == Walk(r)
<1> HIDE DEF W
<1>5. W = [k \in 0 .. (LIST_NUM + 1) |-> IF k = 0 THEN r ELSE next[W[k - 1]]]
  BY <1>4 DEF W
<1>6. W[0] = r
  BY <1>1, <1>5
<1>7. ASSUME NEW k \in 0 .. LIST_NUM PROVE W[k + 1] = next[W[k]]
  <2>1. k + 1 \in 0 .. (LIST_NUM + 1) /\ k + 1 # 0 /\ (k + 1) - 1 = k
    BY <1>1
  <2>2. W[k + 1] = next[W[(k + 1) - 1]]
    BY <1>5, <2>1
  <2> QED BY <2>1, <2>2
<1> QED BY <1>6, <1>7 DEF W

\* The cells of the ring of r.
Members(r) == {c \in Linked : owner[c] = r}

LEMMA MemberFacts ==
  ASSUME IInv, NEW r \in Rings \cap Linked
  PROVE  /\ r \in Members(r) /\ r \notin Nodes
         /\ \A c \in Members(r) : next[c] \in Members(r) /\ (c # r => c \in Nodes)
         /\ \A n \in Nodes : owner[n] = r => n \in Members(r)
<1>1. RingLinks(next, prev, owner, Linked) /\ SentinelInv /\ InitedInv
  BY DEF IInv, RingsOK, RingInv
<1>2. r \in Members(r) /\ r \notin Nodes
  BY <1>1, CellAssumption DEF Members, SentinelInv
<1>3. ASSUME NEW c \in Members(r) PROVE next[c] \in Members(r) /\ (c # r => c \in Nodes)
  BY <1>1 DEF Members, RingLinks
<1>4. inited
  BY <1>1 DEF InitedInv
<1>5. Nodes \subseteq Linked
  BY <1>1, <1>4 DEF InitedInv
<1> QED BY <1>2, <1>3, <1>5 DEF Members

LEMMA WalkStays ==
  ASSUME IInv, NEW r \in Rings \cap Linked, NEW j \in 0 .. (LIST_NUM + 1)
  PROVE  Walk(r)[j] \in Members(r)
<1> DEFINE W == Walk(r)
           Bad == {k \in 0 .. (LIST_NUM + 1) : W[k] \notin Members(r)}
<1>0. LIST_NUM \in Nat
  BY PoolAssumption
<1>1. W[0] = r /\ \A k \in 0 .. LIST_NUM : W[k + 1] = next[W[k]]
  BY WalkIs
<1> HIDE DEF W
<1>2. ASSUME Bad # {} PROVE FALSE
  <2>1. PICK x \in Bad : \A y \in Bad : x <= y
    <3>1. Bad \in SUBSET Nat
      BY <1>0
    <3> HIDE DEF Bad
    <3> QED BY <1>2, <3>1, Smallest
  <2>2. x \in 0 .. (LIST_NUM + 1) /\ W[x] \notin Members(r) /\ x # 0
    BY <1>1, <2>1, MemberFacts
  <2>3. x - 1 \in 0 .. LIST_NUM /\ x - 1 \in 0 .. (LIST_NUM + 1) /\ (x - 1) + 1 = x /\ ~(x <= x - 1)
    BY <1>0, <2>2
  <2>4. W[x - 1] \in Members(r)
    BY <2>1, <2>3
  <2>5. W[x] = next[W[x - 1]]
    BY <1>1, <2>3
  <2> QED BY <2>2, <2>4, <2>5, MemberFacts
<1> QED BY <1>2 DEF W

\* A walk that has not come back meets older and older cells.
LEMMA WalkDescends ==
  ASSUME IInv, NEW r \in Rings \cap Linked, NEW j \in 1 .. (LIST_NUM + 1),
         \A k \in 1 .. j : Walk(r)[k] # r, NEW i \in 1 .. j, i # j
  PROVE  stamp[Walk(r)[j]] < stamp[Walk(r)[i]]
<1> DEFINE W == Walk(r)
           Bad == {k \in 1 .. j : i < k /\ ~(stamp[W[k]] < stamp[W[i]])}
<1>0. LIST_NUM \in Nat /\ j \in Nat /\ i \in Nat /\ i < j /\ i > 0
  BY PoolAssumption
<1>1. /\ \A k \in 0 .. LIST_NUM : W[k + 1] = next[W[k]]
      /\ \A k \in 1 .. j : W[k] # r
  BY WalkIs
<1>2. \A k \in 1 .. j : W[k] \in Nodes /\ W[k] \in Linked /\ stamp[W[k]] \in Nat
  <2>1. ASSUME NEW k \in 1 .. j PROVE W[k] \in Members(r)
    <3>1. k \in 0 .. (LIST_NUM + 1)
      BY <1>0
    <3> QED BY <3>1, WalkStays
  <2>2. stamp \in [Nodes -> Nat]
    BY DEF IInv, TypeOK
  <2> HIDE DEF W
  <2>3. ASSUME NEW k \in 1 .. j PROVE W[k] \in Nodes
    BY <1>1, <2>1, MemberFacts
  <2> QED BY <2>1, <2>2, <2>3 DEF Members
<1> HIDE DEF W
<1>3. ASSUME NEW k \in 1 .. j, k + 1 \in 1 .. j PROVE stamp[W[k + 1]] < stamp[W[k]]
  <2>1. W[k + 1] = next[W[k]]
    <3>1. k \in 0 .. LIST_NUM
      BY <1>0, <1>3
    <3> QED BY <1>1, <3>1
  <2>2. RingOrder(next, stamp, Linked)
    BY DEF IInv, RingsOK, RingInv
  <2>3. W[k] \in Nodes /\ W[k] \in Linked /\ next[W[k]] \in Nodes
    BY <1>2, <1>3, <2>1
  <2> QED BY <2>1, <2>2, <2>3 DEF RingOrder
<1>4. ASSUME Bad # {} PROVE FALSE
  <2>1. PICK x \in Bad : \A y \in Bad : x <= y
    <3>1. Bad \in SUBSET Nat
      BY <1>0
    <3> HIDE DEF Bad
    <3> QED BY <1>4, <3>1, Smallest
  <2>2. x \in 1 .. j /\ i < x /\ ~(stamp[W[x]] < stamp[W[i]])
    BY <2>1
  <2>3. x - 1 \in 1 .. j /\ (x - 1) + 1 = x /\ ~(x <= x - 1) /\ x \in Nat
    BY <1>0, <2>2
  <2>4. stamp[W[x]] < stamp[W[x - 1]]
    BY <1>3, <2>2, <2>3
  <2>5. CASE x - 1 = i
    BY <2>2, <2>4, <2>5
  <2>6. CASE x - 1 # i
    <3>1. i < x - 1 /\ x - 1 \notin Bad
      BY <1>0, <2>1, <2>2, <2>3, <2>6
    <3>2. stamp[W[x - 1]] < stamp[W[i]]
      BY <2>3, <3>1
    <3>3. stamp[W[x]] \in Nat /\ stamp[W[x - 1]] \in Nat /\ stamp[W[i]] \in Nat
      BY <1>2, <2>2, <2>3
    <3> QED BY <2>2, <2>4, <3>2, <3>3
  <2> QED BY <2>5, <2>6
<1>5. j \in 1 .. j
  BY <1>0
<1>6. stamp[W[j]] < stamp[W[i]]
  BY <1>0, <1>4, <1>5
<1> QED BY <1>6 DEF W

\* There are not enough cells for a walk that does not come back.
LEMMA WalkReturns ==
  ASSUME IInv, NEW r \in Rings \cap Linked
  PROVE  \E k \in 1 .. (LIST_NUM + 1) : Walk(r)[k] = r
<1> DEFINE W == Walk(r)
           N == LIST_NUM + 1
<1>0. LIST_NUM \in Nat /\ LIST_NUM > 0 /\ N \in Nat /\ N > 0
  BY PoolAssumption
<1>1. SUFFICES ASSUME \A k \in 1 .. N : W[k] # r PROVE FALSE
  OBVIOUS
<1>2. \A k \in 1 .. N : W[k] \in Nodes
  <2>1. ASSUME NEW k \in 1 .. N PROVE W[k] \in Members(r)
    <3>1. k \in 0 .. (LIST_NUM + 1)
      BY <1>0
    <3> QED BY <3>1, WalkStays
  <2> HIDE DEF W
  <2> QED BY <1>1, <2>1, MemberFacts
<1>3. ASSUME NEW i \in 1 .. N, NEW j \in 1 .. N, i < j PROVE W[i] # W[j]
  <2>1. i \in 1 .. j /\ i # j /\ \A k \in 1 .. j : k \in 1 .. N
    BY <1>0, <1>3
  <2>2. \A k \in 1 .. j : W[k] # r
    BY <1>1, <2>1
  <2>3. stamp[W[j]] < stamp[W[i]]
    BY <2>1, <2>2, WalkDescends
  <2>4. stamp \in [Nodes -> Nat]
    BY DEF IInv, TypeOK
  <2> HIDE DEF W, N
  <2>5. stamp[W[i]] \in Nat
    BY <1>2, <2>4
  <2> QED BY <2>3, <2>5
<1>4. IsFiniteSet(1 .. N) /\ Cardinality(1 .. N) = N
  <2>1. 1 \in Int /\ N \in Int /\ ~(1 > N) /\ N - 1 + 1 = N
    BY <1>0
  <2> HIDE DEF N
  <2> QED BY <2>1, FS_Interval
<1>5. IsFiniteSet(Nodes) /\ Cardinality(Nodes) = LIST_NUM
  <2>1. 0 \in Int /\ LIST_NUM - 1 \in Int /\ ~(0 > LIST_NUM - 1) /\ (LIST_NUM - 1) - 0 + 1 = LIST_NUM
    BY <1>0
  <2> QED BY <2>1, FS_Interval DEF Nodes
<1>6. Cardinality(Nodes) < Cardinality(1 .. N)
  BY <1>0, <1>4, <1>5
<1> DEFINE f == [k \in 1 .. N |-> W[k]]
<1> HIDE DEF W, N
<1>7. f \in [1 .. N -> Nodes]
  BY <1>2
<1>8. PICK x \in 1 .. N, y \in 1 .. N : x # y /\ f[x] = f[y]
  <2> HIDE DEF f
  <2> QED BY <1>4, <1>5, <1>6, <1>7, FS_PigeonHole
<1>9. W[x] = W[y] /\ (x < y \/ y < x)
  BY <1>0, <1>8
<1> QED BY <1>3, <1>9

\* Whoever walks a list of list.c along next meets every queued entry and is
\* back at the sentinel within LIST_NUM + 1 steps: no cell is leaked, lost or in
\* two lists, for every pool size and every mix of calls.
THEOREM WalksAlwaysComplete == Spec => []RingsComplete
<1>1. ASSUME IInv PROVE RingsComplete
  <2> SUFFICES ASSUME NEW r \in Rings \cap Linked
               PROVE  \E len \in 0 .. LIST_NUM :
                        /\ {Walk(r)[k] : k \in 1 .. len} = {n \in Nodes : owner[n] = r}
                        /\ Walk(r)[len + 1] = r
                        /\ \A k \in 1 .. len : Walk(r)[k] # r
    BY DEF RingsComplete
  <2> DEFINE W == Walk(r)
             Home == {k \in 1 .. (LIST_NUM + 1) : W[k] = r}
  <2>0. LIST_NUM \in Nat
    BY PoolAssumption
  <2>1. PICK x \in Home : \A y \in Home : x <= y
    <3>1. Home \in SUBSET Nat /\ Home # {}
      BY <1>1, <2>0, WalkReturns
    <3> HIDE DEF Home
    <3> QED BY <3>1, Smallest
  <2> DEFINE len == x - 1
  <2>2. /\ len \in 0 .. LIST_NUM /\ len \in Nat /\ W[len + 1] = r
        /\ \A k \in 1 .. len : W[k] # r
    <3>1. x \in 1 .. (LIST_NUM + 1) /\ W[x] = r /\ len + 1 = x
      BY <2>0, <2>1
    <3>2. ASSUME NEW k \in 1 .. len, W[k] = r PROVE FALSE
      <4>1. k \in 1 .. (LIST_NUM + 1) /\ ~(x <= k)
        BY <2>0, <3>1
      <4> QED BY <2>1, <3>2, <4>1
    <3> QED BY <2>0, <3>1, <3>2
  <2>3. W[0] = r /\ \A k \in 0 .. len : W[k + 1] = next[W[k]] /\ W[k] \in Members(r)
    <3>1. \A k \in 0 .. len : k \in 0 .. LIST_NUM /\ k \in 0 .. (LIST_NUM + 1)
      BY <2>0, <2>2
    <3> QED BY <1>1, <3>1, WalkIs, WalkStays
  <2> HIDE DEF W, len
  <2>4. \A k \in 1 .. len : W[k] \in Nodes /\ owner[W[k]] = r /\ k \in 0 .. len
    <3>1. ASSUME NEW k \in 1 .. len PROVE k \in 0 .. len
      BY <2>2
    <3> QED BY <1>1, <2>2, <2>3, <3>1, MemberFacts DEF Members
  <2>5. ASSUME NEW m \in Nodes, owner[m] = r PROVE \E k \in 1 .. len : W[k] = m
    <3>0. /\ RingGapless(next, owner, stamp, Linked) /\ stamp \in [Nodes -> Nat]
          /\ \A a, b \in Nodes : a # b => stamp[a] # stamp[b]
      BY <1>1 DEF IInv, RingsOK, RingInv, StampInv, TypeOK
    <3>1. ASSUME NEW k \in 0 .. len
          PROVE  \/ W[k] \in Nodes /\ stamp[m] >= stamp[W[k]]
                 \/ W[k + 1] \in Nodes /\ stamp[m] <= stamp[W[k + 1]]
      <4>1. W[k] \in Members(r) /\ m \in Members(r) /\ W[k + 1] = next[W[k]]
        BY <1>1, <2>3, <2>5, MemberFacts
      <4> QED BY <2>5, <3>0, <4>1 DEF RingGapless, Members
    <3> DEFINE Older == {k \in 1 .. len : stamp[m] >= stamp[W[k]]}
    <3>2. len # 0 /\ len \in Older
      <4>1. len \in 0 .. len /\ 0 \in 0 .. len /\ r \notin Nodes
        BY <1>1, <2>2, MemberFacts
      <4>2. W[len] \in Nodes /\ stamp[m] >= stamp[W[len]]
        BY <2>2, <3>1, <4>1
      <4>3. len # 0
        BY <2>3, <4>1, <4>2
      <4> QED BY <2>2, <4>2, <4>3
    <3>3. PICK k \in Older : \A y \in Older : k <= y
      <4>1. Older \in SUBSET Nat /\ Older # {}
        BY <2>2, <3>2
      <4> HIDE DEF Older
      <4> QED BY <4>1, Smallest
    <3>4. k \in 1 .. len /\ stamp[m] >= stamp[W[k]] /\ W[k] \in Nodes
      BY <2>4, <3>3
    <3>5. k - 1 \in 0 .. len /\ (k - 1) + 1 = k /\ ~(k <= k - 1) /\ (k - 1 = 0 \/ k - 1 \in 1 .. len)
      BY <2>2, <3>4
    <3>6. ~(W[k - 1] \in Nodes /\ stamp[m] >= stamp[W[k - 1]])
      <4>1. CASE k - 1 = 0
        BY <1>1, <2>3, <4>1, MemberFacts
      <4>2. CASE k - 1 \in 1 .. len
        BY <3>3, <3>5, <4>2
      <4> QED BY <3>5, <4>1, <4>2
    <3>7. stamp[m] <= stamp[W[k]]
      <4>1. \/ W[k - 1] \in Nodes /\ stamp[m] >= stamp[W[k - 1]]
            \/ W[(k - 1) + 1] \in Nodes /\ stamp[m] <= stamp[W[(k - 1) + 1]]
        BY <3>1, <3>5
      <4> QED BY <3>5, <3>6, <4>1
    <3>8. stamp[m] = stamp[W[k]]
      <4>1. stamp[m] \in Nat /\ stamp[W[k]] \in Nat
        BY <3>0, <3>4
      <4> QED BY <3>4, <3>7, <4>1
    <3> QED BY <3>0, <3>4, <3>8
  <2>6. {W[k] : k \in 1 .. len} = {n \in Nodes : owner[n] = r}
    BY <2>4, <2>5
  <2> QED BY <2>2, <2>6 DEF W
<1> QED BY <1>1, InitIInv, StepKeepsIInv, PTL DEF Spec

-----------------------------------------------------------------------------
(* list.c implements the abstract queues.                                  *)

EntryOf(n) == [handle |-> n, time |-> stamp[n], ptr |-> ptr[n]]

\* Whose queue changes when p moves to the ring of r, and how.
LEMMA MoveQueued ==
  ASSUME IInv, inited,
         NEW p \in Nodes,
         NEW r \in Rings, r \in Linked,
         Move(r, p),
         ptr' \in [Nodes -> Vals \cup {NULL}],
         \A n \in Nodes : n # p => ptr'[n] = ptr[n]
  PROVE  /\ \A l \in Lists : l # r /\ l # owner[p] => Queued(l)' = Queued(l)
         /\ \A l \in Lists : l # r /\ l = owner[p] => Queued(l)' = Queued(l) \ {EntryOf(p)}
         /\ \A l \in Lists : l = r /\ l # owner[p] =>
              Queued(l)' = Queued(l) \cup {[handle |-> p, time |-> clock, ptr |-> ptr'[p]]}
         /\ \A n \in Nodes : owner'[n] = IF n = p THEN r ELSE owner[n]
         /\ clock' \in Nat /\ clock \in Nat /\ clock' >= clock /\ clock' = clock + 1
<1>1. /\ owner \in [Cells -> Rings] /\ stamp \in [Nodes -> Nat] /\ clock \in Nat
      /\ Nodes \subseteq Cells
  BY DEF IInv, TypeOK, Cells
<1>2. /\ clock' = clock + 1
      /\ \A n \in Nodes : owner'[n] = IF n = p THEN r ELSE owner[n]
      /\ \A n \in Nodes : stamp'[n] = IF n = p THEN clock ELSE stamp[n]
  BY <1>1 DEF Move, Record
<1>3. ASSUME NEW l \in Lists, l # r, l # owner[p] PROVE Queued(l)' = Queued(l)
  BY <1>2, <1>3 DEF Queued
<1>4. ASSUME NEW l \in Lists, l # r, l = owner[p]
      PROVE  Queued(l)' = Queued(l) \ {EntryOf(p)}
  BY <1>2, <1>4 DEF Queued, EntryOf
<1>5. ASSUME NEW l \in Lists, l = r, l # owner[p]
      PROVE  Queued(l)' = Queued(l) \cup {[handle |-> p, time |-> clock, ptr |-> ptr'[p]]}
  BY <1>2, <1>5 DEF Queued
<1> QED BY <1>1, <1>2, <1>3, <1>4, <1>5

LEMMA InitRefines == Init => Q!QInit
<1> SUFFICES ASSUME Init PROVE Q!QInit
  OBVIOUS
<1>1. IInv /\ ~inited
  BY InitIInv DEF Init
<1>2. /\ Linked = {} /\ clock \in Nat
      /\ \A n \in Nodes : owner[n] = FreeList
  BY <1>1 DEF IInv, RingsOK, InitedInv, TypeOK
<1>3. \A l \in Lists : Queued(l) = {}
  BY <1>2, CellAssumption DEF Queued
<1>4. [l \in Lists |-> Queued(l)] = [l \in Lists |-> {}]
  BY <1>3
<1>5. {n \in Nodes : owner[n] = FreeList} = Nodes /\ Lists \cap Linked = {}
  BY <1>2
<1> QED BY <1>2, <1>4, <1>5 DEF Init, Q!QInit

LEMMA StepRefines == IInv /\ [Next]_vars => [Q!QNext]_(Q!qvars)
<1> SUFFICES ASSUME IInv, [Next]_vars PROVE [Q!QNext]_(Q!qvars)
  OBVIOUS
<1> DEFINE queue == [l \in Lists |-> Queued(l)]
           free == {n \in Nodes : owner[n] = FreeList}
<1>0. FreeList \in Rings /\ Lists \subseteq Rings /\ FreeList \notin Lists
      /\ \A l \in Lists : l # FreeList
  BY CellAssumption DEF Rings
<1>1. ASSUME NEW l \in Lists, list_init(l) PROVE Q!QNext
  <2>1. UNCHANGED <<ptr, ret, aborted, history>> /\ ~aborted
    BY <1>1 DEF list_init
  <2>2. \A k \in Lists : Queued(k)' = Queued(k)
    BY <2>1 DEF Queued, history
  <2>3. queue' = queue /\ free' = free
    BY <2>1, <2>2 DEF history
  <2>4. Queued(l) = {}
    <3>1. \A m \in Nodes : owner[m] # l
      <4>1. CASE inited /\ next[l] = l
        <5>1. l \in Cells /\ next[l] # NULL
          BY <4>1, <1>0, CellAssumption DEF Cells
        <5> QED BY <4>1, <5>1, <1>0, LinkedFacts DEF list_empty
      <4>2. CASE ~inited
        BY <4>2, <1>0 DEF IInv, RingsOK, InitedInv
      <4>3. CASE inited /\ next[l] = NULL
        BY <4>3, <1>0 DEF IInv, RingsOK, RingInv, RingLinks, InitedInv, Linked
      <4> QED BY <4>1, <4>2, <4>3, <1>1 DEF list_init
    <3> QED BY <3>1 DEF Queued
  <2>5. (Lists \cap Linked)' = (Lists \cap Linked) \cup {l}
    <3>1. l \in Cells /\ l # NULL /\ \A k \in Lists : k \in Cells /\ k \notin Nodes /\ k # FreeList
      BY <1>0, CellAssumption DEF Cells
    <3>2. next'[l] = l
      BY <3>1, <1>1 DEF list_init, IInv, TypeOK
    <3>3. ASSUME NEW k \in Lists, k # l PROVE next'[k] = next[k]
      BY <3>1, <3>3, <1>1 DEF list_init, IInv, TypeOK, PoolNext
    <3> QED BY <3>1, <3>2, <3>3 DEF Linked
  <2>6. clock' \in Nat /\ clock' >= clock
    BY <2>1 DEF IInv, TypeOK, history
  <2>7. Q!Start(l)
    BY <2>1, <2>3, <2>4, <2>5, <2>6 DEF Q!Start, Q!Later
  <2> QED BY <2>7 DEF Q!QNext
<1>2. ASSUME NEW l \in Lists, NEW v \in Vals, list_enqueue(l, v) PROVE Q!QNext
  <2>0. ~aborted /\ l \in Lists \cap Linked /\ inited /\ FreeList \in Linked
    BY <1>0, <1>2, LinkedFacts DEF list_enqueue
  <2>1. CASE list_empty(FreeList)
    <3>1. aborted' = TRUE /\ UNCHANGED <<links, ptr, inited, ret, history>>
      BY <1>2, <2>1 DEF list_enqueue
    <3>2. free = {}
      BY <2>0, <2>1, <1>0, LinkedFacts DEF Linked
    <3>3. \A k \in Lists : Queued(k)' = Queued(k)
      BY <3>1 DEF Queued, history
    <3>4. queue' = queue /\ free' = free
      BY <3>1, <3>3 DEF history
    <3>5. (Lists \cap Linked)' = Lists \cap Linked
      BY <3>1 DEF Linked, links
    <3>6. Q!Exhausted(l)
      BY <2>0, <3>1, <3>2, <3>4, <3>5 DEF Q!Exhausted, history
    <3> QED BY <3>6 DEF Q!QNext
  <2>2. CASE ~list_empty(FreeList)
    <3> DEFINE p == prev[FreeList]
    <3>1. p \in Nodes /\ owner[p] = FreeList
      BY <1>0, <2>0, <2>2, LinkedFacts DEF Linked
    <3>2. Move(l, p) /\ ptr' = [ptr EXCEPT ![p] = v] /\ ret' = p /\ UNCHANGED <<inited, aborted>>
      BY <1>2, <2>2 DEF list_enqueue, Move
    <3>3. ptr' \in [Nodes -> Vals \cup {NULL}] /\ ptr'[p] = v
          /\ \A n \in Nodes : n # p => ptr'[n] = ptr[n]
      BY <3>1, <3>2 DEF IInv, TypeOK
    <3> HIDE DEF p
    <3>4. /\ \A k \in Lists : k # l => Queued(k)' = Queued(k)
          /\ Queued(l)' = Queued(l) \cup {[handle |-> p, time |-> clock, ptr |-> v]}
          /\ \A n \in Nodes : owner'[n] = IF n = p THEN l ELSE owner[n]
          /\ clock' = clock + 1
      BY <1>0, <2>0, <3>1, <3>2, <3>3, MoveQueued
    <3>5. (Lists \cap Linked)' = Lists \cap Linked
      BY <1>0, <2>0, <3>1, <3>2, MoveRing
    <3>6. free' = free \ {p} /\ p \in free
      BY <1>0, <3>1, <3>4
    <3>7. queue' = [queue EXCEPT ![l] = @ \cup {[handle |-> p, time |-> clock, ptr |-> v]}]
      BY <3>4
    <3> HIDE DEF queue, free
    <3>8. Q!Enqueue(l, v)
      BY <2>0, <3>2, <3>4, <3>5, <3>6, <3>7 DEF Q!Enqueue, queue, free
    <3> QED BY <3>8 DEF Q!QNext
  <2> QED BY <2>1, <2>2
<1>3. ASSUME NEW l \in Lists, NEW p \in Nodes, owner[p] = l, l \in Linked,
             inited, FreeList \in Linked, Move(FreeList, p),
             UNCHANGED <<ptr, inited, aborted>>
      PROVE  \E e \in queue[l] : e = EntryOf(p) /\ Q!Drop(l, e)
  <2>0. PICK e : e = EntryOf(p)
    OBVIOUS
  <2>1. ptr' \in [Nodes -> Vals \cup {NULL}] /\ \A n \in Nodes : n # p => ptr'[n] = ptr[n]
    BY <1>3 DEF IInv, TypeOK
  <2>2. /\ \A k \in Lists : k # l => Queued(k)' = Queued(k)
        /\ Queued(l)' = Queued(l) \ {EntryOf(p)}
        /\ \A n \in Nodes : owner'[n] = IF n = p THEN FreeList ELSE owner[n]
        /\ clock' \in Nat /\ clock' >= clock
    BY <1>0, <1>3, <2>1, MoveQueued
  <2>3. (Lists \cap Linked)' = Lists \cap Linked
    BY <1>0, <1>3, MoveRing
  <2>4. free' = free \cup {e.handle}
    BY <2>0, <2>2 DEF EntryOf
  <2>5. queue' = [queue EXCEPT ![l] = @ \ {e}]
    BY <2>0, <2>2
  <2>6. e \in Queued(l)
    BY <1>3, <2>0 DEF EntryOf, Queued
  <2>7. Q!Drop(l, e)
    BY <1>3, <2>2, <2>3, <2>4, <2>5 DEF Q!Drop, Q!Later
  <2> QED BY <2>0, <2>6, <2>7
<1>4. ASSUME NEW l \in Lists, list_dequeue(l) PROVE Q!QNext
  <2>0. ~aborted /\ l \in Lists \cap Linked /\ inited /\ FreeList \in Linked
    BY <1>0, <1>4, LinkedFacts DEF list_dequeue
  <2>1. CASE list_empty(l)
    <3>1. ret' = NULL /\ UNCHANGED <<links, ptr, inited, aborted, history>>
      BY <1>4, <2>1 DEF list_dequeue
    <3>2. Queued(l) = {}
      BY <2>0, <2>1, <1>0, LinkedFacts DEF Linked, Queued
    <3>3. \A k \in Lists : Queued(k)' = Queued(k)
      BY <3>1 DEF Queued, history
    <3>4. queue' = queue /\ free' = free
      BY <3>1, <3>3 DEF history
    <3>5. (Lists \cap Linked)' = Lists \cap Linked
      BY <3>1 DEF Linked, links
    <3>6. Q!DequeueEmpty(l)
      BY <2>0, <3>1, <3>2, <3>4, <3>5 DEF Q!DequeueEmpty, history
    <3> QED BY <3>6 DEF Q!QNext
  <2>2. CASE ~list_empty(l)
    <3> DEFINE p == prev[l]
    <3>1. p \in Nodes /\ owner[p] = l
          /\ \A m \in Nodes : owner[m] = l => stamp[m] >= stamp[p]
      BY <1>0, <2>0, <2>2, LinkedFacts DEF Linked
    <3>2. Move(FreeList, p) /\ ret' = ptr[p] /\ UNCHANGED <<ptr, inited, aborted>>
      BY <1>4, <2>2 DEF list_dequeue, Move
    <3> HIDE DEF p
    <3>3. PICK e \in queue[l] : e = EntryOf(p) /\ Q!Drop(l, e)
      BY <1>3, <2>0, <3>1, <3>2
    <3>4. \A f \in queue[l] : e.time <= f.time
      <4>1. stamp \in [Nodes -> Nat]
        BY DEF IInv, TypeOK
      <4> QED BY <3>1, <3>3, <4>1 DEF Queued, EntryOf
    <3>5. ret' = e.ptr
      BY <3>2, <3>3 DEF EntryOf
    <3> HIDE DEF queue
    <3>6. \E f \in queue[l] : /\ \A g \in queue[l] : f.time <= g.time
                             /\ Q!Drop(l, f)
                             /\ ret' = f.ptr
      BY <3>3, <3>4, <3>5, Zenon
    <3>7. Q!Dequeue(l)
      BY <2>0, <3>6, Zenon DEF Q!Dequeue, queue
    <3> QED BY <3>7 DEF Q!QNext
  <2> QED BY <2>1, <2>2
<1>5. ASSUME NEW l \in Lists, NEW entry \in Nodes, list_remove(l, entry) PROVE Q!QNext
  <2>1. ~aborted /\ l \in Lists \cap Linked /\ inited /\ FreeList \in Linked
    BY <1>0, <1>5, LinkedFacts DEF list_remove
  <2>2. Move(FreeList, entry) /\ UNCHANGED <<ptr, inited, ret, aborted>> /\ owner[entry] = l
    BY <1>5 DEF list_remove, Move
  <2>3. \E e \in queue[l] : e = EntryOf(entry) /\ Q!Drop(l, e)
    <3>1. l \in Linked /\ UNCHANGED <<ptr, inited, aborted>>
      BY <2>1, <2>2
    <3> HIDE DEF queue
    <3> QED BY <1>3, <2>1, <2>2, <3>1, Zenon
  <2>4. Q!Remove(l)
    <3>1. \E e \in queue[l] : Q!Drop(l, e)
      BY <2>3, Zenon
    <3>2. ~aborted /\ l \in Lists \cap Linked /\ UNCHANGED ret
      BY <2>1, <2>2
    <3> QED BY <3>1, <3>2, Zenon DEF Q!Remove
  <2> QED BY <2>4 DEF Q!QNext
<1>6. CASE UNCHANGED vars
  <2>1. \A k \in Lists : Queued(k)' = Queued(k)
    BY <1>6 DEF Queued, vars
  <2>2. queue' = queue /\ free' = free
    BY <1>6, <2>1 DEF vars
  <2>3. (Lists \cap Linked)' = Lists \cap Linked
    BY <1>6 DEF Linked, vars
  <2> QED BY <1>6, <2>2, <2>3 DEF Q!qvars, vars
<1> QED BY <1>1, <1>2, <1>4, <1>5, <1>6 DEF Next

\* The pointer code of list.c implements the FIFO queues of KQueue, whatever
\* the pool size and the number of lists.
THEOREM ListImplementsKQueue == Spec => ImplementsKQueue
<1>1. Init => Q!QInit
  BY InitRefines
<1>2. IInv /\ [Next]_vars => [Q!QNext]_(Q!qvars)
  BY StepRefines
<1>3. Init => IInv
  BY InitIInv
<1>4. IInv /\ [Next]_vars => IInv'
  BY StepKeepsIInv
<1> QED BY <1>1, <1>2, <1>3, <1>4, PTL DEF Spec, ImplementsKQueue, Q!QSpec

=============================================================================
