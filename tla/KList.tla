-------------------------------- MODULE KList --------------------------------
(***************************************************************************)
(* kernel/klib/list.c: the kernel's FIFO queues.  Every queue is a ring of *)
(* list_t cells whose sentinel is the client's own list_t (semaphore wait  *)
(* queues and the like); the other cells come from the static pool         *)
(* list_buf[LIST_NUM], whose unused cells hang on the ring of free_list.   *)
(* The model keeps the next/prev/ptr fields of every cell as they are in   *)
(* memory.  The list code runs with interrupts off, so that a call is one  *)
(* step.                                                                   *)
(*                                                                         *)
(* owner, stamp and clock are history variables: which ring a cell was     *)
(* last added to and when.  The guards read them for two things only: the  *)
(* bound on clock, and the client's obligation to remove an entry only     *)
(* while it is queued.                                                     *)
(***************************************************************************)
EXTENDS Integers

CONSTANTS
  LIST_NUM,   \* cells in list_buf
  Lists,      \* the sentinels the clients own
  FreeList,   \* &free_list
  Vals,       \* pointers the clients queue
  NULL,
  MaxClock    \* bound: additions to rings in a behaviour

Nodes == 0 .. (LIST_NUM - 1)
Rings == Lists \cup {FreeList}
Cells == Nodes \cup Rings

ASSUME PoolAssumption == LIST_NUM \in Nat \ {0}
ASSUME CellAssumption ==
  /\ Nodes \cap Rings = {}
  /\ FreeList \notin Lists
  /\ NULL \notin Cells \cup Vals
ASSUME BoundAssumption == MaxClock \in Nat

VARIABLES
  next,     \* next[c], prev[c]: the links of cell c, NULL before they are set
  prev,
  ptr,      \* ptr[n]: the payload field of a pool cell
  inited,   \* the static flag of list_init
  ret,      \* what the last list_enqueue or list_dequeue returned
  aborted,  \* an assertion failed: the kernel has stopped
  owner,    \* history: the ring that cell c was last added to
  stamp,    \* history: when it was added
  clock     \* history: number of additions so far

links == <<next, prev>>
history == <<owner, stamp, clock>>
vars == <<next, prev, ptr, inited, ret, aborted, owner, stamp, clock>>

-----------------------------------------------------------------------------
(* Variants of the definitions below, each with one plausible mistake.     *)

UnlinkNForgets(nx, pv, p) == nx
UnlinkPForgets(nx, pv, p) == pv

list_enqueue_unchecked(l, v) ==
  /\ ~aborted
  /\ next[l] # NULL
  /\ LET p == prev[FreeList]
     IN  /\ ptr' = [ptr EXCEPT ![p] = v]
         /\ ret' = p
         /\ next' = [next EXCEPT ![prev[p]] = next[p], ![p] = next[l], ![l] = p]
         /\ prev' = [prev EXCEPT ![next[p]] = prev[p], ![p] = l, ![next[l]] = p]
  /\ UNCHANGED <<inited, aborted, history>>

list_dequeue_newest(l) ==
  /\ ~aborted
  /\ next[l] # NULL
  /\ next[l] # l
  /\ LET p == next[l]
     IN  /\ next' = [next EXCEPT ![l] = next[p], ![p] = next[FreeList], ![FreeList] = p]
         /\ prev' = [prev EXCEPT ![next[p]] = l, ![p] = FreeList, ![next[FreeList]] = p]
         /\ ret' = ptr[p]
         /\ owner' = [owner EXCEPT ![p] = FreeList]
         /\ stamp' = [stamp EXCEPT ![p] = clock]
  /\ clock < MaxClock
  /\ clock' = clock + 1
  /\ UNCHANGED <<ptr, inited, aborted>>

-----------------------------------------------------------------------------
(* The two pointer operations, as functions from links to links.  Each     *)
(* assignment of the code reads the memory its predecessors left.          *)

\* list_add_next(list, p): p goes between list and its successor.
AddNextN(nx, list, p) == [nx EXCEPT ![p] = nx[list], ![list] = p]
AddNextP(nx, pv, list, p) == [pv EXCEPT ![p] = list, ![nx[list]] = p]

\* p->prev->next = p->next; p->next->prev = p->prev.  p keeps its own links.
UnlinkN(nx, pv, p) == [nx EXCEPT ![pv[p]] = nx[p]]
UnlinkP(nx, pv, p) == [pv EXCEPT ![nx[p]] = pv[p]]

list_empty(list) == next[list] = list

\* History of an addition of p to the ring of list.
Record(list, p) ==
  /\ clock < MaxClock
  /\ owner' = [owner EXCEPT ![p] = list]
  /\ stamp' = [stamp EXCEPT ![p] = clock]
  /\ clock' = clock + 1

-----------------------------------------------------------------------------

Init ==
  /\ next = [c \in Cells |-> NULL]
  /\ prev = [c \in Cells |-> NULL]
  /\ ptr = [n \in Nodes |-> NULL]
  /\ inited = FALSE
  /\ ret = NULL
  /\ aborted = FALSE
  /\ owner = [c \in Cells |-> IF c \in Nodes THEN FreeList ELSE c]
  /\ stamp = [n \in Nodes |-> n]
  /\ clock = LIST_NUM

\* The links init_list leaves: the loop adds list_buf[0], list_buf[1], ...
\* behind the sentinel one after the other, so that the last cell comes first.
PoolNext(c) ==
  IF c = FreeList THEN LIST_NUM - 1
  ELSE IF c \in Nodes THEN (IF c = 0 THEN FreeList ELSE c - 1)
  ELSE next[c]
PoolPrev(c) ==
  IF c = FreeList THEN 0
  ELSE IF c \in Nodes THEN (IF c = LIST_NUM - 1 THEN FreeList ELSE c + 1)
  ELSE prev[c]

\* list_init: the first call also builds the pool.  A client calls it on a
\* list_t that is not yet a list, or that is an empty one.
list_init(l) ==
  /\ ~aborted
  /\ next[l] \in {NULL, l}
  /\ inited' = TRUE
  /\ IF inited
     THEN /\ next' = [next EXCEPT ![l] = l]
          /\ prev' = [prev EXCEPT ![l] = l]
     ELSE /\ next' = [c \in Cells |-> IF c = l THEN l ELSE PoolNext(c)]
          /\ prev' = [c \in Cells |-> IF c = l THEN l ELSE PoolPrev(c)]
  /\ UNCHANGED <<ptr, ret, aborted, history>>

\* list_enqueue: take the cell the pool has had longest; the assertion of
\* list_remove_prev fails when the pool is empty.
list_enqueue(l, v) ==
  /\ ~aborted
  /\ next[l] # NULL
  /\ IF list_empty(FreeList)
     THEN /\ aborted' = TRUE
          /\ UNCHANGED <<links, ptr, inited, ret, history>>
     ELSE LET p   == prev[FreeList]
              nx1 == UnlinkN(next, prev, p)
              pv1 == UnlinkP(next, prev, p)
          IN  /\ next' = AddNextN(nx1, l, p)
              /\ prev' = AddNextP(nx1, pv1, l, p)
              /\ ptr' = [ptr EXCEPT ![p] = v]
              /\ ret' = p
              /\ Record(l, p)
              /\ UNCHANGED <<inited, aborted>>

\* list_dequeue: NULL on an empty list, else the payload of the last cell,
\* which goes back to the pool.
list_dequeue(l) ==
  /\ ~aborted
  /\ next[l] # NULL
  /\ IF list_empty(l)
     THEN /\ ret' = NULL
          /\ UNCHANGED <<links, history>>
     ELSE LET p   == prev[l]
              nx1 == UnlinkN(next, prev, p)
              pv1 == UnlinkP(next, prev, p)
          IN  /\ next' = AddNextN(nx1, FreeList, p)
              /\ prev' = AddNextP(nx1, pv1, FreeList, p)
              /\ ret' = ptr[p]
              /\ Record(FreeList, p)
  /\ UNCHANGED <<ptr, inited, aborted>>

\* list_remove: entry is a cell that list_enqueue returned and that is still
\* queued.  The code never reads the list argument.
list_remove(l, entry) ==
  /\ ~aborted
  /\ next[l] # NULL
  /\ owner[entry] = l
  /\ LET nx1 == UnlinkN(next, prev, entry)
         pv1 == UnlinkP(next, prev, entry)
     IN  /\ next' = AddNextN(nx1, FreeList, entry)
         /\ prev' = AddNextP(nx1, pv1, FreeList, entry)
  /\ Record(FreeList, entry)
  /\ UNCHANGED <<ptr, inited, ret, aborted>>

Next ==
  \E l \in Lists :
    \/ list_init(l)
    \/ \E v \in Vals : list_enqueue(l, v)
    \/ list_dequeue(l)
    \/ \E entry \in Nodes : list_remove(l, entry)

Spec == Init /\ [][Next]_vars

-----------------------------------------------------------------------------
(* Properties.                                                             *)

\* Every field has its type; in particular no call hands a sentinel out as a
\* queue entry (ret), which list_remove_prev's assertion is there to prevent.
TypeOK ==
  /\ next \in [Cells -> Cells \cup {NULL}]
  /\ prev \in [Cells -> Cells \cup {NULL}]
  /\ ptr \in [Nodes -> Vals \cup {NULL}]
  /\ inited \in BOOLEAN
  /\ ret \in Nodes \cup Vals \cup {NULL}
  /\ aborted \in BOOLEAN
  /\ owner \in [Cells -> Rings]
  /\ stamp \in [Nodes -> Nat]
  /\ clock \in Nat

Linked == {c \in Cells : next[c] # NULL}

\* The links of the cells of S form closed rings: next and prev are each
\* other's inverse, and a ring stays with its owner and holds its sentinel.
RingLinks(nx, pv, ow, S) ==
  \A c \in S :
    /\ nx[c] \in S /\ pv[c] \in S
    /\ pv[nx[c]] = c /\ nx[pv[c]] = c
    /\ ow[nx[c]] = ow[c]
    /\ ow[c] \in S
    /\ c \in Rings => ow[c] = c
    /\ c \notin Rings => c \in Nodes

\* Going along next, every cell is older than the one before it ...
RingOrder(nx, st, S) ==
  \A c \in S : c \in Nodes /\ nx[c] \in Nodes => st[nx[c]] < st[c]

\* ... and no cell that belongs to the ring is missing between c and next[c].
RingGapless(nx, ow, st, S) ==
  \A c, m \in S :
    m \in Nodes /\ ow[m] = ow[c] =>
      \/ c \in Nodes /\ st[m] >= st[c]
      \/ nx[c] \in Nodes /\ st[m] <= st[nx[c]]

RingInv(nx, pv, ow, st, S) ==
  /\ RingLinks(nx, pv, ow, S)
  /\ RingOrder(nx, st, S)
  /\ RingGapless(nx, ow, st, S)

StampInv ==
  /\ \A m, n \in Nodes : m # n => stamp[m] # stamp[n]
  /\ \A n \in Nodes : stamp[n] < clock

\* Before the first list_init nothing is linked; after it every pool cell is.
InitedInv ==
  IF inited
  THEN Nodes \cup {FreeList} \subseteq Linked
  ELSE /\ Linked = {}
       /\ \A n \in Nodes : owner[n] = FreeList /\ stamp[n] = n
       /\ clock = LIST_NUM
SentinelInv == \A r \in Rings : owner[r] = r

\* The linked cells form one ring per list and one for the pool, in the order
\* of their enqueues, whatever sequence of list_init, list_enqueue,
\* list_dequeue and list_remove came before (the pointer updates of
\* list_add_next, list_remove_prev and list_remove).
RingsOK ==
  /\ RingInv(next, prev, owner, stamp, Linked)
  /\ StampInv
  /\ InitedInv
  /\ SentinelInv

\* The cell reached from the sentinel r in k steps along next.
Walk(r) ==
  LET step[k \in 0 .. LIST_NUM + 1] == IF k = 0 THEN r ELSE next[step[k - 1]]
  IN  step

\* A client that walks a ring along next meets exactly the cells that were
\* added to it and not removed since, and comes back to the sentinel: no cell
\* is leaked, shared by two rings or lost (list_add_next, list_remove_prev).
RingsComplete ==
  \A r \in Rings \cap Linked :
    LET owned == {n \in Nodes : owner[n] = r}
    IN  \E len \in 0 .. LIST_NUM :
          /\ {Walk(r)[k] : k \in 1 .. len} = owned
          /\ Walk(r)[len + 1] = r
          /\ \A k \in 1 .. len : Walk(r)[k] # r

\* What the four operations promise: FIFO queues over a shared pool, where
\* only an enqueue on an empty pool stops the kernel (KQueue).
Queued(l) ==
  {[handle |-> n, time |-> stamp[n], ptr |-> ptr[n]] :
     n \in {m \in Nodes : owner[m] = l}}
Q == INSTANCE KQueue WITH
       Handles <- Nodes,
       usable <- Lists \cap Linked,
       free <- {n \in Nodes : owner[n] = FreeList},
       queue <- [l \in Lists |-> Queued(l)],
       now <- clock

\* list.c implements KQueue: list_dequeue returns the payload enqueued longest
\* ago, list_remove drops the entry of the handle and no other, a handle is
\* never given out twice, and aborting means that the pool is exhausted.
ImplementsKQueue == Q!QSpec

=============================================================================
