------------------------------- MODULE KQueue -------------------------------
(***************************************************************************)
(* What kernel/klib/list.c promises its users: a family of FIFO queues     *)
(* that draw their entries from one shared pool of handles.  No links, no  *)
(* rings: a queue is a set of entries, each with the time it was enqueued. *)
(* list_enqueue gives out a free handle, list_dequeue removes the oldest   *)
(* entry, list_remove removes the entry of a handle; the kernel stops only *)
(* when an enqueue finds no free handle at all.                            *)
(***************************************************************************)
EXTENDS Integers

CONSTANTS Lists, Handles, Vals, NULL

VARIABLES
  usable,   \* the lists that have been initialised
  free,     \* the handles of the pool that are in no queue
  queue,    \* queue[l]: the entries of list l
  now,      \* one more than the latest enqueue time
  ret,      \* the last value returned to a caller
  aborted   \* the kernel has stopped in abort()

qvars == <<usable, free, queue, now, ret, aborted>>

Entry == [handle : Handles, time : Nat, ptr : Vals]

QInit ==
  /\ usable = {}
  /\ free = Handles
  /\ queue = [l \in Lists |-> {}]
  /\ now \in Nat
  /\ ret = NULL
  /\ aborted = FALSE

\* Time moves on whenever an entry changes hands; only its order matters.
Later == now' \in Nat /\ now' >= now

Start(l) ==
  /\ ~aborted
  /\ queue[l] = {}
  /\ usable' = usable \cup {l}
  /\ Later
  /\ UNCHANGED <<free, queue, ret, aborted>>

Enqueue(l, v) ==
  /\ ~aborted
  /\ l \in usable
  /\ \E h \in free :
       /\ free' = free \ {h}
       /\ queue' = [queue EXCEPT ![l] = @ \cup {[handle |-> h, time |-> now, ptr |-> v]}]
       /\ ret' = h
  /\ now' = now + 1
  /\ UNCHANGED <<usable, aborted>>

\* An enqueue that finds the pool empty stops the kernel, and nothing else does.
Exhausted(l) ==
  /\ ~aborted
  /\ l \in usable
  /\ free = {}
  /\ aborted' = TRUE
  /\ UNCHANGED <<usable, free, queue, now, ret>>

Drop(l, e) ==
  /\ queue' = [queue EXCEPT ![l] = @ \ {e}]
  /\ free' = free \cup {e.handle}
  /\ Later
  /\ UNCHANGED <<usable, aborted>>

Dequeue(l) ==
  /\ ~aborted
  /\ l \in usable
  /\ \E e \in queue[l] :
       /\ \A f \in queue[l] : e.time <= f.time
       /\ Drop(l, e)
       /\ ret' = e.ptr

DequeueEmpty(l) ==
  /\ ~aborted
  /\ l \in usable
  /\ queue[l] = {}
  /\ ret' = NULL
  /\ UNCHANGED <<usable, free, queue, now, aborted>>

Remove(l) ==
  /\ ~aborted
  /\ l \in usable
  /\ \E e \in queue[l] : Drop(l, e)
  /\ UNCHANGED ret

QNext ==
  \E l \in Lists :
    \/ Start(l)
    \/ \E v \in Vals : Enqueue(l, v)
    \/ Exhausted(l)
    \/ Dequeue(l)
    \/ DequeueEmpty(l)
    \/ Remove(l)

QSpec == QInit /\ [][QNext]_qvars
=============================================================================
