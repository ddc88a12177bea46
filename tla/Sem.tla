--------------------------------- MODULE Sem ---------------------------------
(***************************************************************************)
(* The semaphores that user programs open with sem_open, and a semaphore's *)
(* value and wait list (sem_init).  The bodies of sem_p and sem_v are not  *)
(* written; they do here what their comments in kernel/src/sem.c ask: "dec *)
(* sem's value, if value<0, add curr proc to waitlist and block it", "inc  *)
(* sem's value, if value<=0, dequeue a proc from waitlist and ready it".   *)
(* A process that waits is at the place behind its sem_p.                  *)
(***************************************************************************)
EXTENDS Integers, Sequences

sem_open(value) == [value |-> value, wait_list |-> <<>>]

sem_p(sem, p) ==
  [value |-> sem.value - 1,
   wait_list |-> IF sem.value - 1 < 0 THEN Append(sem.wait_list, p) ELSE sem.wait_list]

sem_v(sem) ==
  [value |-> sem.value + 1,
   wait_list |-> IF sem.value + 1 <= 0 THEN Tail(sem.wait_list) ELSE sem.wait_list]

Waits(sem, p) == \E i \in 1 .. Len(sem.wait_list) : sem.wait_list[i] = p
=============================================================================
