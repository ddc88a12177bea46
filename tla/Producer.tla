------------------------------ MODULE Producer ------------------------------
(***************************************************************************)
(* user/src/phase4/producer.c: producers and consumers over the semaphores *)
(* empty, full and mutex, and main, which forks them one by one and then   *)
(* spins.  A fork may fail: its assertion stops main, and the children     *)
(* that exist go on.  One step is one semaphore call or one printf; the    *)
(* sleeps between them take any time.                                      *)
(***************************************************************************)
EXTENDS Sem, FiniteSets

CONSTANTS BUF_SIZE, PRODUCER_NUM, COMSUMER_NUM

ASSUME ProducerAssumption ==
  BUF_SIZE \in Nat \ {0} /\ PRODUCER_NUM \in Nat /\ COMSUMER_NUM \in Nat

Producers == 1 .. PRODUCER_NUM
Consumers == (PRODUCER_NUM + 1) .. (PRODUCER_NUM + COMSUMER_NUM)
Procs == 1 .. (PRODUCER_NUM + COMSUMER_NUM)

VARIABLES
  sem,    \* empty, full and mutex
  pc,     \* of the children, in the order they are forked
  main,   \* "fork", "spin" or "abort"
  count   \* history: lines "produce" minus lines "consume"

vars == <<sem, pc, main, count>>

-----------------------------------------------------------------------------
(* Variants of the definitions below, each with one plausible mistake.     *)

\* The buffer has a place too many.
InitOneMore ==
  /\ sem = [empty |-> sem_open(BUF_SIZE + 1), full |-> sem_open(0), mutex |-> sem_open(1)]
  /\ pc = [p \in Procs |-> "none"] /\ main = "fork" /\ count = 0
\* mutex is taken before the place in the buffer.
TakesMutexFirst(p) == <<"mutex", IF p \in Producers THEN "empty" ELSE "full">>

-----------------------------------------------------------------------------

Init ==
  /\ sem = [empty |-> sem_open(BUF_SIZE), full |-> sem_open(0), mutex |-> sem_open(1)]
  /\ pc = [p \in Procs |-> "none"] /\ main = "fork" /\ count = 0

Forked == {p \in Procs : pc[p] # "none"}

fork_s ==
  /\ main = "fork"
  /\ \/ /\ Forked # Procs
        /\ pc' = [pc EXCEPT ![Cardinality(Forked) + 1] = "first"]
        /\ main' = "fork"
     \/ /\ Forked # Procs /\ main' = "abort" /\ UNCHANGED pc
     \/ /\ Forked = Procs /\ main' = "spin" /\ UNCHANGED pc
  /\ UNCHANGED <<sem, count>>

\* The semaphores a process takes, and those it gives, in order.
Takes(p) == <<IF p \in Producers THEN "empty" ELSE "full", "mutex">>
Gives(p) == <<"mutex", IF p \in Producers THEN "full" ELSE "empty">>

\* p goes on at from, unless it still waits.
At(p, from) == pc[p] = from /\ \A s \in DOMAIN sem : ~Waits(sem[s], p)

P(p, s, from, to) ==
  /\ At(p, from)
  /\ sem' = [sem EXCEPT ![s] = sem_p(@, p)]
  /\ pc' = [pc EXCEPT ![p] = to]
  /\ UNCHANGED <<main, count>>
V(p, s, from, to) ==
  /\ At(p, from)
  /\ sem' = [sem EXCEPT ![s] = sem_v(@)]
  /\ pc' = [pc EXCEPT ![p] = to]
  /\ UNCHANGED <<main, count>>

P_first(p) == P(p, Takes(p)[1], "first", "mutex")
P_mutex(p) == P(p, Takes(p)[2], "mutex", "use")
put(p) ==
  /\ At(p, "use") /\ p \in Producers
  /\ count' = count + 1
  /\ pc' = [pc EXCEPT ![p] = "used"]
  /\ UNCHANGED <<sem, main>>
take(p) ==
  /\ At(p, "use") /\ p \in Consumers
  /\ count' = count - 1
  /\ pc' = [pc EXCEPT ![p] = "used"]
  /\ UNCHANGED <<sem, main>>
V_mutex(p) == V(p, Gives(p)[1], "used", "second")
V_second(p) == V(p, Gives(p)[2], "second", "first")

Step(p) == P_first(p) \/ P_mutex(p) \/ put(p) \/ take(p) \/ V_mutex(p) \/ V_second(p)

Next == fork_s \/ \E p \in Procs : Step(p)

\* The timer interrupt lets every process that can run go on in its turn.
Spec == Init /\ [][Next]_vars /\ WF_vars(fork_s) /\ \A p \in Procs : WF_vars(Step(p))

-----------------------------------------------------------------------------
(* Properties.                                                             *)

\* The children's and main's places exist, and a semaphore has as many waiting
\* processes as its value is below zero.
TypeOK ==
  /\ \A s \in {"empty", "full", "mutex"} :
       /\ sem[s].value \in Int /\ sem[s].wait_list \in Seq(Procs)
       /\ Len(sem[s].wait_list) = IF sem[s].value < 0 THEN -sem[s].value ELSE 0
  /\ pc \in [Procs -> {"none", "first", "mutex", "use", "used", "second"}]
  /\ main \in {"fork", "spin", "abort"}
  /\ count \in Int

\* Nothing is taken from an empty buffer and nothing put into a full one,
\* whatever the order in which the processes run: the lines that the program
\* prints never count below 0 or above BUF_SIZE.
BufferBounds == 0 <= count /\ count <= BUF_SIZE

\* Only one process is between its P(mutex) and its V(mutex), where the buffer
\* is.
Inside == {p \in Procs : At(p, "use") \/ At(p, "used")}
Exclusion == \A p, q \in Inside : p = q

=============================================================================
