------------------------------ MODULE ForkFork ------------------------------
(***************************************************************************)
(* user/src/phase3/forkfork.c: children that fork and reap in a loop, side *)
(* by side, below a process that forks and waits for them, below main,     *)
(* which prints the verdict.  External: fork fails when no slot of the     *)
(* process table is free, a child keeps its slot until it is waited for or *)
(* its parent is gone, and wait waits for a child that exits.              *)
(***************************************************************************)
EXTENDS Integers, FiniteSets

CONSTANTS
  SLOTS,   \* how many slots of the process table may be free
  N,       \* children of forkfork()
  LOOPS    \* turns of their loop: 100

VARIABLES
  main, i,    \* main, and forkfork() with its i
  pc, j,      \* its children
  grand,      \* the child of each: "none", "run" or "zombie"
  failed,     \* history: a fork has failed
  slots       \* free slots at the start

vars == <<main, i, pc, j, grand, failed, slots>>

Children == 1 .. N

-----------------------------------------------------------------------------
(* Variants of the definitions below, each with one plausible mistake.     *)

\* A child that could not fork exits with 0.
ExitsWithZero == "exit0"

-----------------------------------------------------------------------------

Init ==
  /\ main = "start" /\ i = 0 /\ failed = FALSE
  /\ pc = [c \in Children |-> "none"] /\ j = [c \in Children |-> 0]
  /\ grand = [c \in Children |-> "none"] /\ slots \in SLOTS

\* Children whose parent is gone are not waited for.
InTable(c) == pc[c] \in {"loop", "wait"} \/ (pc[c] \in {"exit0", "exit1"} /\ main \in {"fork", "wait"})
Free ==
  Cardinality({c \in Children : InTable(c)}) + Cardinality({c \in Children : grand[c] # "none"})
    + (IF main \in {"fork", "wait", "exit0", "exit1"} THEN 1 ELSE 0) < slots

\* main's fork; its failure is an assertion, and a slot is free.
start == main = "start" /\ main' = "fork" /\ UNCHANGED <<i, pc, j, grand, failed>>

fork ==
  /\ main = "fork"
  /\ IF i < N /\ Free
     THEN i' = i + 1 /\ pc' = [pc EXCEPT ![i + 1] = "loop"] /\ UNCHANGED <<main, failed>>
     ELSE /\ main' = (IF i < N THEN "exit1" ELSE "wait")
          /\ i' = 0 /\ failed' = (failed \/ i < N) /\ UNCHANGED pc
  /\ UNCHANGED <<j, grand>>

MoreToWait == i < N
wait ==
  /\ main = "wait"
  /\ \/ /\ MoreToWait
        /\ \E c \in Children :
             /\ pc[c] \in {"exit0", "exit1"} /\ pc' = [pc EXCEPT ![c] = "reaped"]
             /\ main' = (IF pc[c] = "exit0" THEN "wait" ELSE "exit1") /\ i' = i + 1
     \/ ~MoreToWait /\ main' = "exit0" /\ UNCHANGED <<pc, i>>
  /\ UNCHANGED <<j, grand, failed>>

verdict ==
  /\ main \in {"exit0", "exit1"}
  /\ main' = IF main = "exit0" THEN "passed" ELSE "failed"
  /\ UNCHANGED <<i, pc, j, grand, failed>>

ForkFails == "exit1"
inner_fork(c) ==
  /\ pc[c] = "loop"
  /\ IF j[c] < LOOPS /\ Free
     THEN /\ grand' = [grand EXCEPT ![c] = "run"] /\ pc' = [pc EXCEPT ![c] = "wait"] /\ UNCHANGED failed
     ELSE /\ pc' = [pc EXCEPT ![c] = IF j[c] < LOOPS THEN ForkFails ELSE "exit0"]
          /\ failed' = (failed \/ j[c] < LOOPS) /\ UNCHANGED grand
  /\ UNCHANGED <<main, i, j>>
inner_exit(c) ==
  /\ grand[c] = "run" /\ grand' = [grand EXCEPT ![c] = "zombie"] /\ UNCHANGED <<main, i, pc, j, failed>>
inner_wait(c) ==
  /\ pc[c] = "wait" /\ grand[c] = "zombie" /\ grand' = [grand EXCEPT ![c] = "none"]
  /\ j' = [j EXCEPT ![c] = @ + 1] /\ pc' = [pc EXCEPT ![c] = "loop"]
  /\ UNCHANGED <<main, i, failed>>

forkfork == start \/ fork \/ wait \/ verdict
inner(c) == inner_fork(c) \/ inner_wait(c)

Next == (forkfork \/ \E c \in Children : inner(c) \/ inner_exit(c)) /\ UNCHANGED slots

-----------------------------------------------------------------------------
(* Properties.                                                             *)

\* The verdict is right, whichever fork fails and in whichever order the
\* children exit.
VerdictIsRight == (main = "passed" => ~failed) /\ (main = "failed" => failed)

\* A child that was waited for has left nothing in the process table.
NothingLeft ==
  main = "passed" => \A c \in Children : pc[c] = "reaped" /\ j[c] = LOOPS /\ grand[c] = "none"

\* The test comes to a verdict.
Ended == main \in {"passed", "failed"}

=============================================================================
