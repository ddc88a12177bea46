------------------------------- MODULE RmTest -------------------------------
(***************************************************************************)
(* user/src/phase6/rmtest.c: readers of a file, and the parent, which      *)
(* removes its name while they read, creates a new file under the name and *)
(* waits for the readers.  A step is one system call, so that unlink, open *)
(* and read come in every order that the two semaphores leave open.  An    *)
(* assertion that fails is abort(), which spins: the process never exits.  *)
(***************************************************************************)
EXTENDS Sem, FiniteSets

CONSTANTS READERS, HALF

Readers == 1 .. READERS

VARIABLES
  sem,    \* sem1 and sem2
  dir,    \* the file that the name "test" stands for
  new,    \* the blocks of the file made by test2
  pc,     \* of the readers
  fd,     \* the file a reader has open
  off,    \* the blocks a reader has read
  main    \* where the parent is

vars == <<sem, dir, new, pc, fd, off, main>>

-----------------------------------------------------------------------------
(* Variants of the definitions below, each with one plausible mistake.     *)

\* The parent wakes one reader fewer.
AfterVSkips(from) ==
  CASE from = "v1" -> "v2" [] from = "v2" -> "create" [] from = "v3" -> "wait" [] from = "v4" -> "wait"
\* The readers are let into their second half at once.
Sem2Open == sem_open(1)

-----------------------------------------------------------------------------

\* External: the blocks of a file.  A file whose name is gone lives on while it
\* is open.
Blocks(f) == IF f = "old" THEN [i \in 1 .. 2 * HALF |-> "a"] ELSE new

Sem2 == sem_open(0)

\* init() has written the file and opened the semaphores.
Init ==
  /\ sem = [sem1 |-> sem_open(0), sem2 |-> Sem2]
  /\ dir = "old" /\ new = <<>>
  /\ pc = [r \in Readers |-> "none"]
  /\ fd = [r \in Readers |-> "none"]
  /\ off = [r \in Readers |-> 0]
  /\ main = "fork"

Forked == {r \in Readers : pc[r] # "none"}

fork_s ==
  /\ main = "fork"
  /\ \/ /\ Forked # Readers
        /\ pc' = [pc EXCEPT ![Cardinality(Forked) + 1] = "open"]
        /\ main' = "fork"
     \/ Forked # Readers /\ main' = "abort" /\ UNCHANGED pc
     \/ Forked = Readers /\ main' = "p1" /\ UNCHANGED pc
  /\ UNCHANGED <<sem, dir, new, fd, off>>

-----------------------------------------------------------------------------
(* A reader: test1.                                                        *)

At(r, from) == pc[r] = from /\ ~Waits(sem.sem2, r)
FirstEnd == HALF
SecondEnd == 2 * HALF

open(r) ==
  /\ At(r, "open")
  /\ fd' = [fd EXCEPT ![r] = dir]
  /\ pc' = [pc EXCEPT ![r] = IF dir = "none" THEN "abort" ELSE "half1"]
  /\ UNCHANGED <<sem, dir, new, off, main>>

\* One turn of a loop: the read must return a whole block of the old text.
ReadLoop(r, from, end, to) ==
  /\ At(r, from)
  /\ IF off[r] < end
     THEN IF off[r] < Len(Blocks(fd[r])) /\ Blocks(fd[r])[off[r] + 1] = "a"
          THEN off' = [off EXCEPT ![r] = @ + 1] /\ UNCHANGED pc
          ELSE pc' = [pc EXCEPT ![r] = "abort"] /\ UNCHANGED off
     ELSE pc' = [pc EXCEPT ![r] = to] /\ UNCHANGED off
  /\ UNCHANGED <<sem, dir, new, fd, main>>
half1(r) == ReadLoop(r, "half1", FirstEnd, "v")
half2(r) == ReadLoop(r, "half2", SecondEnd, "eof")

v_sem1(r) ==
  /\ At(r, "v")
  /\ sem' = [sem EXCEPT !.sem1 = sem_v(@)] /\ pc' = [pc EXCEPT ![r] = "p"]
  /\ UNCHANGED <<dir, new, fd, off, main>>
p_sem2(r) ==
  /\ At(r, "p")
  /\ sem' = [sem EXCEPT !.sem2 = sem_p(@, r)] /\ pc' = [pc EXCEPT ![r] = "half2"]
  /\ UNCHANGED <<dir, new, fd, off, main>>
\* The read at the end returns 0, and the reader exits.
eof(r) ==
  /\ At(r, "eof")
  /\ pc' = [pc EXCEPT ![r] = IF off[r] = Len(Blocks(fd[r])) THEN "exit" ELSE "abort"]
  /\ UNCHANGED <<sem, dir, new, fd, off, main>>

test1(r) == open(r) \/ half1(r) \/ v_sem1(r) \/ p_sem2(r) \/ half2(r) \/ eof(r)

-----------------------------------------------------------------------------
(* The parent: test2 and the end of main.                                  *)

Goes(from, to) ==
  main = from /\ ~Waits(sem.sem1, "main") /\ main' = to /\ UNCHANGED <<pc, fd, off>>

p_sem1 ==
  /\ Goes("p1", "unlink")
  /\ sem' = [sem EXCEPT !.sem1 = sem_p(@, "main")] /\ UNCHANGED <<dir, new>>
unlink == Goes("unlink", "v1") /\ dir' = "none" /\ UNCHANGED <<sem, new>>

AfterV(from) ==
  CASE from = "v1" -> "v2" [] from = "v2" -> "create" [] from = "v3" -> "v4" [] from = "v4" -> "wait"
v_sem2(from) ==
  /\ Goes(from, AfterV(from))
  /\ sem' = [sem EXCEPT !.sem2 = sem_v(@)] /\ UNCHANGED <<dir, new>>
create == Goes("create", "write") /\ dir' = "new" /\ UNCHANGED <<sem, new>>
write == Goes("write", "v3") /\ new' = <<"b">> /\ UNCHANGED <<sem, dir>>

\* wait returns for a reader that has exited, and takes it away.
wait ==
  \/ /\ main = "wait"
     /\ \E r \in Readers : pc[r] = "exit" /\ pc' = [pc EXCEPT ![r] = "reaped"]
     /\ UNCHANGED <<sem, dir, new, fd, off, main>>
  \/ /\ \A r \in Readers : pc[r] = "reaped"
     /\ Goes("wait", "passed") /\ UNCHANGED <<sem, dir, new>>

test2 == p_sem1 \/ unlink \/ create \/ write \/ wait \/ \E v \in {"v1", "v2", "v3", "v4"} : v_sem2(v)

Next == fork_s \/ test2 \/ \E r \in Readers : test1(r)

\* The timer interrupt lets every process that can run go on in its turn.
Spec ==
  Init /\ [][Next]_vars /\ WF_vars(fork_s \/ test2) /\ \A r \in Readers : WF_vars(test1(r))

-----------------------------------------------------------------------------
(* Properties.                                                             *)

\* Every piece of the state is in its range.
TypeOK ==
  /\ dir \in {"old", "none", "new"} /\ new \in {<<>>, <<"b">>}
  /\ fd \in [Readers -> {"old", "none", "new"}] /\ off \in [Readers -> 0 .. 2 * HALF]
  /\ \A r \in Readers : Waits(sem.sem2, r) => pc[r] = "half2"

\* test1's assertion (line 27): whoever opens the file finds it, and the whole
\* of it.
NobodyAborts == \A r \in Readers : pc[r] # "abort"

\* A reader that opened the file in time never fails an assertion of test1,
\* whatever becomes of the name meanwhile.
OnlyLateReadersFail == \A r \in Readers : pc[r] = "abort" => fd[r] # "old"

\* What the test is for: nobody reads its second half, or the end, while the
\* file still has its name.
ReadsUnlinkedFile ==
  \A r \in Readers : pc[r] \in {"half2", "eof"} /\ ~Waits(sem.sem2, r) => dir # "old"

\* If every fork succeeded and no reader came too late, the parent sees all its
\* readers exit: nobody is left waiting for sem2.
Ended == main \in {"passed", "abort"} \/ \E r \in Readers : pc[r] = "abort"

=============================================================================
