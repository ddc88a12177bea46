------------------------------ MODULE UserTests ------------------------------
(***************************************************************************)
(* The user tests that run several processes, one of them at a time on the *)
(* machine: prog says which.  The variables are the running program's; the *)
(* ones it does not have stay at "-".  An actor is the first process       *)
(* (actor 0) or one of the others, and the timer interrupt lets each actor *)
(* that can run go on in its turn.                                         *)
(***************************************************************************)
EXTENDS Producer, FiniteSetsExt

CONSTANTS
  Progs,               \* the programs that are run
  READERS, HALF,       \* RmTest
  Cells, Start, Dest,  \* DfsTest
  WAIT_SLOTS, WAIT_N, ROUNDS,   \* WaitTest
  FORK_SLOTS, FORK_N, LOOPS     \* ForkFork

ASSUME TestsAssumption ==
  /\ READERS \in Nat /\ HALF \in Nat
  /\ IsFiniteSet(Cells) /\ Cells \subseteq Int \X Int /\ Start \in Cells /\ Dest \in Cells
  /\ WAIT_SLOTS \in Nat /\ WAIT_N \in Nat /\ WAIT_SLOTS < WAIT_N /\ ROUNDS \in Nat \ {0}
  /\ FORK_SLOTS \subseteq Nat /\ FORK_N \in Nat /\ LOOPS \in Nat

VARIABLES prog, x1, x2, x3, x4

Rm == INSTANCE RmTest WITH dir <- x1, new <- x2, fd <- x3, off <- x4
Rd == INSTANCE ReadTest WITH sems <- sem, offset <- x1, buf <- x2
D == INSTANCE DfsTest WITH procs <- pc, shown <- x1, failed <- x2
W == INSTANCE WaitTest WITH
       SLOTS <- WAIT_SLOTS, N <- WAIT_N, pc <- main, n <- x1, round <- x2, run <- x3, zombie <- x4
F == INSTANCE ForkFork WITH
       SLOTS <- FORK_SLOTS, N <- FORK_N,
       i <- x1, j <- x2, grand <- x3, failed <- x4, slots <- count

allVars == <<vars, prog, x1, x2, x3, x4>>

TestsInit ==
  /\ prog \in Progs
  /\ \/ prog = "producer" /\ Init /\ x1 = "-" /\ x2 = "-" /\ x3 = "-" /\ x4 = "-"
     \/ prog = "rmtest" /\ Rm!Init /\ count = "-"
     \/ prog = "readtest" /\ Rd!Init /\ count = "-" /\ x3 = "-" /\ x4 = "-"
     \/ prog = "dfstest" /\ D!Init /\ sem = "-" /\ main = "-" /\ count = "-" /\ x3 = "-" /\ x4 = "-"
     \/ prog = "waittest" /\ W!Init /\ sem = "-" /\ pc = "-" /\ count = "-"
     \/ prog = "forkfork" /\ F!Init /\ sem = "-"

Actors == 0 .. Max({PRODUCER_NUM + COMSUMER_NUM, READERS, 4, 2 * FORK_N})

producer(a) ==
  /\ prog = "producer" /\ (IF a = 0 THEN fork_s ELSE a \in Procs /\ Step(a))
  /\ UNCHANGED <<x1, x2, x3, x4>>
rmtest(a) ==
  /\ prog = "rmtest" /\ (IF a = 0 THEN Rm!fork_s \/ Rm!test2 ELSE a \in Rm!Readers /\ Rm!test1(a))
  /\ UNCHANGED count
readtest(a) ==
  /\ prog = "readtest" /\ (IF a = 0 THEN Rd!fork_s \/ Rd!wait ELSE a - 1 \in Rd!Children /\ Rd!test(a - 1))
  /\ UNCHANGED <<count, x3, x4>>
\* One actor: it is enough that some process goes on, as every search ends.
dfstest(a) == prog = "dfstest" /\ a = 0 /\ D!Next /\ UNCHANGED <<sem, main, count, x3, x4>>
waittest(a) ==
  /\ prog = "waittest" /\ (IF a = 0 THEN W!fork \/ W!wait ELSE a = 1 /\ W!exit)
  /\ UNCHANGED <<sem, pc, count>>
\* Behind the children come their children.
forkfork(a) ==
  /\ prog = "forkfork"
  /\ IF a = 0 THEN F!forkfork
     ELSE IF a \in F!Children THEN F!inner(a) ELSE a - FORK_N \in F!Children /\ F!inner_exit(a - FORK_N)
  /\ UNCHANGED <<sem, count>>

Act(a) ==
  /\ producer(a) \/ rmtest(a) \/ readtest(a) \/ dfstest(a) \/ waittest(a) \/ forkfork(a)
  /\ UNCHANGED prog

TestsNext == \E a \in Actors : Act(a)

TestsSpec == TestsInit /\ [][TestsNext]_allVars /\ \A a \in Actors : WF_allVars(Act(a))

-----------------------------------------------------------------------------
(* Properties: those of the programs' modules.                             *)

\* producer.c: the buffer's bounds and mutex.
Producer_Buffer == prog = "producer" => TypeOK /\ BufferBounds /\ Exclusion
\* producer.c: once main has forked them all, every producer and every consumer
\* prints again and again.  No order of the two P's that each takes makes
\* everyone wait for everyone, and nobody is passed over for ever.
Producer_NobodyStarves ==
  (prog = "producer" /\ <>(main = "spin")) => \A p \in Procs : []<>(prog = "producer" /\ pc[p] = "used")
\* rmtest.c: a reader that opened the file in time fails no assertion, and the
\* second half is read from a file without a name.
Rm_OldFileLives == prog = "rmtest" => Rm!TypeOK /\ Rm!OnlyLateReadersFail /\ Rm!ReadsUnlinkedFile
\* readtest.c: no assertion of a child fails.
Read_NobodyAborts == prog = "readtest" => Rd!NobodyAborts
\* dfstest.c: the maps that are printed, and the first process returns last.
Dfs_ShowsEveryWay == prog = "dfstest" => D!ShowsEveryWay /\ D!LastToLeave
\* waittest.c: each round finds exactly the children it forked.  forkfork.c: the
\* verdict says whether a fork failed, and nothing is left.
Forks_Accounted ==
  /\ prog = "waittest" => W!NotBad
  /\ prog = "forkfork" => F!VerdictIsRight /\ F!NothingLeft

\* Every test comes to its end: rmtest unless a fork fails or a reader is late,
\* readtest unless a fork fails, the others in any case.
TestsEnd ==
  \/ prog = "producer"
  \/ <>(CASE prog = "producer" -> FALSE
          [] prog = "rmtest" -> Rm!Ended [] prog = "readtest" -> Rd!Ended [] prog = "dfstest" -> D!Returned
          [] prog = "waittest" -> W!Passed [] prog = "forkfork" -> F!Ended)

=============================================================================
