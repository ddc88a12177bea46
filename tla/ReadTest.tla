------------------------------ MODULE ReadTest ------------------------------
(***************************************************************************)
(* user/src/phase5/readtest.c: four children share one open file, and so   *)
(* one offset, and take turns on three semaphores; the last one seeks in   *)
(* it and reads through a second descriptor.  A step is one system call    *)
(* with the assertions on its result; abort() spins.  A character of       *)
(* words.txt is its place in the file.                                     *)
(***************************************************************************)
EXTENDS Sem, FiniteSets

Children == 0 .. 3
SIZE == 39

VARIABLES
  sems,     \* sems[0 .. 2]
  offset,   \* of the open file that all descriptors share
  buf,      \* each child's copy of buf, up to its first zero
  pc, main

vars == <<sems, offset, buf, pc, main>>

-----------------------------------------------------------------------------
(* Variants of the definitions below, each with one plausible mistake.     *)

\* Everyone waits for the first child.
WaitsForFirst(i) == 0

-----------------------------------------------------------------------------

Text(from, n) == [k \in 1 .. n |-> from + k]
\* "hello world\n", "nihao shijie\n" and "ohayou seikai\n".
ans == [i \in 0 .. 2 |-> CASE i = 0 -> Text(0, 12) [] i = 1 -> Text(12, 13) [] i = 2 -> Text(25, 14)]

Init ==
  /\ sems = [i \in 0 .. 2 |-> sem_open(0)]
  /\ offset = 0 /\ buf = [i \in Children |-> <<>>]
  /\ pc = [i \in Children |-> "none"] /\ main = "fork"

Forked == {i \in Children : pc[i] # "none"}

fork_s ==
  /\ main = "fork"
  /\ \/ /\ Forked # Children
        /\ pc' = [pc EXCEPT ![Cardinality(Forked)] = "p"] /\ main' = "fork"
     \/ Forked # Children /\ main' = "abort" /\ UNCHANGED pc
     \/ Forked = Children /\ main' = "wait" /\ UNCHANGED pc
  /\ UNCHANGED <<sems, offset, buf>>

\* External: read(fd, buf, n) from the shared offset, over what buf holds.
Got(n) == Text(offset, IF n <= SIZE - offset THEN n ELSE SIZE - offset)
Over(i, got) == got \o SubSeq(buf[i], Len(got) + 1, Len(buf[i]))

At(i, from) == pc[i] = from /\ \A s \in 0 .. 2 : ~Waits(sems[s], i)

WaitsFor(i) == i - 1
Signals(i) == i
turn(i) ==
  /\ At(i, "p")
  /\ sems' = IF i > 0 THEN [sems EXCEPT ![WaitsFor(i)] = sem_p(@, i)] ELSE sems
  /\ pc' = [pc EXCEPT ![i] = IF i < 3 THEN "read" ELSE "eof"]
  /\ UNCHANGED <<offset, buf, main>>

\* read must return all of the answer, and buf must then hold no more.
Reads(i, a, from, to) ==
  /\ At(i, from)
  /\ offset' = offset + Len(Got(Len(a)))
  /\ buf' = [buf EXCEPT ![i] = Over(i, Got(Len(a)))]
  /\ pc' = [pc EXCEPT ![i] = IF Len(Got(Len(a))) = Len(a) /\ buf'[i] = a THEN to ELSE "abort"]
  /\ UNCHANGED <<sems, main>>
read(i) == i < 3 /\ Reads(i, ans[i], "read", "v")
signal(i) ==
  /\ i < 3 /\ At(i, "v")
  /\ sems' = [sems EXCEPT ![Signals(i)] = sem_v(@)] /\ pc' = [pc EXCEPT ![i] = "exit"]
  /\ UNCHANGED <<offset, buf, main>>

\* lseek must return want.
Seeks(i, ok, off, want, from, to) ==
  /\ At(i, from) /\ offset' = off
  /\ pc' = [pc EXCEPT ![i] = IF ok /\ off = want THEN to ELSE "abort"]
  /\ UNCHANGED <<sems, buf, main>>
SeekEnd == SIZE - 14
read_eof(i) == Seeks(i, Got(512) = <<>>, offset, offset, "eof", "cur")
seek_cur(i) == Seeks(i, TRUE, offset, 39, "cur", "set")
seek_set(i) == Seeks(i, TRUE, 12, 12, "set", "dup1")
read_dup1(i) == Reads(i, ans[1], "dup1", "end")
seek_end(i) == Seeks(i, TRUE, SeekEnd, 25, "end", "dup2")
read_dup2(i) == Reads(i, ans[2], "dup2", "exit")

test(i) ==
  \/ turn(i) \/ read(i) \/ signal(i)
  \/ read_eof(i) \/ seek_cur(i) \/ seek_set(i) \/ read_dup1(i) \/ seek_end(i) \/ read_dup2(i)

wait ==
  /\ main = "wait"
  /\ \/ /\ \E i \in Children : pc[i] = "exit" /\ pc' = [pc EXCEPT ![i] = "reaped"]
        /\ main' = "wait"
     \/ (\A i \in Children : pc[i] = "reaped") /\ main' = "passed" /\ UNCHANGED pc
  /\ UNCHANGED <<sems, offset, buf>>

Next == fork_s \/ wait \/ \E i \in Children : test(i)

-----------------------------------------------------------------------------
(* Properties.                                                             *)

\* No assertion of a child fails in any order of the processes: the turns keep
\* every read at the offset where its answer stands.
NobodyAborts == \A i \in Children : pc[i] # "abort"

\* Unless a fork fails, the test passes.
Ended == main \in {"passed", "abort"}

=============================================================================
