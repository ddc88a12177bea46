------------------------------ MODULE DfsTest ------------------------------
(***************************************************************************)
(* user/src/phase3/dfstest.c: a maze is searched by processes.  For every  *)
(* move that leads on, a process forks a child with a copy of the map; the *)
(* child marks the move and searches on, the parent counts it and waits    *)
(* for as many children in the end.  A process is named by its path, the   *)
(* moves that led to it.  Any fork may fail; the parent does not look.     *)
(***************************************************************************)
EXTENDS Integers, Sequences, FiniteSets

CONSTANTS
  Cells,       \* <<x, y>> of the places that are no wall
  Start, Dest  \* dfs_test's place, and the one with '+'

\* moves[]: the changes of x and y, and the characters.
moves == << <<0, 1>>, <<1, 0>>, <<0, -1>>, <<-1, 0>> >>
Ch == <<">", "v", "<", "^">>
Step(c, k) == <<c[1] + moves[k][1], c[2] + moves[k][2]>>

VARIABLES
  procs,   \* the processes that exist, by path
  shown,   \* the maps that display has printed
  failed   \* history: a fork has failed

vars == <<procs, shown, failed>>

-----------------------------------------------------------------------------
(* Variants of the definitions below, each with one plausible mistake.     *)

\* while (--nfork): a child too few is waited for.
WaitsOneLess(q) == q.nfork - 1

-----------------------------------------------------------------------------

\* A place of a map holds '+', '.' or the move made there.
Map0 == [c \in Cells |-> IF c = Dest THEN "+" ELSE "."]

Enters(at, map) == [at |-> at, map |-> map, m |-> 1, nfork |-> 0, state |-> "loop"]
Init == procs = [p \in {<<>>} |-> Enters(Start, Map0)] /\ shown = <<>> /\ failed = FALSE

Children(p) == {c \in DOMAIN procs : Len(c) = Len(p) + 1 /\ SubSeq(c, 1, Len(p)) = p}

\* The place that a child of q marks in its copy.
Marked(q) == q.at

display(p) ==
  LET q == procs[p] IN
  /\ q.state = "loop" /\ q.map[q.at] = "+"
  /\ shown' = Append(shown, q.map)
  /\ procs' = [procs EXCEPT ![p].state = "zombie"]
  /\ UNCHANGED failed

\* A turn of the loop over moves.
move(p) ==
  LET q == procs[p]
      to == Step(q.at, q.m)
      child == Append(p, q.m)
      Counted == [procs EXCEPT ![p] = [q EXCEPT !.m = @ + 1, !.nfork = @ + 1]]
  IN
  /\ q.state = "loop" /\ q.map[q.at] # "+" /\ q.m <= Len(moves)
  /\ IF to \in Cells /\ q.map[to] \in {"+", "."}
     THEN \/ /\ procs' = [d \in DOMAIN procs \cup {child} |->
                            IF d = child THEN Enters(to, [q.map EXCEPT ![Marked(q)] = Ch[q.m]])
                            ELSE Counted[d]]
             /\ UNCHANGED failed
          \/ procs' = Counted /\ failed' = TRUE
     ELSE procs' = [procs EXCEPT ![p].m = @ + 1] /\ UNCHANGED failed
  /\ UNCHANGED shown

\* What is left to wait for when the loop is done.
ToWait(q) == q.nfork
enter_wait(p) ==
  /\ procs[p].state = "loop" /\ procs[p].m > Len(moves)
  /\ procs' = [procs EXCEPT ![p].state = "wait", ![p].nfork = ToWait(procs[p])]
  /\ UNCHANGED <<shown, failed>>

\* External: wait() takes away a child that has exited, waits while all of them
\* run, and returns at once if there is none.
wait(p) ==
  /\ procs[p].state = "wait" /\ procs[p].nfork > 0
  /\ \/ \E c \in Children(p) :
          /\ procs[c].state = "zombie"
          /\ procs' = [d \in DOMAIN procs \ {c} |->
                         IF d = p THEN [procs[p] EXCEPT !.nfork = @ - 1] ELSE procs[d]]
     \/ Children(p) = {} /\ procs' = [procs EXCEPT ![p].nfork = @ - 1]
  /\ UNCHANGED <<shown, failed>>

exit(p) ==
  /\ procs[p].state = "wait" /\ procs[p].nfork = 0
  /\ procs' = [procs EXCEPT ![p].state = "zombie"]
  /\ UNCHANGED <<shown, failed>>

dfs(p) == display(p) \/ move(p) \/ enter_wait(p) \/ wait(p) \/ exit(p)

Next == \E p \in DOMAIN procs : dfs(p)

-----------------------------------------------------------------------------
(* Properties.                                                             *)

\* The ways from Start to Dest that visit no place twice.
Ways ==
  {w \in UNION {[1 .. n -> Cells] : n \in 1 .. Cardinality(Cells)} :
     /\ w[1] = Start /\ w[Len(w)] = Dest
     /\ \A i, j \in 1 .. Len(w) : w[i] = w[j] => i = j
     /\ \A i \in 1 .. Len(w) - 1 : \E k \in 1 .. 4 : w[i + 1] = Step(w[i], k)}
\* The map with a way drawn into it.
Drawn(w) ==
  [c \in Cells |-> IF c = Dest THEN "+"
                   ELSE IF \E i \in 1 .. Len(w) : w[i] = c
                        THEN Ch[CHOOSE k \in 1 .. 4 :
                                    \E i \in 1 .. Len(w) - 1 : w[i] = c /\ w[i + 1] = Step(c, k)]
                        ELSE "."]

Returned == <<>> \in DOMAIN procs /\ procs[<<>>].state = "zombie"

\* No order of the processes prints a map that is no way through the maze, or
\* one of them twice; when the first process returns and no fork failed, all
\* the ways have been printed.
ShowsEveryWay ==
  /\ \A i \in 1 .. Len(shown) : \E w \in Ways : shown[i] = Drawn(w)
  /\ \A i, j \in 1 .. Len(shown) : shown[i] = shown[j] => i = j
  /\ Returned /\ ~failed => Len(shown) = Cardinality(Ways)

\* A search ends after the searches it started, also when some fork failed and
\* was counted all the same: nothing of the test runs on when it returns.
LastToLeave == Returned => DOMAIN procs = {<<>>}

=============================================================================
