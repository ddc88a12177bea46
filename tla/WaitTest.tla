------------------------------ MODULE WaitTest ------------------------------
(***************************************************************************)
(* user/src/phase3/waittest.c: a parent forks until the process table is   *)
(* full and then waits for every child and once more, several times over;  *)
(* the children exit at any time.  External: fork fails when no slot is    *)
(* free, a child keeps its slot until it is waited for, and wait returns   *)
(* -1 when there is no child.                                              *)
(***************************************************************************)
EXTENDS Integers

CONSTANTS
  SLOTS,    \* free slots of the process table when the test starts
  N,        \* more than SLOTS
  ROUNDS    \* of waittest in main

VARIABLES
  pc, n, round,   \* the parent
  run, zombie     \* its children

vars == <<pc, n, round, run, zombie>>

-----------------------------------------------------------------------------

Init == pc = "fork" /\ n = 0 /\ round = 1 /\ run = 0 /\ zombie = 0

fork ==
  /\ pc = "fork"
  /\ IF n < N /\ run + zombie < SLOTS
     THEN n' = n + 1 /\ run' = run + 1 /\ UNCHANGED pc
     ELSE pc' = (IF n = N THEN "bad" ELSE "wait") /\ UNCHANGED <<n, run>>
  /\ UNCHANGED <<round, zombie>>

exit == run > 0 /\ run' = run - 1 /\ zombie' = zombie + 1 /\ UNCHANGED <<pc, n, round>>

\* for (; n > 0; n--), and then the wait that must find nobody.
MoreToWait == n > 0
wait ==
  /\ pc = "wait"
  /\ IF zombie > 0
     THEN /\ zombie' = zombie - 1 /\ UNCHANGED round
          /\ n' = n - 1 /\ pc' = IF MoreToWait THEN "wait" ELSE "bad"
     ELSE /\ run = 0 /\ n' = 0 /\ round' = round + 1 /\ UNCHANGED zombie
          /\ pc' = IF MoreToWait THEN "bad" ELSE IF round = ROUNDS THEN "passed" ELSE "fork"
  /\ UNCHANGED run

Next == fork \/ exit \/ wait

-----------------------------------------------------------------------------
(* Properties.                                                             *)

\* The test finds as many children as it forked, no fewer and no more, in each
\* round and whenever they exit.
NotBad == pc # "bad"

\* It passes, and leaves the process table as it was.
Passed == pc = "passed" /\ run + zombie = 0

=============================================================================
