------------------------------ MODULE ShellRun ------------------------------
(***************************************************************************)
(* user/src/phase6/sh.c: runcmd and the loop of main, as processes that    *)
(* run side by side.  A process interprets a command; it forks, plumbs     *)
(* pipes by closing and duplicating descriptors, waits and exits.  One     *)
(* step is one fork, one wait, or the descriptor calls between two of them.*)
(*                                                                         *)
(* The system calls are the kernel's, modelled from their use here: open,  *)
(* dup and pipe take the lowest free descriptors, a fork copies them, a    *)
(* pipe that is empty blocks its reader while a writer has it open, wait   *)
(* returns a dead child.  The programs are a writer (one byte to 1) and a  *)
(* filter (copies 0 to 1 until the end of its input).                      *)
(***************************************************************************)
EXTENDS Integers, Sequences, FiniteSets, FiniteSetsExt

CONSTANTS
  Commands,   \* the command trees that parsecmd may return
  Trees,      \* these trees and their parts
  Files,      \* the files that they redirect to
  MaxProc,    \* bound: process slots; fork fails when all are taken
  MaxPipe,    \* bound: pipes
  MaxFd,      \* bound: the last descriptor
  MaxCmds,    \* bound: lines typed
  Missing     \* files that cannot be opened for reading

Pid == 1 .. MaxProc
Shell == 1
Fd == 0 .. MaxFd
PipeId == 1 .. MaxPipe

\* What a descriptor refers to.
None == <<"none", 0>>
Tty == <<"tty", 0>>
File(f) == <<"file", f>>
R(k) == <<"r", k>>
W(k) == <<"w", k>>

\* Commands.
execcmd(prog) == [type |-> "EXEC", prog |-> prog]
redircmd(c, fd, f) == [type |-> "REDIR", cmd |-> c, fd |-> fd, file |-> f]
pipecmd(l, r) == [type |-> "PIPE", left |-> l, right |-> r]
listcmd(l, r) == [type |-> "LIST", left |-> l, right |-> r]
backcmd(c) == [type |-> "BACK", cmd |-> c]
NoCmd == [type |-> "NONE"]

\* exec of no arguments, of a program that does not exist, and of the two programs;
\* every part of a tree is one (the types that a struct cmd may have).
Programs == {"nothing", "missing", "writer", "filter"}
IsTree(c) ==
  \/ \E prog \in Programs : c = execcmd(prog)
  \/ \E t \in Trees, d \in {0, 1}, f \in Files : c = redircmd(t, d, f)
  \/ \E l, r \in Trees : c = pipecmd(l, r) \/ c = listcmd(l, r)
  \/ \E t \in Trees : c = backcmd(t)

ASSUME ShellRunAssumption ==
  /\ {MaxProc, MaxPipe, MaxFd, MaxCmds} \subseteq Nat /\ MaxProc > 0 /\ MaxFd >= 2
  /\ Commands \subseteq Trees /\ \A c \in Trees : IsTree(c)

VARIABLES
  proc,     \* the processes
  data,     \* bytes in each pipe
  typed,    \* lines typed
  failed    \* history: a fork or a pipe has failed

vars == <<proc, data, typed, failed>>

\* env is history: what 0 and 1 must be for the command, by its place in the
\* tree.  bg: started by a BACK command.  p: the descriptors of the pipe.
Free == [st |-> "free", parent |-> 0, fds |-> [d \in Fd |-> None], pc |-> "run",
         cmd |-> NoCmd, p |-> <<0, 0>>, env |-> [in |-> Tty, out |-> Tty], bg |-> FALSE]

Live(q) == proc[q].st = "live"
Kids(q) == {k \in Pid : proc[k].st # "free" /\ proc[k].parent = q}

-----------------------------------------------------------------------------
(* Descriptors.                                                            *)

Close(fds, d) == [fds EXCEPT ![d] = None]
FreeFds(fds) == {d \in Fd : fds[d] = None}
Lowest(fds) == Min(FreeFds(fds))
Dup(fds, d) == [fds EXCEPT ![Lowest(fds)] = fds[d]]
Held(P, obj) == \E q \in Pid : P[q].st = "live" /\ \E d \in Fd : P[q].fds[d] = obj
FreePipes == {k \in PipeId : ~Held(proc, R(k)) /\ ~Held(proc, W(k))}

-----------------------------------------------------------------------------
(* Variants of the definitions below, each with one plausible mistake.     *)

\* The left side duplicates before it closes.
LeftDupFirst(fds, p) == Close(Close(Close(Dup(fds, p[2]), 1), p[1]), p[2])
\* The process of a PIPE command keeps the write end open.
ParentKeepsWriter(fds, p) == Close(fds, p[1])
\* The process of a PIPE command waits for one of its children only.
PipeWaitsOnce == "exit"

-----------------------------------------------------------------------------

Init ==
  /\ proc = [q \in Pid |->
       IF q = Shell
       THEN [Free EXCEPT !.st = "live", !.pc = "prompt",
                         !.fds = [d \in Fd |-> IF d <= 2 THEN Tty ELSE None]]
       ELSE Free]
  /\ data = [k \in PipeId |-> 0]
  /\ typed = 0 /\ failed = FALSE

\* exit: the descriptors are closed, the parent may wait for the process, and its
\* own children are nobody's.
Exited(P, q) ==
  [k \in Pid |->
     IF k = q THEN IF P[q].parent = 0 THEN Free
                   ELSE [Free EXCEPT !.st = "zombie", !.parent = P[q].parent]
     ELSE IF P[k].parent = q
     THEN IF P[k].st = "zombie" THEN Free ELSE [P[k] EXCEPT !.parent = 0]
     ELSE P[k]]

exit(q) == proc' = Exited(proc, q) /\ UNCHANGED <<data, typed, failed>>

\* fork1: the child is a copy that goes on at pc with command c; the parent goes
\* on at next.  When there is no process slot it panics.
fork1(q, child, next) ==
  LET slots == {k \in Pid : proc[k].st = "free"} IN
  IF slots = {}
  THEN proc' = Exited(proc, q) /\ failed' = TRUE /\ UNCHANGED <<data, typed>>
  ELSE /\ proc' = [proc EXCEPT ![Min(slots)] = [child EXCEPT !.parent = q],
                               ![q] = [@ EXCEPT !.pc = next]]
       /\ UNCHANGED <<data, typed, failed>>

\* wait(0): a dead child is reaped.  (The shell never waits without children; if
\* it did, it would be stuck here.)
wait(q, then) ==
  \E k \in Kids(q) :
    /\ proc[k].st = "zombie"
    /\ proc' = [proc EXCEPT ![k] = Free, ![q] = then]
    /\ UNCHANGED <<data, typed, failed>>

At(q, pc) == Live(q) /\ proc[q].pc = pc
Runs(q, type) == At(q, "run") /\ proc[q].cmd.type = type

\* main: a line has been read and parsed; a child runs it.
getcmd(c) ==
  /\ At(Shell, "prompt") /\ typed < MaxCmds
  /\ LET P == [proc EXCEPT ![Shell].pc = "shell_wait"]
         slots == {k \in Pid : proc[k].st = "free"}
     IN  IF slots = {}
         THEN proc' = Exited(proc, Shell) /\ failed' = TRUE
         ELSE /\ proc' = [P EXCEPT ![Min(slots)] =
                            [proc[Shell] EXCEPT !.parent = Shell, !.pc = "run", !.cmd = c]]
              /\ UNCHANGED failed
  /\ typed' = typed + 1
  /\ UNCHANGED data
main_wait ==
  /\ At(Shell, "shell_wait")
  /\ wait(Shell, [proc[Shell] EXCEPT !.pc = "prompt"])

\* EXEC: nothing to execute, an exec that fails, or the program.
run_exec_fails(q) == Runs(q, "EXEC") /\ proc[q].cmd.prog \in {"nothing", "missing"} /\ exit(q)
run_exec(q) ==
  /\ Runs(q, "EXEC") /\ proc[q].cmd.prog \in {"writer", "filter"}
  /\ proc' = [proc EXCEPT ![q].pc = IF proc[q].cmd.prog = "writer" THEN "put" ELSE "get"]
  /\ UNCHANGED <<data, typed, failed>>

\* REDIR: close, open and lseek, and on to the command inside.  An open fails when
\* there is no file to read, and may fail for reasons of the kernel's own.
run_redir(q) ==
  /\ Runs(q, "REDIR")
  /\ LET c == proc[q].cmd
         fds == Close(proc[q].fds, c.fd)
     IN  \/ exit(q)
         \/ /\ ~(c.fd = 0 /\ c.file \in Missing)
            /\ proc' = [proc EXCEPT
                   ![q].fds = [fds EXCEPT ![Lowest(fds)] = File(c.file)],
                   ![q].cmd = c.cmd,
                   ![q].env = IF c.fd = 0 THEN [@ EXCEPT !.in = File(c.file)]
                              ELSE [@ EXCEPT !.out = File(c.file)]]
            /\ UNCHANGED <<data, typed, failed>>

run_list(q) ==
  Runs(q, "LIST") /\ fork1(q, [proc[q] EXCEPT !.cmd = @.left], "list_wait")
list_wait(q) ==
  At(q, "list_wait") /\ wait(q, [proc[q] EXCEPT !.pc = "run", !.cmd = @.right])

\* PIPE: the pipe takes the two lowest descriptors.
run_pipe(q) ==
  /\ Runs(q, "PIPE")
  /\ IF FreePipes = {} \/ Cardinality(FreeFds(proc[q].fds)) < 2
     THEN proc' = Exited(proc, q) /\ failed' = TRUE /\ UNCHANGED <<data, typed>>
     ELSE LET k == Min(FreePipes)
              p0 == Lowest(proc[q].fds)
              fds == [proc[q].fds EXCEPT ![p0] = R(k)]
              p1 == Lowest(fds)
          IN  /\ proc' = [proc EXCEPT ![q].fds = [fds EXCEPT ![p1] = W(k)],
                                      ![q].p = <<p0, p1>>, ![q].pc = "fork_left"]
              /\ data' = [data EXCEPT ![k] = 0]
              /\ UNCHANGED <<typed, failed>>
fork_left(q) ==
  At(q, "fork_left") /\ fork1(q, [proc[q] EXCEPT !.pc = "left"], "fork_right")
fork_right(q) ==
  At(q, "fork_right") /\ fork1(q, [proc[q] EXCEPT !.pc = "right"], "close_pipe")

\* The children's descriptors (close, dup, close, close) and the parent's.
LeftFds(fds, p) == Close(Close(Dup(Close(fds, 1), p[2]), p[1]), p[2])
RightFds(fds, p) == Close(Close(Dup(Close(fds, 0), p[1]), p[1]), p[2])
ParentFds(fds, p) == Close(Close(fds, p[1]), p[2])
left(q) ==
  /\ At(q, "left")
  /\ proc' = [proc EXCEPT ![q] =
       [proc[q] EXCEPT !.fds = LeftFds(@, proc[q].p), !.pc = "run", !.cmd = @.left,
                 !.env.out = proc[q].fds[proc[q].p[2]], !.p = <<0, 0>>]]
  /\ UNCHANGED <<data, typed, failed>>
right(q) ==
  /\ At(q, "right")
  /\ proc' = [proc EXCEPT ![q] =
       [proc[q] EXCEPT !.fds = RightFds(@, proc[q].p), !.pc = "run", !.cmd = @.right,
                 !.env.in = proc[q].fds[proc[q].p[1]], !.p = <<0, 0>>]]
  /\ UNCHANGED <<data, typed, failed>>
close_pipe(q) ==
  /\ At(q, "close_pipe")
  /\ proc' = [proc EXCEPT ![q].fds = ParentFds(@, proc[q].p),
                          ![q].pc = "pipe_wait1"]
  /\ UNCHANGED <<data, typed, failed>>
AfterFirstWait == "pipe_wait2"
pipe_wait1(q) ==
  At(q, "pipe_wait1") /\ wait(q, [proc[q] EXCEPT !.pc = AfterFirstWait])
pipe_wait2(q) == At(q, "pipe_wait2") /\ wait(q, [proc[q] EXCEPT !.pc = "exit"])

\* BACK: the child runs the command, the process exits.
run_back(q) ==
  /\ Runs(q, "BACK")
  /\ fork1(q, [proc[q] EXCEPT !.cmd = @.cmd, !.bg = TRUE], "exit")

run_exit(q) == At(q, "exit") /\ exit(q)

\* The programs.  A byte goes to the pipe when there is room, is lost when nobody
\* can read it, and otherwise goes to a file or the terminal.
put(q) ==
  /\ At(q, "put")
  /\ LET out == proc[q].fds[1]
         again == IF proc[q].cmd.prog = "filter" THEN "get" ELSE "exit"
     IN  IF out[1] = "w"
         THEN \/ /\ data[out[2]] = 0 /\ Held(proc, R(out[2]))
                 /\ data' = [data EXCEPT ![out[2]] = 1]
                 /\ proc' = [proc EXCEPT ![q].pc = again]
              \/ /\ ~Held(proc, R(out[2]))
                 /\ proc' = [proc EXCEPT ![q].pc = "exit"] /\ UNCHANGED data
         ELSE proc' = [proc EXCEPT ![q].pc = again] /\ UNCHANGED data
  /\ UNCHANGED <<typed, failed>>
get(q) ==
  /\ At(q, "get")
  /\ LET in == proc[q].fds[0]
     IN  \/ /\ in[1] = "r" /\ data[in[2]] = 1
            /\ data' = [data EXCEPT ![in[2]] = 0]
            /\ proc' = [proc EXCEPT ![q].pc = "put"]
         \/ /\ in[1] = "r" => data[in[2]] = 0 /\ ~Held(proc, W(in[2]))
            /\ proc' = [proc EXCEPT ![q].pc = "exit"] /\ UNCHANGED data
  /\ UNCHANGED <<typed, failed>>

Step(q) ==
  \/ run_exec(q) \/ run_exec_fails(q) \/ run_redir(q) \/ run_exit(q)
  \/ run_list(q) \/ list_wait(q)
  \/ run_pipe(q) \/ fork_left(q) \/ fork_right(q) \/ left(q) \/ right(q)
  \/ close_pipe(q) \/ pipe_wait1(q) \/ pipe_wait2(q)
  \/ run_back(q)
  \/ put(q) \/ get(q)

Next ==
  \/ \E c \in Commands : getcmd(c)
  \/ main_wait
  \/ \E q \in Pid : Step(q)

\* Every process that can go on is scheduled again.
Fairness == WF_vars(main_wait) /\ \A q \in Pid : WF_vars(Step(q))
Spec == Init /\ [][Next]_vars /\ Fairness

-----------------------------------------------------------------------------
(* Properties.                                                             *)

\* A process has a command to run, a parent that is alive or none, and room in
\* its table for what it opens.
TypeOK ==
  \A q \in Pid :
    /\ proc[q].st \in {"free", "live", "zombie"}
    /\ proc[q].parent \in 0 .. MaxProc
    /\ proc[q].parent # 0 => Live(proc[q].parent)
    /\ \A d \in Fd : proc[q].fds[d][1] \in {"none", "tty", "file", "r", "w"}

\* A program starts with exactly three descriptors: its input and its output are
\* what its place in the command says, whatever pipes and redirections its
\* ancestors went through, and no end of a pipe is left open behind 2.
Plumbing ==
  /\ TypeOK
  /\ \A q \in Pid : At(q, "put") \/ At(q, "get") =>
       /\ proc[q].fds[0] = proc[q].env.in
       /\ proc[q].fds[1] = proc[q].env.out
       /\ proc[q].fds[2] = Tty
       /\ \A d \in Fd : d > 2 => proc[q].fds[d] = None

\* When the shell prompts again, every process of the line has ended but those
\* of a BACK command, and the shell has no child left.  (When a fork fails in the
\* middle of a pipe, its left side is abandoned.)
Foreground ==
  At(Shell, "prompt") =>
    /\ Kids(Shell) = {}
    /\ failed \/ \A q \in Pid \ {Shell} : Live(q) => proc[q].bg

\* The shell comes back to its prompt after every line that it has forked a child
\* for, and when no more lines are typed every process ends: no pipeline waits for
\* an end of input that a forgotten descriptor keeps away, no process waits for a
\* child that is not its own, and the left side of a pipe, which is abandoned when
\* the second fork fails, does not wait for a reader that never comes.
PromptReturns ==
  /\ At(Shell, "shell_wait") ~> At(Shell, "prompt")
  /\ typed = MaxCmds ~> \A q \in Pid \ {Shell} : ~Live(q)

=============================================================================
