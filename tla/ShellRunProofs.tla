--------------------------- MODULE ShellRunProofs ---------------------------
(***************************************************************************)
(* Proofs about the processes of the shell, for every command tree, number *)
(* of processes, of pipes and of descriptors.                              *)
(***************************************************************************)
EXTENDS ShellRun, FiniteSetTheorems, WellFoundedInduction, TLAPS

PCs == {"prompt", "shell_wait", "run", "list_wait", "fork_left", "fork_right", "left", "right",
        "close_pipe", "pipe_wait1", "pipe_wait2", "exit", "put", "get"}
\* Where a process has a pipe in 3 and 4; where main is; where nothing was forked;
\* where one child, and where two, are to be waited for.
Piping == {"fork_left", "fork_right", "left", "right", "close_pipe"}
Main == {"prompt", "shell_wait"}
Childless == {"prompt", "run", "fork_left", "left", "right", "put", "get"}
OneChild == {"shell_wait", "list_wait", "fork_right", "pipe_wait2"}
TwoChildren == {"close_pipe", "pipe_wait1"}

Objs == {None, Tty} \cup {File(n) : n \in Files} \cup {R(k) : k \in PipeId} \cup {W(k) : k \in PipeId}
Recs == [st : {"free", "live", "zombie"}, parent : 0 .. MaxProc, fds : [Fd -> Objs], pc : PCs,
         cmd : Trees \cup {NoCmd}, p : Fd \X Fd, env : [in : Objs, out : Objs], bg : BOOLEAN]

\* The descriptors of a process: the first three as its place demands, the pipe that
\* it is about to hand to its children, nothing else.
Table(r) ==
  /\ r.env.in # None /\ r.env.out # None
  /\ r.fds[0] = r.env.in /\ r.fds[1] = r.env.out /\ r.fds[2] = Tty
  /\ r.pc \notin Piping => \A d \in Fd : d > 2 => r.fds[d] = None
  /\ r.pc \in Piping => /\ MaxFd >= 4 /\ r.p = <<3, 4>> /\ r.fds[3] # None /\ r.fds[4] # None
                        /\ \A d \in Fd : d > 4 => r.fds[d] = None
Work(r) ==
  /\ r.pc \notin Main => r.cmd \in Trees
  /\ r.pc \in Piping => r.cmd.type = "PIPE"
  /\ r.pc = "list_wait" => r.cmd.type = "LIST"
Good(r) ==
  /\ r \in Recs
  /\ r.st = "free" => r.parent = 0
  /\ r.st = "live" => Table(r) /\ Work(r)

Procs == proc \in [Pid -> Recs] /\ \A q \in Pid : Good(proc[q])
Parents == \A q \in Pid : proc[q].parent # 0 => Live(proc[q].parent)
\* No process is its own ancestor.
Acyclic == \A S \in SUBSET Pid : S # {} => \E q \in S : proc[q].parent \notin S
\* A process has the children that its place in runcmd or main says.
Waits(K, pc) ==
  /\ pc \in Childless => K = {}
  /\ pc \in OneChild => \E j : K = {j}
  /\ pc \in TwoChildren => \E j, k : j # k /\ K = {j, k}
Families ==
  \A q \in Pid : Live(q) =>
    /\ Waits(Kids(q), proc[q].pc)
    /\ proc[q].pc = "exit" => \A k \in Kids(q) : Live(k) => proc[k].bg
ShellOK ==
  /\ \A q \in Pid : Live(q) /\ proc[q].pc \in Main => q = Shell
  /\ ~failed => Live(Shell) /\ proc[Shell].pc \in Main
\* A process in the foreground has a parent, which is the shell or in the foreground.
Fore ==
  ~failed => \A q \in Pid \ {Shell} : Live(q) /\ ~proc[q].bg =>
               /\ proc[q].parent # 0
               /\ proc[q].parent = Shell \/ ~proc[proc[q].parent].bg
ShInv == Procs /\ Parents /\ Acyclic /\ Families /\ ShellOK /\ Fore

-----------------------------------------------------------------------------
(* What one step does to the processes.                                    *)

LEMMA Pids == Shell \in Pid /\ 0 \notin Pid /\ Pid \subseteq 0 .. MaxProc
BY ShellRunAssumption DEF Pid, Shell

\* Losing a parent makes no circle.
LEMMA AcyclicLess ==
  ASSUME Acyclic, \A x \in Pid : proc'[x].parent = proc[x].parent \/ proc'[x].parent = 0
  PROVE  Acyclic'
<1> SUFFICES ASSUME NEW S \in SUBSET Pid, S # {} PROVE \E q \in S : proc'[q].parent \notin S
  BY DEF Acyclic
<1>1. PICK q \in S : proc[q].parent \notin S
  BY DEF Acyclic
<1> QED BY <1>1, Pids

\* The state of main, and the foreground, when every process that is alive afterwards
\* was, and kept its parent.
LEMMA ForeLess ==
  ASSUME Fore, failed' = failed,
         \A x \in Pid : Live(x)' => Live(x) /\ proc'[x].bg = proc[x].bg,
         \A x \in Pid : Live(x)' /\ ~proc[x].bg => proc'[x].parent = proc[x].parent,
         \A x \in Pid : proc[x].parent # 0 /\ Live(x)' /\ ~proc[x].bg => proc'[proc[x].parent].st = "live",
         Parents, Procs
  PROVE  Fore'
<1> SUFFICES ASSUME ~failed', NEW q \in Pid \ {Shell}, Live(q)', ~proc'[q].bg
             PROVE  proc'[q].parent # 0 /\ (proc'[q].parent = Shell \/ ~proc'[proc'[q].parent].bg)
  BY DEF Fore
<1>1. Live(q) /\ ~proc[q].bg /\ proc'[q].parent = proc[q].parent
  OBVIOUS
<1>2. proc[q].parent # 0 /\ (proc[q].parent = Shell \/ ~proc[proc[q].parent].bg)
  BY <1>1 DEF Fore
<1>3. proc[q].parent \in Pid
  BY <1>2 DEF Procs, Recs, Pid
<1> QED BY <1>1, <1>2, <1>3 DEF Live

\* A process goes on by itself.
LEMMA LocalOK ==
  ASSUME ShInv, NEW q \in Pid, Live(q), NEW new, Good(new), new.st = "live",
         new.parent = proc[q].parent, new.bg = proc[q].bg,
         Waits(Kids(q), new.pc), new.pc = "exit" => Kids(q) = {},
         new.pc \in Main <=> proc[q].pc \in Main,
         proc' = [proc EXCEPT ![q] = new], failed' = failed
  PROVE  ShInv'
<1> USE DEF ShInv
<1>1. /\ proc' \in [Pid -> Recs] /\ proc'[q] = new
      /\ \A x \in Pid : x # q => proc'[x] = proc[x]
  BY DEF Procs, Good
<1>2. Procs'
  BY <1>1 DEF Procs
<1>3. \A x \in Pid : /\ proc'[x].st = proc[x].st /\ proc'[x].parent = proc[x].parent
                     /\ proc'[x].bg = proc[x].bg
  BY <1>1 DEF Live
<1>4. \A x \in Pid : Live(x)' <=> Live(x)
  BY <1>3 DEF Live
<1>5. \A x : Kids(x)' = Kids(x)
  BY <1>3 DEF Kids
<1>6. \A x \in Pid : proc[x].parent # 0 => proc[x].parent \in Pid
  BY DEF Procs, Recs, Pid
<1>7. Parents'
  BY <1>3, <1>4, <1>6 DEF Parents
<1>8. Acyclic'
  BY <1>3, AcyclicLess
<1>9. Families'
  <2> SUFFICES ASSUME NEW x \in Pid, Live(x)'
               PROVE  /\ Waits(Kids(x), proc[x].pc)'
                      /\ proc'[x].pc = "exit" => \A k \in Kids(x)' : Live(k)' => proc'[k].bg
    BY DEF Families
  <2>1. Live(x) /\ Kids(x) \subseteq Pid
    BY <1>4 DEF Kids
  <2>2. Waits(Kids(x), proc'[x].pc)
    BY <1>1, <2>1 DEF Families
  <2>3. Waits(Kids(x), proc[x].pc)'
    BY <1>5, <2>2 DEF Waits
  <2>4. ASSUME proc'[x].pc = "exit", NEW k \in Kids(x), Live(k)' PROVE proc'[k].bg
    <3>1. k \in Pid /\ Live(k) /\ x # q /\ proc[x].pc = "exit"
      BY <1>1, <1>4, <2>1, <2>4
    <3>2. proc[k].bg
      BY <2>1, <2>4, <3>1 DEF Families
    <3> QED BY <1>3, <3>1, <3>2
  <2> QED BY <1>5, <2>3, <2>4
<1>10. ShellOK'
  BY <1>1, <1>4, Pids DEF ShellOK
<1>11. Fore'
  <2>1. \A x \in Pid : proc[x].parent # 0 => proc'[proc[x].parent].st = "live"
    BY <1>4, <1>6 DEF Parents, Live
  <2> QED BY <1>3, <1>4, <2>1, ForeLess
<1> QED BY <1>2, <1>7, <1>8, <1>9, <1>10, <1>11

LEMMA FreeIs ==
  /\ Free \in Recs /\ Good(Free) /\ Free.st = "free" /\ Free.parent = 0
<1>1. 0 \in Fd /\ None \in Objs /\ Tty \in Objs /\ 0 \in 0 .. MaxProc
  BY ShellRunAssumption DEF Fd, Objs
<1>2. [d \in Fd |-> None] \in [Fd -> Objs] /\ <<0, 0>> \in Fd \X Fd /\ "run" \in PCs
      /\ [in |-> Tty, out |-> Tty] \in [in : Objs, out : Objs]
  BY <1>1 DEF PCs
<1>3. Free \in Recs /\ Free.st = "free" /\ Free.parent = 0
  <2> HIDE DEF None, Tty
  <2> QED BY <1>1, <1>2 DEF Free, Recs
<1> QED BY <1>3 DEF Good

\* A process waits for a child, and goes on.
LEMMA ReapOK ==
  ASSUME ShInv, NEW q \in Pid, Live(q), NEW k \in Kids(q), proc[k].st = "zombie",
         NEW new, Good(new), new.st = "live",
         new.parent = proc[q].parent, new.bg = proc[q].bg,
         Waits(Kids(q) \ {k}, new.pc), new.pc = "exit" => Kids(q) = {k},
         new.pc \in Main <=> proc[q].pc \in Main,
         proc' = [proc EXCEPT ![k] = Free, ![q] = new], failed' = failed
  PROVE  ShInv'
<1> USE DEF ShInv
<1>0. k \in Pid /\ k # q /\ proc[k].parent = q /\ ~Live(k)
  BY DEF Kids, Live
<1>1. /\ proc' \in [Pid -> Recs] /\ proc'[q] = new /\ proc'[k] = Free
      /\ \A x \in Pid : x # q /\ x # k => proc'[x] = proc[x]
  BY <1>0, FreeIs DEF Procs, Good
<1>2. Procs'
  BY <1>1, FreeIs DEF Procs
<1>3. \A x \in Pid : x # k => /\ proc'[x].st = proc[x].st /\ proc'[x].parent = proc[x].parent
                              /\ proc'[x].bg = proc[x].bg
  BY <1>1 DEF Live
<1>4. \A x \in Pid : Live(x)' <=> Live(x)
  BY <1>0, <1>1, <1>3, FreeIs DEF Live
<1>5. Kids(q)' = Kids(q) \ {k} /\ \A x \in Pid : x # q => Kids(x)' = Kids(x)
  BY <1>0, <1>1, <1>3, FreeIs DEF Kids
<1>6. \A x \in Pid : proc[x].parent # 0 => proc[x].parent \in Pid
  BY DEF Procs, Recs, Pid
<1>7. Parents'
  <2> SUFFICES ASSUME NEW x \in Pid, proc'[x].parent # 0 PROVE proc'[proc'[x].parent].st = "live"
    BY DEF Parents, Live
  <2>1. x # k
    BY <1>1, FreeIs
  <2> QED BY <1>3, <1>4, <1>6, <2>1, ZenonT(60) DEF Parents, Live
<1>8. Acyclic'
  BY <1>1, <1>3, FreeIs, AcyclicLess
<1>9. Families'
  <2> SUFFICES ASSUME NEW x \in Pid, Live(x)'
               PROVE  /\ Waits(Kids(x), proc[x].pc)'
                      /\ proc'[x].pc = "exit" => \A j \in Kids(x)' : Live(j)' => proc'[j].bg
    BY DEF Families
  <2>1. Live(x) /\ Kids(x) \subseteq Pid /\ x # k
    BY <1>0, <1>4 DEF Kids
  <2>2. CASE x = q
    <3>1. Waits(Kids(x), proc[x].pc)'
      BY <1>1, <1>5, <2>2, ZenonT(60) DEF Waits
    <3>2. proc'[x].pc = "exit" => Kids(x)' = {}
      BY <1>1, <1>5, <2>2
    <3> QED BY <3>1, <3>2
  <2>3. CASE x # q
    <3>1. proc'[x] = proc[x] /\ Kids(x)' = Kids(x)
      BY <1>1, <1>5, <2>1, <2>3
    <3>2. Waits(Kids(x), proc[x].pc)'
      BY <2>1, <3>1, ZenonT(60) DEF Waits, Families
    <3>3. ASSUME proc'[x].pc = "exit", NEW j \in Kids(x), Live(j)' PROVE proc'[j].bg
      <4>1. j \in Pid /\ Live(j) /\ j # k
        BY <1>0, <1>4, <2>1, <3>3
      <4>2. proc[j].bg
        BY <2>1, <3>1, <3>3, <4>1 DEF Families
      <4> QED BY <1>3, <4>1, <4>2
    <3> QED BY <3>1, <3>2, <3>3
  <2> QED BY <2>2, <2>3
<1>10. ShellOK'
  BY <1>0, <1>1, <1>4, Pids DEF ShellOK
<1>11. Fore'
  <2>1. \A x \in Pid : proc[x].parent # 0 => proc'[proc[x].parent].st = "live"
    BY <1>4, <1>6 DEF Parents, Live
  <2>2. \A x \in Pid : Live(x)' => x # k
    BY <1>0, <1>4
  <2> QED BY <1>3, <1>4, <2>1, <2>2, ForeLess
<1> QED BY <1>2, <1>7, <1>8, <1>9, <1>10, <1>11

\* A process exits: what it leaves behind has no parent.
LEMMA ExitOK ==
  ASSUME ShInv, NEW q \in Pid, Live(q), proc' = Exited(proc, q),
         \/ failed' = TRUE
         \/ /\ failed' = failed /\ proc[q].pc \notin Main
            /\ \A k \in Kids(q) : Live(k) => proc[k].bg
  PROVE  ShInv'
<1> USE DEF ShInv
<1> DEFINE dead == [Free EXCEPT !.st = "zombie", !.parent = proc[q].parent]
           orphan(k) == [proc[k] EXCEPT !.parent = 0]
<1>0. /\ \A x \in Pid : Good(proc[x]) /\ proc[x] \in Recs
      /\ \A x \in Pid : proc[x].parent # 0 => proc[x].parent \in Pid
      /\ proc[q].parent # q /\ Kids(q) \subseteq Pid
  <2>1. PICK x \in {q} : proc[x].parent \notin {q}
    BY DEF Acyclic
  <2> QED BY <2>1 DEF Procs, Recs, Pid, Kids
<1>1. dead \in Recs /\ dead.st = "zombie" /\ dead.parent = proc[q].parent /\ Good(dead)
  <2>1. dead \in Recs /\ dead.st = "zombie" /\ dead.parent = proc[q].parent
    <3>1. proc[q].parent \in 0 .. MaxProc
      BY <1>0 DEF Recs
    <3> HIDE DEF Free
    <3> QED BY <3>1, FreeIs DEF Recs
  <2> HIDE DEF dead
  <2> QED BY <2>1 DEF Good
<1>2. ASSUME NEW k \in Pid, Live(k)
      PROVE  /\ orphan(k) \in Recs /\ orphan(k).st = "live" /\ orphan(k).parent = 0
             /\ orphan(k).bg = proc[k].bg /\ orphan(k).pc = proc[k].pc /\ Good(orphan(k))
  <2> DEFINE o == orphan(k)
  <2>1. /\ o \in Recs /\ o.st = "live" /\ o.parent = 0 /\ o.bg = proc[k].bg /\ o.pc = proc[k].pc
        /\ o.fds = proc[k].fds /\ o.env = proc[k].env /\ o.cmd = proc[k].cmd /\ o.p = proc[k].p
    BY <1>0, <1>2, ShellRunAssumption DEF Recs, Live
  <2> HIDE DEF o
  <2>2. Good(o)
    BY <1>0, <1>2, <2>1 DEF Good, Table, Work, Live
  <2> QED BY <2>1, <2>2 DEF o
<1>3. /\ proc' = [k \in Pid |->
            IF k = q THEN IF proc[q].parent = 0 THEN Free ELSE dead
            ELSE IF proc[k].parent = q
            THEN IF proc[k].st = "zombie" THEN Free ELSE orphan(k)
            ELSE proc[k]]
  BY DEF Exited
<1> HIDE DEF dead, orphan
<1>4. ASSUME NEW k \in Pid, k # q, proc[k].parent = q, proc[k].st # "zombie" PROVE Live(k)
  BY <1>0, <1>4, Pids DEF Good, Recs, Live
<1>5. ASSUME NEW x \in Pid
      PROVE  /\ Good(proc'[x]) /\ proc'[x] \in Recs
             /\ proc'[x].parent = IF proc[x].parent = q THEN 0 ELSE proc[x].parent
             /\ Live(x)' <=> (Live(x) /\ x # q)
             /\ Live(x)' => proc'[x].bg = proc[x].bg /\ proc'[x].pc = proc[x].pc
  <2>1. CASE x = q
    BY <1>0, <1>1, <1>3, <2>1, FreeIs DEF Live
  <2>2. CASE x # q /\ proc[x].parent = q /\ proc[x].st = "zombie"
    BY <1>3, <2>2, FreeIs DEF Live
  <2>3. CASE x # q /\ proc[x].parent = q /\ proc[x].st # "zombie"
    <3>1. proc'[x] = orphan(x) /\ Live(x)
      BY <1>3, <1>4, <2>3
    <3> QED BY <1>2, <2>3, <3>1 DEF Live
  <2>4. CASE x # q /\ proc[x].parent # q
    <3>1. proc'[x] = proc[x]
      BY <1>3, <2>4
    <3> QED BY <1>0, <2>4, <3>1 DEF Live
  <2> QED BY <2>1, <2>2, <2>3, <2>4
<1>6. Procs'
  <2>1. proc' \in [Pid -> Recs]
    <3>1. proc' = [x \in Pid |-> proc'[x]]
      BY <1>3
    <3> QED BY <1>5, <3>1
  <2> QED BY <1>5, <2>1 DEF Procs
<1>7. Parents'
  <2> SUFFICES ASSUME NEW x \in Pid, proc'[x].parent # 0 PROVE proc'[proc'[x].parent].st = "live"
    BY DEF Parents, Live
  <2>1. proc'[x].parent = proc[x].parent /\ proc[x].parent # q /\ proc[x].parent \in Pid
    BY <1>0, <1>5
  <2>2. Live(proc[x].parent)
    BY <1>5, <2>1 DEF Parents
  <2> QED BY <1>5, <2>1, <2>2 DEF Live
<1>8. Acyclic'
  BY <1>5, AcyclicLess
<1>9. ASSUME NEW x \in Pid, x # q PROVE Kids(x)' = Kids(x)
  <2>1. ASSUME NEW k \in Pid, k = q
        PROVE  proc'[k].st # "free" /\ proc'[k].parent = x <=> proc[k].st # "free" /\ proc[k].parent = x
    BY <1>1, <1>3, <1>9, <2>1, FreeIs, Pids DEF Live
  <2>2. ASSUME NEW k \in Pid, k # q, proc[k].parent = q
        PROVE  ~(proc'[k].st # "free" /\ proc'[k].parent = x) /\ ~(proc[k].st # "free" /\ proc[k].parent = x)
    BY <1>5, <1>9, <2>2, Pids
  <2>3. ASSUME NEW k \in Pid, k # q, proc[k].parent # q PROVE proc'[k] = proc[k]
    BY <1>3, <2>3
  <2>4. ASSUME NEW k \in Pid
        PROVE  proc'[k].st # "free" /\ proc'[k].parent = x <=> proc[k].st # "free" /\ proc[k].parent = x
    BY <2>1, <2>2, <2>3
  <2> QED BY <2>4 DEF Kids
<1>10. Families'
  <2> SUFFICES ASSUME NEW x \in Pid, Live(x)'
               PROVE  /\ Waits(Kids(x), proc[x].pc)'
                      /\ proc'[x].pc = "exit" => \A j \in Kids(x)' : Live(j)' => proc'[j].bg
    BY DEF Families
  <2>1. Live(x) /\ x # q /\ proc'[x].pc = proc[x].pc /\ Kids(x)' = Kids(x) /\ Kids(x) \subseteq Pid
    BY <1>5, <1>9 DEF Kids
  <2>2. Waits(Kids(x), proc[x].pc)'
    BY <2>1 DEF Waits, Families
  <2>3. ASSUME proc'[x].pc = "exit", NEW j \in Kids(x), Live(j)' PROVE proc'[j].bg
    <3>1. j \in Pid /\ Live(j) /\ proc'[j].bg = proc[j].bg
      BY <1>5, <2>1, <2>3
    <3>2. proc[j].bg
      BY <2>1, <2>3, <3>1 DEF Families
    <3> QED BY <3>1, <3>2
  <2> QED BY <2>1, <2>2, <2>3
<1>11. CASE failed' = TRUE
  <2>1. ShellOK'
    BY <1>5, <1>11 DEF ShellOK
  <2>2. Fore'
    BY <1>11 DEF Fore
  <2> QED BY <1>6, <1>7, <1>8, <1>10, <2>1, <2>2
<1>12. CASE /\ failed' = failed /\ proc[q].pc \notin Main
            /\ \A k \in Kids(q) : Live(k) => proc[k].bg
  <2>1. ShellOK'
    BY <1>5, <1>12, Pids DEF ShellOK
  <2>2. \A x \in Pid : Live(x)' => Live(x) /\ proc'[x].bg = proc[x].bg
    BY <1>5
  <2>3. ASSUME NEW x \in Pid, Live(x)', ~proc[x].bg PROVE proc[x].parent # q
    <3>1. Live(x) /\ proc[x].st # "free"
      BY <1>5, <2>3 DEF Live
    <3>2. proc[x].parent = q => x \in Kids(q)
      BY <3>1 DEF Kids
    <3> QED BY <1>12, <2>3, <3>1, <3>2
  <2>4. \A x \in Pid : Live(x)' /\ ~proc[x].bg => proc'[x].parent = proc[x].parent
    BY <1>5, <2>3
  <2>5. \A x \in Pid : proc[x].parent # 0 /\ Live(x)' /\ ~proc[x].bg => proc'[proc[x].parent].st = "live"
    BY <1>0, <1>5, <2>3 DEF Parents, Live
  <2>6. Fore'
    BY <1>12, <2>2, <2>4, <2>5, ForeLess
  <2> QED BY <1>6, <1>7, <1>8, <1>10, <2>1, <2>6
<1> QED BY <1>11, <1>12

\* A process forks, and goes on.
LEMMA ForkOK ==
  ASSUME ShInv, NEW q \in Pid, Live(q), NEW c \in Pid, proc[c].st = "free",
         NEW child, Good(child), child.st = "live", child.parent = q,
         child.pc \in Childless, child.pc \notin Main,
         ~child.bg => q = Shell \/ ~proc[q].bg,
         NEW new, Good(new), new.st = "live",
         new.parent = proc[q].parent, new.bg = proc[q].bg,
         Waits(Kids(q) \cup {c}, new.pc), new.pc = "exit" => Kids(q) = {} /\ child.bg,
         new.pc \in Main <=> proc[q].pc \in Main,
         proc' = [proc EXCEPT ![c] = child, ![q] = new], failed' = failed
  PROVE  ShInv'
<1> USE DEF ShInv
<1>0. /\ c # q /\ ~Live(c) /\ proc[c].parent = 0
      /\ \A x \in Pid : proc[x].parent # 0 => proc[x].parent \in Pid
      /\ \A x \in Pid : proc[x].parent # c
  <2>1. c # q /\ ~Live(c) /\ proc[c].parent = 0
    BY DEF Live, Procs, Good
  <2>2. \A x \in Pid : proc[x].parent # 0 => proc[x].parent \in Pid
    BY DEF Procs, Recs, Pid
  <2>3. \A x \in Pid : proc[x].parent # c
    BY <2>1, Pids DEF Parents
  <2> QED BY <2>1, <2>2, <2>3
<1>1. /\ proc' \in [Pid -> Recs] /\ proc'[q] = new /\ proc'[c] = child
      /\ \A x \in Pid : x # q /\ x # c => proc'[x] = proc[x]
  BY <1>0 DEF Procs, Good
<1>2. Procs'
  BY <1>1 DEF Procs
<1>3. \A x \in Pid : x # c => /\ proc'[x].st = proc[x].st /\ proc'[x].parent = proc[x].parent
                              /\ proc'[x].bg = proc[x].bg
  BY <1>1 DEF Live
<1>4. \A x \in Pid : Live(x)' <=> (Live(x) \/ x = c)
  BY <1>0, <1>1, <1>3 DEF Live
<1>5. /\ Kids(q)' = Kids(q) \cup {c} /\ Kids(c)' = {}
      /\ \A x \in Pid : x # q => Kids(x)' = Kids(x)
  <2>1. Kids(c) = {}
    BY <1>0 DEF Kids
  <2>2. \A x \in Pid : x # q => Kids(x)' = Kids(x)
    BY <1>0, <1>1, <1>3 DEF Kids
  <2>3. Kids(q)' = Kids(q) \cup {c}
    BY <1>0, <1>1, <1>3 DEF Kids
  <2> QED BY <1>0, <2>1, <2>2, <2>3
<1>7. Parents'
  <2> SUFFICES ASSUME NEW x \in Pid, proc'[x].parent # 0 PROVE proc'[proc'[x].parent].st = "live"
    BY DEF Parents, Live
  <2>1. CASE x = c
    BY <1>1, <2>1
  <2>2. CASE x # c
    <3>1. proc'[x].parent = proc[x].parent /\ proc[x].parent \in Pid /\ proc[x].parent # c
      BY <1>0, <1>3, <2>2
    <3>2. proc[proc[x].parent].st = "live"
      BY <3>1 DEF Parents, Live
    <3> QED BY <1>3, <3>1, <3>2, ZenonT(60)
  <2> QED BY <2>1, <2>2
<1>8. Acyclic'
  <2> SUFFICES ASSUME NEW S \in SUBSET Pid, S # {} PROVE \E x \in S : proc'[x].parent \notin S
    BY DEF Acyclic
  <2>1. CASE S \ {c} = {}
    BY <1>0, <1>1, <2>1
  <2>2. CASE S \ {c} # {}
    <3>1. PICK x \in S \ {c} : proc[x].parent \notin S \ {c}
      BY <2>2 DEF Acyclic
    <3> QED BY <1>0, <1>3, <3>1
  <2> QED BY <2>1, <2>2
<1>9. Families'
  <2> SUFFICES ASSUME NEW x \in Pid, Live(x)'
               PROVE  /\ Waits(Kids(x)', proc'[x].pc)
                      /\ proc'[x].pc = "exit" => \A j \in Kids(x)' : Live(j)' => proc'[j].bg
    BY DEF Families
  <2>1. CASE x = c
    BY <1>1, <1>5, <2>1 DEF Waits, Childless, OneChild, TwoChildren
  <2>2. CASE x = q
    <3>1. Waits(Kids(x)', proc'[x].pc)
      BY <1>1, <1>5, <2>2
    <3>2. proc'[x].pc = "exit" => Kids(x)' = {c} /\ proc'[c].bg
      BY <1>1, <1>5, <2>2
    <3> QED BY <3>1, <3>2
  <2>3. CASE x # q /\ x # c
    <3>1. proc'[x] = proc[x] /\ Kids(x)' = Kids(x) /\ Live(x) /\ Kids(x) \subseteq Pid
      BY <1>1, <1>4, <1>5, <2>3 DEF Kids
    <3>2. Waits(Kids(x)', proc'[x].pc)
      BY <3>1 DEF Families
    <3>3. ASSUME proc'[x].pc = "exit", NEW j \in Kids(x), Live(j)' PROVE proc'[j].bg
      <4>1. j \in Pid /\ j # c
        BY <1>0, <3>1 DEF Kids
      <4>2. Live(j)
        BY <1>4, <3>3, <4>1
      <4>3. proc[j].bg
        BY <3>1, <3>3, <4>1, <4>2 DEF Families
      <4> QED BY <1>3, <4>1, <4>3, ZenonT(60)
    <3> QED BY <3>1, <3>2, <3>3
  <2> QED BY <2>1, <2>2, <2>3
<1>10. ShellOK'
  BY <1>0, <1>1, <1>4, Pids DEF ShellOK
<1>11. Fore'
  <2> SUFFICES ASSUME ~failed', NEW x \in Pid \ {Shell}, Live(x)', ~proc'[x].bg
               PROVE  proc'[x].parent # 0 /\ (proc'[x].parent = Shell \/ ~proc'[proc'[x].parent].bg)
    BY DEF Fore
  <2>1. CASE x = c
    BY <1>0, <1>1, <2>1, Pids
  <2>2. CASE x # c
    <3>1. Live(x) /\ ~proc[x].bg /\ proc'[x].parent = proc[x].parent
      BY <1>3, <1>4, <2>2, ZenonT(60)
    <3>2. proc[x].parent # 0 /\ (proc[x].parent = Shell \/ ~proc[proc[x].parent].bg)
      BY <3>1 DEF Fore
    <3>3. proc'[proc[x].parent].bg = proc[proc[x].parent].bg
      BY <1>0, <1>3, <3>2
    <3> QED BY <3>1, <3>2, <3>3
  <2> QED BY <2>1, <2>2
<1> QED BY <1>2, <1>7, <1>8, <1>9, <1>10, <1>11

-----------------------------------------------------------------------------
(* Commands and descriptors.                                               *)

LEMMA TreeIs ==
  ASSUME NEW c \in Trees
  PROVE  /\ c.type \in {"EXEC", "REDIR", "PIPE", "LIST", "BACK"}
         /\ c.type = "REDIR" => c.cmd \in Trees /\ c.fd \in {0, 1} /\ c.file \in Files
         /\ c.type \in {"PIPE", "LIST"} => c.left \in Trees /\ c.right \in Trees
         /\ c.type = "BACK" => c.cmd \in Trees
<1>1. IsTree(c)
  BY ShellRunAssumption
<1>2. CASE \E prog \in Programs : c = execcmd(prog)
  BY <1>2 DEF execcmd
<1>3. CASE \E t \in Trees, d \in {0, 1}, f \in Files : c = redircmd(t, d, f)
  BY <1>3 DEF redircmd
<1>4. CASE \E l, r \in Trees : c = pipecmd(l, r) \/ c = listcmd(l, r)
  BY <1>4 DEF pipecmd, listcmd
<1>5. CASE \E t \in Trees : c = backcmd(t)
  BY <1>5 DEF backcmd
<1> QED BY <1>1, <1>2, <1>3, <1>4, <1>5 DEF IsTree

LEMMA ObjIs ==
  /\ None \in Objs /\ Tty \in Objs /\ Tty # None
  /\ \A n \in Files : File(n) \in Objs /\ File(n) # None
  /\ \A k \in PipeId : R(k) \in Objs /\ W(k) \in Objs /\ R(k) # None /\ W(k) # None
  /\ \A x \in Objs : x[1] \in {"none", "tty", "file", "r", "w"}
BY DEF Objs, None, Tty, File, R, W

LEMMA Smallest ==
  ASSUME NEW S \in SUBSET Nat, S # {}
  PROVE  Min(S) \in S /\ \A y \in S : Min(S) <= y
<1>1. \E x \in S : \A y \in S : ~ (<<y, x>> \in OpToRel(<, Nat))
  BY WFMin, NatLessThanWellFounded
<1>2. \A x, y \in Nat : <<y, x>> \in OpToRel(<, Nat) <=> y < x
  BY Zenon DEF OpToRel
<1>3. \E x \in S : \A y \in S : ~(y < x)
  BY <1>1, <1>2, Zenon
<1>4. \E x \in S : \A y \in S : x <= y
  BY <1>3
<1> QED BY <1>4 DEF Min

\* The lowest free descriptor.
LEMMA LowestIs ==
  ASSUME NEW fds, NEW d \in Fd, fds[d] = None, \A e \in Fd : e < d => fds[e] # None
  PROVE  Lowest(fds) = d
<1> DEFINE S == FreeFds(fds)
<1>1. S \in SUBSET Nat /\ d \in S /\ \A e \in S : ~(e < d)
  BY DEF FreeFds, Fd
<1> HIDE DEF S
<1>2. Min(S) \in S /\ Min(S) <= d
  BY <1>1, Smallest
<1>3. Min(S) = d
  <2>1. Min(S) \in Nat /\ d \in Nat /\ ~(Min(S) < d)
    BY <1>1, <1>2
  <2> QED BY <1>2, <2>1
<1> QED BY <1>3 DEF S, Lowest

-----------------------------------------------------------------------------
(* Steps that leave the descriptors alone.                                 *)

LEMMA LiveIs ==
  ASSUME ShInv, NEW q \in Pid, Live(q)
  PROVE  /\ proc[q] \in Recs /\ Good(proc[q]) /\ proc[q].st = "live"
         /\ Table(proc[q]) /\ Work(proc[q]) /\ q \in 0 .. MaxProc
         /\ Waits(Kids(q), proc[q].pc)
BY Pids DEF ShInv, Procs, Good, Live, Families

LEMMA SameTable ==
  ASSUME NEW r, Good(r), r.st = "live", NEW n \in Recs, n.st = "live",
         n.fds = r.fds, n.env = r.env, n.p = r.p, n.pc \in Piping <=> r.pc \in Piping, Work(n)
  PROVE  Good(n)
BY DEF Good, Table

LEMMA WaitsIs ==
  /\ \A pc \in Childless \cup {"exit"} : Waits({}, pc)
  /\ \A K : Waits(K, "exit")
  /\ \A pc \in OneChild : \A j : Waits({j}, pc)
  /\ \A pc \in TwoChildren : \A j, k : j # k => Waits({j, k}, pc)
  /\ \A K, pc : Waits(K, pc) /\ pc \in Childless => K = {}
  /\ \A K, pc : Waits(K, pc) /\ pc \in OneChild => \E j : K = {j}
  /\ \A K, pc : Waits(K, pc) /\ pc \in TwoChildren => \E j, k : j # k /\ K = {j, k}
<1>1. \A pc \in Childless \cup {"exit"} : pc \notin OneChild /\ pc \notin TwoChildren
  BY DEF Childless, OneChild, TwoChildren
<1>2. "exit" \notin Childless
  BY DEF Childless
<1>3. \A pc \in OneChild : pc \notin Childless /\ pc \notin TwoChildren
  BY DEF Childless, OneChild, TwoChildren
<1>4. \A pc \in TwoChildren : pc \notin Childless /\ pc \notin OneChild
  BY DEF Childless, OneChild, TwoChildren
<1> QED BY <1>1, <1>2, <1>3, <1>4, Zenon DEF Waits

\* Only the place of the process changes.
LEMMA PcOK ==
  ASSUME ShInv, NEW q \in Pid, Live(q), proc[q].pc \in {"run", "put", "get"},
         NEW pc \in {"put", "get", "exit"},
         proc' = [proc EXCEPT ![q].pc = pc], failed' = failed
  PROVE  ShInv'
<1> DEFINE r == proc[q]
           n == [r EXCEPT !.pc = pc]
<1>1. r \in Recs /\ Good(r) /\ r.st = "live" /\ Work(r) /\ Waits(Kids(q), r.pc)
  BY LiveIs
<1>2. /\ pc \in PCs /\ pc \notin Piping /\ pc \notin Main /\ pc # "list_wait" /\ pc \in Childless \cup {"exit"}
      /\ r.pc \notin Piping /\ r.pc \notin Main /\ r.pc \in Childless
  BY DEF PCs, Piping, Main, Childless
<1>3. proc' = [proc EXCEPT ![q] = n]
  OBVIOUS
<1> HIDE DEF r
<1>4. /\ n \in Recs /\ n.st = "live" /\ n.fds = r.fds /\ n.env = r.env /\ n.p = r.p /\ n.pc = pc
      /\ n.cmd = r.cmd /\ n.parent = r.parent /\ n.bg = r.bg
  BY <1>1, <1>2 DEF Recs
<1> HIDE DEF n
<1>5. Work(n)
  BY <1>1, <1>2, <1>4 DEF Work
<1>6. Good(n)
  BY <1>1, <1>2, <1>4, <1>5, SameTable
<1>7. Kids(q) = {} /\ Waits(Kids(q), n.pc)
  <2>1. Kids(q) = {}
    BY <1>1, <1>2, WaitsIs, Zenon
  <2>2. Waits({}, pc)
    BY <1>2, WaitsIs, Zenon
  <2> QED BY <1>4, <2>1, <2>2
<1> QED BY <1>2, <1>3, <1>4, <1>6, <1>7, LocalOK DEF r

LEMMA RunExecOK ==
  ASSUME ShInv, NEW q \in Pid, run_exec(q)
  PROVE  ShInv'
<1>1. Live(q) /\ proc[q].pc = "run" /\ failed' = failed
  BY DEF run_exec, Runs, At
<1>2. PICK pc \in {"put", "get", "exit"} : proc' = [proc EXCEPT ![q].pc = pc]
  BY DEF run_exec
<1> QED BY <1>1, <1>2, PcOK

LEMMA PutOK ==
  ASSUME ShInv, NEW q \in Pid, put(q)
  PROVE  ShInv'
<1>1. Live(q) /\ proc[q].pc = "put" /\ failed' = failed
  BY DEF put, At
<1>2. PICK pc \in {"put", "get", "exit"} : proc' = [proc EXCEPT ![q].pc = pc]
  BY DEF put
<1> QED BY <1>1, <1>2, PcOK

LEMMA GetOK ==
  ASSUME ShInv, NEW q \in Pid, get(q)
  PROVE  ShInv'
<1>1. Live(q) /\ proc[q].pc = "get" /\ failed' = failed
  BY DEF get, At
<1>2. PICK pc \in {"put", "get", "exit"} : proc' = [proc EXCEPT ![q].pc = pc]
  BY DEF get
<1> QED BY <1>1, <1>2, PcOK

\* A process that has no child, or only children in the background, exits.
LEMMA QuietExit ==
  ASSUME ShInv, NEW q \in Pid, Live(q), proc[q].pc \in {"run", "exit"}, exit(q)
  PROVE  ShInv'
<1>1. proc' = Exited(proc, q) /\ failed' = failed
  BY DEF exit
<1>2. proc[q].pc \notin Main
  BY DEF Main
<1>3. \A k \in Kids(q) : Live(k) => proc[k].bg
  <2>1. CASE proc[q].pc = "run"
    <3>1. Kids(q) = {}
      BY <2>1, LiveIs, WaitsIs DEF Childless
    <3> QED BY <3>1
  <2>2. CASE proc[q].pc = "exit"
    BY <2>2 DEF ShInv, Families
  <2> QED BY <2>1, <2>2
<1> QED BY <1>1, <1>2, <1>3, ExitOK

LEMMA ExecFailsOK ==
  ASSUME ShInv, NEW q \in Pid, run_exec_fails(q)
  PROVE  ShInv'
BY QuietExit DEF run_exec_fails, Runs, At

LEMMA RunExitOK ==
  ASSUME ShInv, NEW q \in Pid, run_exit(q)
  PROVE  ShInv'
BY QuietExit DEF run_exit, At

-----------------------------------------------------------------------------
(* Forks.                                                                  *)

\* fork1: the child is a copy of its parent but for its place, command and bg.
LEMMA Fork1OK ==
  ASSUME ShInv, NEW q \in Pid, Live(q), NEW child \in Recs, child.st = "live",
         child.fds = proc[q].fds, child.env = proc[q].env, child.p = proc[q].p,
         child.pc \in {"run", "left", "right"}, child.pc \in Piping <=> proc[q].pc \in Piping,
         Work(child), ~child.bg => ~proc[q].bg,
         NEW next \in {"list_wait", "fork_right", "close_pipe", "exit"},
         next \in Piping <=> proc[q].pc \in Piping, proc[q].pc \notin Main,
         next = "list_wait" => proc[q].cmd.type = "LIST",
         \/ next \in OneChild /\ Kids(q) = {}
         \/ next \in TwoChildren /\ \E j : Kids(q) = {j}
         \/ next = "exit" /\ Kids(q) = {} /\ child.bg,
         fork1(q, child, next)
  PROVE  ShInv'
<1> DEFINE slots == {k \in Pid : proc[k].st = "free"}
           r == proc[q]
           c == Min(slots)
           n == [r EXCEPT !.pc = next]
           m == [child EXCEPT !.parent = q]
<1>1. r \in Recs /\ Good(r) /\ r.st = "live" /\ Work(r) /\ q \in 0 .. MaxProc
  BY LiveIs
<1>2. CASE slots = {}
  <2>1. proc' = Exited(proc, q) /\ failed' = TRUE
    BY <1>2 DEF fork1
  <2> QED BY <2>1, ExitOK
<1>3. CASE slots # {}
  <2>1. c \in Pid /\ proc[c].st = "free"
    <3>1. slots \in SUBSET Nat
      BY DEF Pid
    <3> HIDE DEF slots
    <3>2. c \in slots
      BY <1>3, <3>1, Smallest
    <3> QED BY <3>2 DEF slots
  <2>2. c # q
    BY <1>1, <2>1
  <2>3. failed' = failed /\ proc' = [proc EXCEPT ![c] = m, ![q] = n]
    <3>1. /\ proc' = [proc EXCEPT ![c] = m, ![q] = [@ EXCEPT !.pc = next]] /\ failed' = failed
      BY <1>3 DEF fork1
    <3> HIDE DEF c, m
    <3> QED BY <2>2, <3>1
  <2> HIDE DEF c, r, slots
  <2>4. /\ next \in PCs /\ next \notin Main /\ child.pc \in Childless /\ child.pc \notin Main
    BY DEF PCs, Main, Childless
  <2>5. /\ n \in Recs /\ n.st = "live" /\ n.fds = r.fds /\ n.env = r.env /\ n.p = r.p /\ n.pc = next
        /\ n.cmd = r.cmd /\ n.parent = r.parent /\ n.bg = r.bg
    BY <1>1, <2>4 DEF Recs
  <2>6. /\ m \in Recs /\ m.st = "live" /\ m.fds = child.fds /\ m.env = child.env /\ m.p = child.p
        /\ m.pc = child.pc /\ m.cmd = child.cmd /\ m.parent = q /\ m.bg = child.bg
    BY <1>1 DEF Recs
  <2> HIDE DEF n, m
  <2>7. Good(n)
    <3>1. Work(n)
      BY <1>1, <2>4, <2>5 DEF Work, r
    <3> QED BY <1>1, <2>5, <3>1, SameTable DEF r
  <2>8. Good(m)
    <3>1. Work(m)
      BY <2>6 DEF Work
    <3>2. m.fds = r.fds /\ m.env = r.env /\ m.p = r.p /\ (m.pc \in Piping <=> r.pc \in Piping)
      BY <2>6 DEF r
    <3> QED BY <1>1, <2>6, <3>1, <3>2, SameTable
  <2>9. Waits(Kids(q) \cup {c}, next)
    <3>1. CASE next \in OneChild /\ Kids(q) = {}
      <4>1. Kids(q) \cup {c} = {c}
        BY <3>1
      <4>2. Waits({c}, next)
        BY <3>1, WaitsIs
      <4> QED BY <4>1, <4>2
    <3>2. CASE next \in TwoChildren /\ \E j : Kids(q) = {j}
      <4>1. PICK j : Kids(q) = {j}
        BY <3>2
      <4>2. j # c
        BY <2>1, <4>1 DEF Kids
      <4>3. Kids(q) \cup {c} = {j, c}
        BY <4>1
      <4>4. Waits({j, c}, next)
        BY <3>2, <4>2, WaitsIs
      <4> QED BY <4>3, <4>4
    <3>3. CASE next = "exit"
      BY <3>3, WaitsIs, Zenon
    <3> QED BY <3>1, <3>2, <3>3
  <2>10. next = "exit" => Kids(q) = {} /\ m.bg
    BY <2>6 DEF OneChild, TwoChildren
  <2> QED BY <2>1, <2>3, <2>4, <2>5, <2>6, <2>7, <2>8, <2>9, <2>10, ForkOK DEF r
<1> QED BY <1>2, <1>3

LEMMA RunListOK ==
  ASSUME ShInv, NEW q \in Pid, run_list(q)
  PROVE  ShInv'
<1> DEFINE r == proc[q]
           m == [r EXCEPT !.cmd = r.cmd.left]
<1>1. Live(q) /\ r.pc = "run" /\ r.cmd.type = "LIST" /\ fork1(q, m, "list_wait")
  BY DEF run_list, Runs, At
<1>2. r \in Recs /\ r.st = "live" /\ Work(r) /\ Waits(Kids(q), r.pc)
  BY <1>1, LiveIs
<1>3. r.cmd \in Trees /\ r.cmd.left \in Trees
  BY <1>1, <1>2, TreeIs DEF Work, Main
<1>4. Kids(q) = {}
  BY <1>1, <1>2, WaitsIs DEF Childless
<1> HIDE DEF r
<1>5. /\ m \in Recs /\ m.st = "live" /\ m.fds = r.fds /\ m.env = r.env /\ m.p = r.p /\ m.pc = "run"
      /\ m.cmd = r.cmd.left /\ m.bg = r.bg
  BY <1>1, <1>2, <1>3 DEF Recs
<1> HIDE DEF m
<1>6. Work(m)
  BY <1>3, <1>5 DEF Work, Piping
<1>7. "run" \notin Piping /\ "list_wait" \notin Piping /\ "list_wait" \in OneChild /\ "run" \notin Main
  BY DEF Piping, OneChild, Main
<1> QED BY <1>1, <1>4, <1>5, <1>6, <1>7, Fork1OK DEF r

LEMMA RunBackOK ==
  ASSUME ShInv, NEW q \in Pid, run_back(q)
  PROVE  ShInv'
<1> DEFINE r == proc[q]
           m == [r EXCEPT !.cmd = r.cmd.cmd, !.bg = TRUE]
<1>1. Live(q) /\ r.pc = "run" /\ r.cmd.type = "BACK" /\ fork1(q, m, "exit")
  BY DEF run_back, Runs, At
<1>2. r \in Recs /\ r.st = "live" /\ Work(r) /\ Waits(Kids(q), r.pc)
  BY <1>1, LiveIs
<1>3. r.cmd \in Trees /\ r.cmd.cmd \in Trees
  BY <1>1, <1>2, TreeIs DEF Work, Main
<1>4. Kids(q) = {}
  BY <1>1, <1>2, WaitsIs DEF Childless
<1> HIDE DEF r
<1>5. /\ m \in Recs /\ m.st = "live" /\ m.fds = r.fds /\ m.env = r.env /\ m.p = r.p /\ m.pc = "run"
      /\ m.cmd = r.cmd.cmd /\ m.bg = TRUE
  BY <1>1, <1>2, <1>3 DEF Recs
<1> HIDE DEF m
<1>6. Work(m)
  BY <1>3, <1>5 DEF Work, Piping
<1>7. "run" \notin Piping /\ "exit" \notin Piping /\ "run" \notin Main
  BY DEF Piping, Main
<1> QED BY <1>1, <1>4, <1>5, <1>6, <1>7, Fork1OK DEF r

LEMMA ForkLeftOK ==
  ASSUME ShInv, NEW q \in Pid, fork_left(q)
  PROVE  ShInv'
<1> DEFINE r == proc[q]
           m == [r EXCEPT !.pc = "left"]
<1>1. Live(q) /\ r.pc = "fork_left" /\ fork1(q, m, "fork_right")
  BY DEF fork_left, At
<1>2. r \in Recs /\ r.st = "live" /\ Work(r) /\ Waits(Kids(q), r.pc)
  BY <1>1, LiveIs
<1>3. r.cmd \in Trees /\ r.cmd.type = "PIPE"
  BY <1>1, <1>2 DEF Work, Main, Piping
<1>4. Kids(q) = {}
  BY <1>1, <1>2, WaitsIs DEF Childless
<1> HIDE DEF r
<1>5. /\ m \in Recs /\ m.st = "live" /\ m.fds = r.fds /\ m.env = r.env /\ m.p = r.p /\ m.pc = "left"
      /\ m.cmd = r.cmd /\ m.bg = r.bg
  BY <1>1, <1>2 DEF Recs, PCs
<1> HIDE DEF m
<1>6. Work(m)
  BY <1>3, <1>5 DEF Work, Piping
<1>7. /\ "left" \in Piping /\ "fork_right" \in Piping /\ "fork_left" \in Piping /\ "fork_right" \in OneChild
      /\ "fork_left" \notin Main
  BY DEF Piping, OneChild, Main
<1> QED BY <1>1, <1>4, <1>5, <1>6, <1>7, Fork1OK DEF r

LEMMA ForkRightOK ==
  ASSUME ShInv, NEW q \in Pid, fork_right(q)
  PROVE  ShInv'
<1> DEFINE r == proc[q]
           m == [r EXCEPT !.pc = "right"]
<1>1. Live(q) /\ r.pc = "fork_right" /\ fork1(q, m, "close_pipe")
  BY DEF fork_right, At
<1>2. r \in Recs /\ r.st = "live" /\ Work(r) /\ Waits(Kids(q), r.pc)
  BY <1>1, LiveIs
<1>3. r.cmd \in Trees /\ r.cmd.type = "PIPE"
  BY <1>1, <1>2 DEF Work, Main, Piping
<1>4. \E j : Kids(q) = {j}
  BY <1>1, <1>2, WaitsIs DEF OneChild
<1> HIDE DEF r
<1>5. /\ m \in Recs /\ m.st = "live" /\ m.fds = r.fds /\ m.env = r.env /\ m.p = r.p /\ m.pc = "right"
      /\ m.cmd = r.cmd /\ m.bg = r.bg
  BY <1>1, <1>2 DEF Recs, PCs
<1> HIDE DEF m
<1>6. Work(m)
  BY <1>3, <1>5 DEF Work, Piping
<1>7. /\ "right" \in Piping /\ "close_pipe" \in Piping /\ "fork_right" \in Piping
      /\ "close_pipe" \in TwoChildren /\ "fork_right" \notin Main
  BY DEF Piping, TwoChildren, Main
<1> QED BY <1>1, <1>4, <1>5, <1>6, <1>7, Fork1OK DEF r

-----------------------------------------------------------------------------
(* Waits.                                                                  *)

LEMMA WaitOK ==
  ASSUME ShInv, NEW q \in Pid, Live(q), NEW new, Good(new), new.st = "live",
         new.parent = proc[q].parent, new.bg = proc[q].bg,
         new.pc \in Main <=> proc[q].pc \in Main,
         \/ proc[q].pc \in OneChild /\ new.pc \in Childless \cup {"exit"}
         \/ proc[q].pc \in TwoChildren /\ new.pc \in OneChild,
         wait(q, new)
  PROVE  ShInv'
<1>1. PICK k \in Kids(q) : proc[k].st = "zombie" /\ proc' = [proc EXCEPT ![k] = Free, ![q] = new]
                          /\ failed' = failed
  BY DEF wait
<1>2. Waits(Kids(q), proc[q].pc)
  BY LiveIs
<1>3. Waits(Kids(q) \ {k}, new.pc) /\ (new.pc = "exit" => Kids(q) = {k})
  <2>1. CASE proc[q].pc \in OneChild /\ new.pc \in Childless \cup {"exit"}
    <3>1. \E j : Kids(q) = {j}
      BY <1>2, <2>1, WaitsIs
    <3>2. Kids(q) = {k} /\ Kids(q) \ {k} = {}
      BY <3>1
    <3>3. Waits({}, new.pc)
      BY <2>1, WaitsIs
    <3> QED BY <3>2, <3>3
  <2>2. CASE proc[q].pc \in TwoChildren /\ new.pc \in OneChild
    <3>1. PICK i, j : i # j /\ Kids(q) = {i, j}
      BY <1>2, <2>2, WaitsIs
    <3>2. PICK o : Kids(q) \ {k} = {o}
      <4>1. CASE k = i
        BY <3>1, <4>1
      <4>2. CASE k = j
        BY <3>1, <4>2
      <4> QED BY <3>1, <4>1, <4>2
    <3>3. Waits({o}, new.pc)
      BY <2>2, WaitsIs
    <3> QED BY <2>2, <3>2, <3>3 DEF OneChild
  <2> QED BY <2>1, <2>2
<1> QED BY <1>1, <1>3, ReapOK

LEMMA ListWaitOK ==
  ASSUME ShInv, NEW q \in Pid, list_wait(q)
  PROVE  ShInv'
<1> DEFINE r == proc[q]
           n == [r EXCEPT !.pc = "run", !.cmd = r.cmd.right]
<1>1. Live(q) /\ r.pc = "list_wait" /\ wait(q, n)
  BY DEF list_wait, At
<1>2. r \in Recs /\ Good(r) /\ r.st = "live" /\ Work(r)
  BY <1>1, LiveIs
<1>3. r.cmd.right \in Trees
  BY <1>1, <1>2, TreeIs DEF Work, Main
<1>4. /\ "list_wait" \in OneChild /\ "run" \in Childless \cup {"exit"} /\ "run" \notin Main
      /\ "list_wait" \notin Main /\ "run" \notin Piping /\ "list_wait" \notin Piping /\ "run" \in PCs
  BY DEF OneChild, Childless, Main, Piping, PCs
<1> HIDE DEF r
<1>5. /\ n \in Recs /\ n.st = "live" /\ n.fds = r.fds /\ n.env = r.env /\ n.p = r.p /\ n.pc = "run"
      /\ n.cmd = r.cmd.right /\ n.bg = r.bg /\ n.parent = r.parent
  BY <1>1, <1>2, <1>3, <1>4 DEF Recs
<1> HIDE DEF n
<1>6. Work(n)
  BY <1>3, <1>4, <1>5 DEF Work
<1>7. Good(n)
  BY <1>1, <1>2, <1>4, <1>5, <1>6, SameTable
<1> QED BY <1>1, <1>4, <1>5, <1>7, WaitOK DEF r

LEMMA PipeWait1OK ==
  ASSUME ShInv, NEW q \in Pid, pipe_wait1(q)
  PROVE  ShInv'
<1> DEFINE r == proc[q]
           n == [r EXCEPT !.pc = "pipe_wait2"]
<1>1. Live(q) /\ r.pc = "pipe_wait1" /\ wait(q, n)
  BY DEF pipe_wait1, At, AfterFirstWait
<1>2. r \in Recs /\ Good(r) /\ r.st = "live" /\ Work(r)
  BY <1>1, LiveIs
<1>4. /\ "pipe_wait1" \in TwoChildren /\ "pipe_wait2" \in OneChild /\ "pipe_wait1" \notin Main
      /\ "pipe_wait2" \notin Main /\ "pipe_wait1" \notin Piping /\ "pipe_wait2" \notin Piping
      /\ "pipe_wait2" \in PCs
  BY DEF OneChild, TwoChildren, Main, Piping, PCs
<1> HIDE DEF r
<1>5. /\ n \in Recs /\ n.st = "live" /\ n.fds = r.fds /\ n.env = r.env /\ n.p = r.p /\ n.pc = "pipe_wait2"
      /\ n.cmd = r.cmd /\ n.bg = r.bg /\ n.parent = r.parent
  BY <1>1, <1>2, <1>4 DEF Recs
<1> HIDE DEF n
<1>6. Work(n)
  BY <1>1, <1>2, <1>4, <1>5 DEF Work
<1>7. Good(n)
  BY <1>1, <1>2, <1>4, <1>5, <1>6, SameTable
<1> QED BY <1>1, <1>4, <1>5, <1>7, WaitOK DEF r

LEMMA PipeWait2OK ==
  ASSUME ShInv, NEW q \in Pid, pipe_wait2(q)
  PROVE  ShInv'
<1> DEFINE r == proc[q]
           n == [r EXCEPT !.pc = "exit"]
<1>1. Live(q) /\ r.pc = "pipe_wait2" /\ wait(q, n)
  BY DEF pipe_wait2, At
<1>2. r \in Recs /\ Good(r) /\ r.st = "live" /\ Work(r)
  BY <1>1, LiveIs
<1>4. /\ "pipe_wait2" \in OneChild /\ "exit" \in Childless \cup {"exit"} /\ "pipe_wait2" \notin Main
      /\ "exit" \notin Main /\ "pipe_wait2" \notin Piping /\ "exit" \notin Piping /\ "exit" \in PCs
  BY DEF OneChild, Childless, Main, Piping, PCs
<1> HIDE DEF r
<1>5. /\ n \in Recs /\ n.st = "live" /\ n.fds = r.fds /\ n.env = r.env /\ n.p = r.p /\ n.pc = "exit"
      /\ n.cmd = r.cmd /\ n.bg = r.bg /\ n.parent = r.parent
  BY <1>1, <1>2, <1>4 DEF Recs
<1> HIDE DEF n
<1>6. Work(n)
  BY <1>1, <1>2, <1>4, <1>5 DEF Work
<1>7. Good(n)
  BY <1>1, <1>2, <1>4, <1>5, <1>6, SameTable
<1> QED BY <1>1, <1>4, <1>5, <1>7, WaitOK DEF r

LEMMA MainWaitOK ==
  ASSUME ShInv, main_wait
  PROVE  ShInv'
<1> DEFINE r == proc[Shell]
           n == [r EXCEPT !.pc = "prompt"]
<1>1. Live(Shell) /\ r.pc = "shell_wait" /\ wait(Shell, n) /\ Shell \in Pid
  BY Pids DEF main_wait, At
<1>2. r \in Recs /\ Good(r) /\ r.st = "live" /\ Work(r)
  BY <1>1, LiveIs
<1>4. /\ "shell_wait" \in OneChild /\ "prompt" \in Childless \cup {"exit"} /\ "shell_wait" \in Main
      /\ "prompt" \in Main /\ "shell_wait" \notin Piping /\ "prompt" \notin Piping /\ "prompt" \in PCs
  BY DEF OneChild, Childless, Main, Piping, PCs
<1> HIDE DEF r
<1>5. /\ n \in Recs /\ n.st = "live" /\ n.fds = r.fds /\ n.env = r.env /\ n.p = r.p /\ n.pc = "prompt"
      /\ n.cmd = r.cmd /\ n.bg = r.bg /\ n.parent = r.parent
  BY <1>1, <1>2, <1>4 DEF Recs
<1> HIDE DEF n
<1>6. Work(n)
  BY <1>1, <1>2, <1>4, <1>5 DEF Work
<1>7. Good(n)
  BY <1>1, <1>2, <1>4, <1>5, <1>6, SameTable
<1> QED BY <1>1, <1>4, <1>5, <1>7, WaitOK DEF r

-----------------------------------------------------------------------------
(* A line is typed.                                                        *)

LEMMA GetcmdOK ==
  ASSUME ShInv, NEW t \in Commands, getcmd(t)
  PROVE  ShInv'
<1> DEFINE slots == {k \in Pid : proc[k].st = "free"}
           r == proc[Shell]
           c == Min(slots)
           n == [r EXCEPT !.pc = "shell_wait"]
           m == [r EXCEPT !.parent = Shell, !.pc = "run", !.cmd = t]
<1>1. Live(Shell) /\ r.pc = "prompt" /\ Shell \in Pid
  BY Pids DEF getcmd, At
<1>2. /\ r \in Recs /\ Good(r) /\ r.st = "live" /\ Work(r) /\ Waits(Kids(Shell), r.pc)
      /\ Shell \in 0 .. MaxProc /\ t \in Trees
  BY <1>1, LiveIs, ShellRunAssumption
<1>3. Kids(Shell) = {}
  BY <1>1, <1>2, WaitsIs DEF Childless
<1>4. CASE slots = {}
  <2>1. proc' = Exited(proc, Shell) /\ failed' = TRUE
    BY <1>4 DEF getcmd
  <2> QED BY <1>1, <2>1, ExitOK
<1>5. CASE slots # {}
  <2>1. c \in Pid /\ proc[c].st = "free"
    <3>1. slots \in SUBSET Nat
      BY DEF Pid
    <3> HIDE DEF slots
    <3>2. c \in slots
      BY <1>5, <3>1, Smallest
    <3> QED BY <3>2 DEF slots
  <2>2. c # Shell
    BY <1>2, <2>1
  <2>3. failed' = failed /\ proc' = [proc EXCEPT ![c] = m, ![Shell] = n]
    <3>1. failed' = failed /\ proc' = [[proc EXCEPT ![Shell] = n] EXCEPT ![c] = m]
      BY <1>5 DEF getcmd
    <3>2. proc \in [Pid -> Recs]
      BY DEF ShInv, Procs
    <3> HIDE DEF c, m, n
    <3> QED BY <1>1, <2>1, <2>2, <3>1, <3>2
  <2> HIDE DEF c, r, slots
  <2>4. /\ "prompt" \in Main /\ "shell_wait" \in Main /\ "shell_wait" \in OneChild /\ "shell_wait" \in PCs
        /\ "run" \in Childless /\ "run" \notin Main /\ "run" \in PCs
        /\ "prompt" \notin Piping /\ "shell_wait" \notin Piping /\ "run" \notin Piping
    BY DEF Main, OneChild, PCs, Childless, Piping
  <2>5. /\ n \in Recs /\ n.st = "live" /\ n.fds = r.fds /\ n.env = r.env /\ n.p = r.p /\ n.pc = "shell_wait"
        /\ n.cmd = r.cmd /\ n.parent = r.parent /\ n.bg = r.bg
    BY <1>2, <2>4 DEF Recs
  <2>6. /\ m \in Recs /\ m.st = "live" /\ m.fds = r.fds /\ m.env = r.env /\ m.p = r.p
        /\ m.pc = "run" /\ m.cmd = t /\ m.parent = Shell /\ m.bg = r.bg
    BY <1>2, <2>4 DEF Recs
  <2> HIDE DEF n, m
  <2>7. Good(n)
    <3>1. Work(n)
      BY <1>2, <2>4, <2>5 DEF Work
    <3> QED BY <1>1, <1>2, <2>4, <2>5, <3>1, SameTable DEF r
  <2>8. Good(m)
    <3>1. Work(m)
      BY <1>2, <2>4, <2>6 DEF Work
    <3> QED BY <1>1, <1>2, <2>4, <2>6, <3>1, SameTable DEF r
  <2>9. Waits(Kids(Shell) \cup {c}, n.pc)
    <3>1. Kids(Shell) \cup {c} = {c}
      BY <1>3
    <3>2. Waits({c}, n.pc)
      BY <2>4, <2>5, WaitsIs
    <3> QED BY <3>1, <3>2
  <2> QED BY <1>1, <2>1, <2>3, <2>4, <2>5, <2>6, <2>7, <2>8, <2>9, ForkOK DEF r
<1> QED BY <1>4, <1>5

-----------------------------------------------------------------------------
(* Steps on the descriptors.                                               *)

LEMMA FewFds == 0 \in Fd /\ 1 \in Fd /\ 2 \in Fd /\ Fd \subseteq Nat /\ MaxFd \in Nat
BY ShellRunAssumption DEF Fd

LEMMA RedirOK ==
  ASSUME ShInv, NEW q \in Pid, run_redir(q)
  PROVE  ShInv'
<1> DEFINE r == proc[q]
           c == r.cmd
           d == c.fd
           fds == Close(r.fds, d)
           F == [fds EXCEPT ![Lowest(fds)] = File(c.file)]
           E == IF d = 0 THEN [r.env EXCEPT !.in = File(c.file)] ELSE [r.env EXCEPT !.out = File(c.file)]
           n == [r EXCEPT !.fds = F, !.cmd = c.cmd, !.env = E]
<1>1. Live(q) /\ r.pc = "run" /\ c.type = "REDIR"
  BY DEF run_redir, Runs, At
<1>2. /\ r \in Recs /\ Good(r) /\ r.st = "live" /\ Work(r) /\ Table(r) /\ Waits(Kids(q), r.pc)
  BY <1>1, LiveIs
<1>3. CASE exit(q)
  BY <1>1, <1>3, QuietExit
<1>4. CASE ~exit(q)
  <2>1. failed' = failed /\ proc' = [proc EXCEPT ![q] = n]
    BY <1>4 DEF run_redir
  <2>2. /\ "run" \notin Piping /\ "run" \notin Main /\ "run" \in PCs /\ "run" \in Childless
        /\ "run" # "list_wait"
    BY DEF Piping, Main, PCs, Childless
  <2>3. c \in Trees /\ c.cmd \in Trees /\ d \in {0, 1} /\ c.file \in Files
    <3>1. c \in Trees
      BY <1>1, <1>2, <2>2 DEF Work
    <3> HIDE DEF c
    <3> QED BY <1>1, <3>1, TreeIs
  <2> DEFINE x == File(c.file)
  <2>4. x \in Objs /\ x # None
    BY <2>3, ObjIs
  <2>5. /\ r.fds \in [Fd -> Objs] /\ r.env \in [in : Objs, out : Objs] /\ r.fds[0] # None /\ None \in Objs
        /\ d \in Fd
    BY <1>2, <2>3, ObjIs, FewFds DEF Recs, Table
  <2> HIDE DEF c, d, x, r
  <2>6. Lowest(fds) = d
    <3>1. fds[d] = None /\ \A e \in Fd : e < d => fds[e] # None
      BY <2>3, <2>5, FewFds DEF Close
    <3> HIDE DEF fds
    <3> QED BY <2>5, <3>1, LowestIs
  <2>7. /\ F \in [Fd -> Objs] /\ F[d] = x /\ \A e \in Fd : e # d => F[e] = r.fds[e]
    BY <2>4, <2>5, <2>6 DEF Close, x
  <2>8. /\ E \in [in : Objs, out : Objs]
        /\ E.in = (IF d = 0 THEN x ELSE r.env.in) /\ E.out = (IF d = 0 THEN r.env.out ELSE x)
    BY <2>4, <2>5 DEF x
  <2> HIDE DEF F, E
  <2>9. /\ n \in Recs /\ n.st = "live" /\ n.fds = F /\ n.env = E /\ n.p = r.p /\ n.pc = "run"
        /\ n.cmd = c.cmd /\ n.parent = r.parent /\ n.bg = r.bg
    BY <1>1, <1>2, <2>3, <2>7, <2>8 DEF Recs
  <2> HIDE DEF n
  <2>10. Good(n)
    <3>1. Work(n)
      BY <2>2, <2>3, <2>9 DEF Work
    <3>2. /\ r.env.in # None /\ r.env.out # None /\ r.fds[0] = r.env.in /\ r.fds[1] = r.env.out
          /\ r.fds[2] = Tty /\ \A e \in Fd : e > 2 => r.fds[e] = None
      BY <1>1, <1>2, <2>2 DEF Table
    <3>3. F[0] = E.in /\ F[1] = E.out /\ F[2] = Tty /\ E.in # None /\ E.out # None
      BY <2>3, <2>4, <2>7, <2>8, <3>2, FewFds
    <3>4. \A e \in Fd : e > 2 => F[e] = None
      BY <2>3, <2>7, <3>2
    <3>5. Table(n)
      BY <2>2, <2>9, <3>3, <3>4 DEF Table
    <3> QED BY <2>9, <3>1, <3>5 DEF Good
  <2>11. Kids(q) = {} /\ Waits(Kids(q), n.pc)
    <3>1. Kids(q) = {}
      BY <1>1, <1>2, <2>2, WaitsIs
    <3> QED BY <1>1, <1>2, <2>9, <3>1
  <2> QED BY <1>1, <2>1, <2>2, <2>9, <2>10, <2>11, LocalOK DEF r
<1> QED BY <1>3, <1>4

\* A table with its first three entries taken and room for a pipe.
LEMMA PipeRoom ==
  ASSUME NEW fds \in [Fd -> Objs], fds[0] # None, fds[1] # None, fds[2] # None,
         \A e \in Fd : e > 2 => fds[e] = None, ~(Cardinality(FreeFds(fds)) < 2)
  PROVE  MaxFd >= 4 /\ 3 \in Fd /\ 4 \in Fd /\ Lowest(fds) = 3
<1>1. MaxFd >= 4
  <2> SUFFICES ASSUME ~(MaxFd >= 4) PROVE FALSE
    OBVIOUS
  <2>1. FreeFds(fds) \in SUBSET {3}
    <3>1. \A e \in Fd : e = 0 \/ e = 1 \/ e = 2 \/ e = 3
      BY FewFds DEF Fd
    <3> QED BY <3>1 DEF FreeFds
  <2>2. IsFiniteSet({3}) /\ Cardinality({3}) = 1
    BY FS_Singleton
  <2>3. IsFiniteSet(FreeFds(fds)) /\ Cardinality(FreeFds(fds)) <= 1
    BY <2>1, <2>2, FS_Subset
  <2>4. Cardinality(FreeFds(fds)) \in Nat
    BY <2>3, FS_CardinalityType
  <2> QED BY <2>3, <2>4
<1>2. 3 \in Fd /\ 4 \in Fd
  BY <1>1, FewFds DEF Fd
<1>3. fds[3] = None
  BY <1>2
<1>4. \A e \in Fd : e < 3 => fds[e] # None
  <2>1. \A e \in Fd : e < 3 => e = 0 \/ e = 1 \/ e = 2
    BY FewFds
  <2> QED BY <2>1
<1> QED BY <1>1, <1>2, <1>3, <1>4, LowestIs

LEMMA RunPipeOK ==
  ASSUME ShInv, NEW q \in Pid, run_pipe(q)
  PROVE  ShInv'
<1> DEFINE r == proc[q]
           k == Min(FreePipes)
           fds == [r.fds EXCEPT ![Lowest(r.fds)] = R(k)]
           F == [fds EXCEPT ![Lowest(fds)] = W(k)]
           n == [r EXCEPT !.fds = F, !.p = <<Lowest(r.fds), Lowest(fds)>>, !.pc = "fork_left"]
<1>1. Live(q) /\ r.pc = "run" /\ r.cmd.type = "PIPE"
  BY DEF run_pipe, Runs, At
<1>2. /\ r \in Recs /\ Good(r) /\ r.st = "live" /\ Work(r) /\ Table(r) /\ Waits(Kids(q), r.pc)
  BY <1>1, LiveIs
<1>3. CASE FreePipes = {} \/ Cardinality(FreeFds(r.fds)) < 2
  <2>1. proc' = Exited(proc, q) /\ failed' = TRUE
    BY <1>3 DEF run_pipe
  <2> QED BY <1>1, <2>1, ExitOK
<1>4. CASE ~(FreePipes = {} \/ Cardinality(FreeFds(r.fds)) < 2)
  <2>1. failed' = failed /\ proc' = [proc EXCEPT ![q] = n]
    BY <1>4 DEF run_pipe
  <2>2. /\ "run" \notin Piping /\ "run" \notin Main /\ "run" \in Childless /\ "fork_left" \in Piping
        /\ "fork_left" \in PCs /\ "fork_left" \in Childless /\ "fork_left" \notin Main
    BY DEF Piping, Main, PCs, Childless
  <2>3. k \in PipeId
    <3>1. FreePipes \in SUBSET PipeId /\ FreePipes \in SUBSET Nat
      BY DEF FreePipes, PipeId
    <3> QED BY <1>4, <3>1, Smallest
  <2>4. R(k) \in Objs /\ W(k) \in Objs /\ R(k) # None /\ W(k) # None /\ Tty # None
    BY <2>3, ObjIs
  <2>5. /\ r.env.in # None /\ r.env.out # None /\ r.fds[0] = r.env.in /\ r.fds[1] = r.env.out
        /\ r.fds[2] = Tty /\ \A e \in Fd : e > 2 => r.fds[e] = None
    BY <1>1, <1>2, <2>2 DEF Table
  <2>6. r.fds \in [Fd -> Objs] /\ r.cmd \in Trees
    BY <1>1, <1>2, <2>2 DEF Recs, Work
  <2>7. MaxFd >= 4 /\ 3 \in Fd /\ 4 \in Fd /\ Lowest(r.fds) = 3
    BY <1>4, <2>4, <2>5, <2>6, PipeRoom
  <2> HIDE DEF r, k
  <2>8. fds \in [Fd -> Objs] /\ fds[3] = R(k) /\ \A e \in Fd : e # 3 => fds[e] = r.fds[e]
    BY <2>4, <2>6, <2>7
  <2> HIDE DEF fds
  <2>9. Lowest(fds) = 4
    <3>1. \A e \in Fd : e < 4 => e = 0 \/ e = 1 \/ e = 2 \/ e = 3
      BY FewFds
    <3>2. \A e \in Fd : e < 4 => fds[e] # None
      BY <2>4, <2>5, <2>8, <3>1, FewFds
    <3>3. fds[4] = None
      BY <2>5, <2>7, <2>8
    <3> QED BY <2>7, <3>2, <3>3, LowestIs
  <2>10. F \in [Fd -> Objs] /\ F[4] = W(k) /\ \A e \in Fd : e # 4 => F[e] = fds[e]
    BY <2>4, <2>7, <2>8, <2>9
  <2> HIDE DEF F
  <2>11. /\ n \in Recs /\ n.st = "live" /\ n.fds = F /\ n.env = r.env /\ n.p = <<3, 4>> /\ n.pc = "fork_left"
         /\ n.cmd = r.cmd /\ n.parent = r.parent /\ n.bg = r.bg
    BY <1>1, <1>2, <2>2, <2>7, <2>9, <2>10 DEF Recs
  <2> HIDE DEF n
  <2>12. Good(n)
    <3>1. Work(n)
      BY <1>1, <2>2, <2>6, <2>11 DEF Work
    <3>2. F[0] = r.env.in /\ F[1] = r.env.out /\ F[2] = Tty /\ F[3] # None /\ F[4] # None
      BY <2>4, <2>5, <2>7, <2>8, <2>10, FewFds
    <3>3. \A e \in Fd : e > 4 => F[e] = None
      <4>1. \A e \in Fd : e > 4 => e > 2 /\ e # 3 /\ e # 4
        BY FewFds
      <4> QED BY <2>5, <2>8, <2>10, <4>1
    <3>4. Table(n)
      BY <2>2, <2>5, <2>7, <2>11, <3>2, <3>3 DEF Table
    <3> QED BY <2>11, <3>1, <3>4 DEF Good
  <2>13. Kids(q) = {} /\ Waits(Kids(q), n.pc)
    <3>1. Kids(q) = {}
      BY <1>1, <1>2, <2>2, WaitsIs
    <3>2. Waits({}, "fork_left")
      BY <2>2, WaitsIs
    <3> QED BY <2>11, <3>1, <3>2
  <2> QED BY <1>1, <2>1, <2>2, <2>11, <2>12, <2>13, LocalOK DEF r
<1> QED BY <1>3, <1>4

LEMMA CloseIs ==
  ASSUME NEW fds \in [Fd -> Objs], NEW d \in Fd
  PROVE  /\ Close(fds, d) \in [Fd -> Objs] /\ Close(fds, d)[d] = None
         /\ \A e \in Fd : e # d => Close(fds, d)[e] = fds[e]
<1>1. None \in Objs
  BY ObjIs
<1> HIDE DEF None
<1> QED BY <1>1 DEF Close

\* dup into the descriptor just closed, when those below are in use.
LEMMA DupIs ==
  ASSUME NEW fds \in [Fd -> Objs], NEW d \in Fd, fds[d] = None,
         \A e \in Fd : e < d => fds[e] # None, NEW x \in Fd
  PROVE  /\ Dup(fds, x) \in [Fd -> Objs] /\ Dup(fds, x)[d] = fds[x]
         /\ \A e \in Fd : e # d => Dup(fds, x)[e] = fds[e]
<1>1. Lowest(fds) = d
  BY LowestIs
<1> HIDE DEF None
<1> QED BY <1>1 DEF Dup

\* Both ends of the pipe are closed.
LEMMA PairClosed ==
  ASSUME NEW fds \in [Fd -> Objs], MaxFd >= 4, \A e \in Fd : e > 4 => fds[e] = None
  PROVE  /\ 3 \in Fd /\ 4 \in Fd
         /\ Close(Close(fds, 3), 4) \in [Fd -> Objs]
         /\ \A e \in {0, 1, 2} : Close(Close(fds, 3), 4)[e] = fds[e]
         /\ \A e \in Fd : e > 2 => Close(Close(fds, 3), 4)[e] = None
<1>1. 3 \in Fd /\ 4 \in Fd
  BY FewFds DEF Fd
<1> DEFINE g == Close(fds, 3)
           h == Close(g, 4)
<1>2. g \in [Fd -> Objs] /\ g[3] = None /\ \A e \in Fd : e # 3 => g[e] = fds[e]
  BY <1>1, CloseIs
<1> HIDE DEF g
<1>3. h \in [Fd -> Objs] /\ h[4] = None /\ \A e \in Fd : e # 4 => h[e] = g[e]
  BY <1>1, <1>2, CloseIs
<1> HIDE DEF h
<1>4. \A e \in {0, 1, 2} : h[e] = fds[e]
  <2>1. \A e \in {0, 1, 2} : e \in Fd /\ e # 3 /\ e # 4
    BY FewFds
  <2> QED BY <1>2, <1>3, <2>1
<1>5. \A e \in Fd : e > 2 => h[e] = None
  <2>1. \A e \in Fd : e > 2 => e = 3 \/ e = 4 \/ (e > 4 /\ e # 3 /\ e # 4)
    BY FewFds
  <2> HIDE DEF None
  <2> QED BY <1>1, <1>2, <1>3, <2>1
<1> QED BY <1>1, <1>3, <1>4, <1>5 DEF g, h

\* What the two children and the parent make of a table with a pipe in 3 and 4.
LEMMA LeftTable ==
  ASSUME NEW fds \in [Fd -> Objs], MaxFd >= 4, fds[0] # None,
         \A e \in Fd : e > 4 => fds[e] = None, NEW F, F = LeftFds(fds, <<3, 4>>)
  PROVE  /\ F \in [Fd -> Objs] /\ F[0] = fds[0] /\ F[1] = fds[4] /\ F[2] = fds[2]
         /\ \A e \in Fd : e > 2 => F[e] = None
<1> DEFINE g == Close(fds, 1)
           h == Dup(g, 4)
<1>0. /\ 3 \in Fd /\ 4 \in Fd
      /\ \A e \in Fd : e < 1 => e = 0
      /\ \A e \in Fd : e > 4 => e # 1
  BY PairClosed, FewFds
<1>1. F = Close(Close(h, 3), 4)
  BY DEF LeftFds
<1>2. g \in [Fd -> Objs] /\ g[1] = None /\ \A e \in Fd : e # 1 => g[e] = fds[e]
  BY CloseIs, FewFds
<1> HIDE DEF g
<1>3. h \in [Fd -> Objs] /\ h[1] = g[4] /\ \A e \in Fd : e # 1 => h[e] = g[e]
  <2>1. \A e \in Fd : e < 1 => g[e] # None
    BY <1>0, <1>2, FewFds
  <2> QED BY <1>0, <1>2, <2>1, DupIs, FewFds
<1> HIDE DEF h
<1>4. h[0] = fds[0] /\ h[1] = fds[4] /\ h[2] = fds[2] /\ \A e \in Fd : e > 4 => h[e] = None
  BY <1>0, <1>2, <1>3, FewFds
<1> QED BY <1>1, <1>3, <1>4, PairClosed

LEMMA RightTable ==
  ASSUME NEW fds \in [Fd -> Objs], MaxFd >= 4,
         \A e \in Fd : e > 4 => fds[e] = None, NEW F, F = RightFds(fds, <<3, 4>>)
  PROVE  /\ F \in [Fd -> Objs] /\ F[0] = fds[3] /\ F[1] = fds[1] /\ F[2] = fds[2]
         /\ \A e \in Fd : e > 2 => F[e] = None
<1> DEFINE g == Close(fds, 0)
           h == Dup(g, 3)
<1>0. /\ 3 \in Fd /\ 4 \in Fd
      /\ \A e \in Fd : ~(e < 0)
      /\ \A e \in Fd : e > 4 => e # 0
  BY PairClosed, FewFds
<1>1. F = Close(Close(h, 3), 4)
  BY DEF RightFds
<1>2. g \in [Fd -> Objs] /\ g[0] = None /\ \A e \in Fd : e # 0 => g[e] = fds[e]
  BY CloseIs, FewFds
<1> HIDE DEF g
<1>3. h \in [Fd -> Objs] /\ h[0] = g[3] /\ \A e \in Fd : e # 0 => h[e] = g[e]
  BY <1>0, <1>2, DupIs, FewFds
<1> HIDE DEF h
<1>4. h[0] = fds[3] /\ h[1] = fds[1] /\ h[2] = fds[2] /\ \A e \in Fd : e > 4 => h[e] = None
  BY <1>0, <1>2, <1>3, FewFds
<1> QED BY <1>1, <1>3, <1>4, PairClosed

\* The facts about a process that holds a pipe.
LEMMA PipingIs ==
  ASSUME ShInv, NEW q \in Pid, Live(q), proc[q].pc \in Piping
  PROVE  /\ proc[q].fds \in [Fd -> Objs] /\ proc[q].env \in [in : Objs, out : Objs]
         /\ MaxFd >= 4 /\ proc[q].p = <<3, 4>> /\ 3 \in Fd /\ 4 \in Fd
         /\ proc[q].fds[3] # None /\ proc[q].fds[4] # None
         /\ proc[q].fds[3] \in Objs /\ proc[q].fds[4] \in Objs
         /\ proc[q].env.in # None /\ proc[q].env.out # None
         /\ proc[q].fds[0] = proc[q].env.in /\ proc[q].fds[1] = proc[q].env.out /\ proc[q].fds[2] = Tty
         /\ \A e \in Fd : e > 4 => proc[q].fds[e] = None
         /\ proc[q].cmd \in Trees /\ proc[q].cmd.left \in Trees /\ proc[q].cmd.right \in Trees
<1> DEFINE r == proc[q]
<1>1. r \in Recs /\ Table(r) /\ Work(r)
  BY LiveIs
<1>2. r.pc \in Piping /\ r.pc \notin Main
  BY DEF Piping, Main
<1> HIDE DEF r
<1>3. r.fds \in [Fd -> Objs] /\ r.env \in [in : Objs, out : Objs]
  BY <1>1 DEF Recs
<1>4. /\ MaxFd >= 4 /\ r.p = <<3, 4>> /\ r.fds[3] # None /\ r.fds[4] # None
      /\ r.env.in # None /\ r.env.out # None
      /\ r.fds[0] = r.env.in /\ r.fds[1] = r.env.out /\ r.fds[2] = Tty
      /\ \A e \in Fd : e > 4 => r.fds[e] = None
  BY <1>1, <1>2 DEF Table
<1>5. 3 \in Fd /\ 4 \in Fd
  BY <1>4, FewFds DEF Fd
<1>6. r.cmd \in Trees /\ r.cmd.type = "PIPE"
  BY <1>1, <1>2 DEF Work
<1>7. r.cmd.left \in Trees /\ r.cmd.right \in Trees
  BY <1>6, TreeIs
<1> QED BY <1>3, <1>4, <1>5, <1>6, <1>7 DEF r

\* A child has taken its end of the pipe.
LEMMA SideOK ==
  ASSUME ShInv, NEW q \in Pid, Live(q), proc[q].pc \in {"left", "right"},
         NEW n \in Recs, n.st = "live", n.pc = "run", n.parent = proc[q].parent, n.bg = proc[q].bg,
         n.cmd \in Trees, n.fds[0] = n.env.in, n.fds[1] = n.env.out, n.fds[2] = Tty,
         n.env.in # None, n.env.out # None, \A e \in Fd : e > 2 => n.fds[e] = None,
         proc' = [proc EXCEPT ![q] = n], failed' = failed
  PROVE  ShInv'
<1>1. proc[q].st = "live" /\ Waits(Kids(q), proc[q].pc)
  BY LiveIs
<1>2. /\ "run" \notin Piping /\ "run" \notin Main /\ "run" \in Childless /\ "run" # "list_wait"
      /\ "run" # "exit" /\ proc[q].pc \notin Main /\ proc[q].pc \in Childless
  BY DEF Piping, Main, Childless
<1>3. Good(n)
  <2>1. Work(n)
    BY <1>2 DEF Work
  <2>2. Table(n)
    BY <1>2 DEF Table
  <2> QED BY <2>1, <2>2 DEF Good
<1>4. Waits(Kids(q), n.pc)
  <2>1. Kids(q) = {}
    BY <1>1, <1>2, WaitsIs
  <2>2. Waits({}, "run")
    BY <1>2, WaitsIs
  <2> QED BY <2>1, <2>2
<1> QED BY <1>2, <1>3, <1>4, LocalOK

LEMMA LeftOK ==
  ASSUME ShInv, NEW q \in Pid, left(q)
  PROVE  ShInv'
<1> DEFINE r == proc[q]
           F == LeftFds(r.fds, r.p)
           E == [r.env EXCEPT !.out = r.fds[r.p[2]]]
           n == [r EXCEPT !.fds = F, !.pc = "run", !.cmd = r.cmd.left, !.env = E, !.p = <<0, 0>>]
<1>1. Live(q) /\ r.pc = "left" /\ r.pc \in Piping /\ failed' = failed
  BY DEF left, At, Piping
<1>2. proc' = [proc EXCEPT ![q] = n]
  BY DEF left
<1>3. /\ r.fds \in [Fd -> Objs] /\ r.env \in [in : Objs, out : Objs]
      /\ MaxFd >= 4 /\ r.p = <<3, 4>> /\ r.fds[4] # None /\ r.fds[4] \in Objs
      /\ r.env.in # None /\ r.fds[0] = r.env.in /\ r.fds[2] = Tty
      /\ (\A e \in Fd : e > 4 => r.fds[e] = None) /\ r.cmd.left \in Trees
  BY <1>1, PipingIs
<1>4. r \in Recs /\ r.st = "live"
  BY <1>1, LiveIs
<1> HIDE DEF r
<1>5. E \in [in : Objs, out : Objs] /\ E.in = r.env.in /\ E.out = r.fds[4]
  BY <1>3
<1>6. /\ F \in [Fd -> Objs] /\ F[0] = r.fds[0] /\ F[1] = r.fds[4] /\ F[2] = r.fds[2]
      /\ \A e \in Fd : e > 2 => F[e] = None
  <2>1. F = LeftFds(r.fds, <<3, 4>>) /\ r.fds[0] # None
    BY <1>3
  <2> HIDE DEF F
  <2> QED BY <1>3, <2>1, LeftTable
<1> HIDE DEF F, E
<1>7. /\ n \in Recs /\ n.st = "live" /\ n.fds = F /\ n.env = E /\ n.pc = "run"
      /\ n.cmd \in Trees /\ n.parent = r.parent /\ n.bg = r.bg
  <2>1. "run" \in PCs
    BY DEF PCs
  <2> QED BY <1>3, <1>4, <1>5, <1>6, <2>1, FewFds DEF Recs
<1> HIDE DEF n
<1>8. /\ n.fds[0] = n.env.in /\ n.fds[1] = n.env.out /\ n.fds[2] = Tty
      /\ n.env.in # None /\ n.env.out # None /\ r.pc \in {"left", "right"}
      /\ \A e \in Fd : e > 2 => n.fds[e] = None
  BY <1>1, <1>3, <1>5, <1>6, <1>7
<1> QED BY <1>1, <1>2, <1>7, <1>8, SideOK DEF r

LEMMA RightOK ==
  ASSUME ShInv, NEW q \in Pid, right(q)
  PROVE  ShInv'
<1> DEFINE r == proc[q]
           F == RightFds(r.fds, r.p)
           E == [r.env EXCEPT !.in = r.fds[r.p[1]]]
           n == [r EXCEPT !.fds = F, !.pc = "run", !.cmd = r.cmd.right, !.env = E, !.p = <<0, 0>>]
<1>1. Live(q) /\ r.pc = "right" /\ r.pc \in Piping /\ failed' = failed
  BY DEF right, At, Piping
<1>2. proc' = [proc EXCEPT ![q] = n]
  BY DEF right
<1>3. /\ r.fds \in [Fd -> Objs] /\ r.env \in [in : Objs, out : Objs]
      /\ MaxFd >= 4 /\ r.p = <<3, 4>> /\ r.fds[3] # None /\ r.fds[3] \in Objs
      /\ r.env.out # None /\ r.fds[1] = r.env.out /\ r.fds[2] = Tty
      /\ (\A e \in Fd : e > 4 => r.fds[e] = None) /\ r.cmd.right \in Trees
  BY <1>1, PipingIs
<1>4. r \in Recs /\ r.st = "live"
  BY <1>1, LiveIs
<1> HIDE DEF r
<1>5. E \in [in : Objs, out : Objs] /\ E.out = r.env.out /\ E.in = r.fds[3]
  BY <1>3
<1>6. /\ F \in [Fd -> Objs] /\ F[1] = r.fds[1] /\ F[0] = r.fds[3] /\ F[2] = r.fds[2]
      /\ \A e \in Fd : e > 2 => F[e] = None
  <2>1. F = RightFds(r.fds, <<3, 4>>)
    BY <1>3
  <2> HIDE DEF F
  <2> QED BY <1>3, <2>1, RightTable
<1> HIDE DEF F, E
<1>7. /\ n \in Recs /\ n.st = "live" /\ n.fds = F /\ n.env = E /\ n.pc = "run"
      /\ n.cmd \in Trees /\ n.parent = r.parent /\ n.bg = r.bg
  <2>1. "run" \in PCs
    BY DEF PCs
  <2> QED BY <1>3, <1>4, <1>5, <1>6, <2>1, FewFds DEF Recs
<1> HIDE DEF n
<1>8. /\ n.fds[0] = n.env.in /\ n.fds[1] = n.env.out /\ n.fds[2] = Tty
      /\ n.env.in # None /\ n.env.out # None /\ r.pc \in {"left", "right"}
      /\ \A e \in Fd : e > 2 => n.fds[e] = None
  BY <1>1, <1>3, <1>5, <1>6, <1>7
<1> QED BY <1>1, <1>2, <1>7, <1>8, SideOK DEF r

LEMMA ClosePipeOK ==
  ASSUME ShInv, NEW q \in Pid, close_pipe(q)
  PROVE  ShInv'
<1> DEFINE r == proc[q]
           F == ParentFds(r.fds, r.p)
           n == [r EXCEPT !.fds = F, !.pc = "pipe_wait1"]
<1>1. Live(q) /\ r.pc = "close_pipe" /\ r.pc \in Piping /\ failed' = failed
  BY DEF close_pipe, At, Piping
<1>2. proc' = [proc EXCEPT ![q] = n]
  BY DEF close_pipe
<1>3. r \in Recs /\ r.st = "live" /\ Waits(Kids(q), r.pc)
  BY <1>1, LiveIs
<1>4. /\ r.fds \in [Fd -> Objs] /\ MaxFd >= 4 /\ r.p = <<3, 4>>
      /\ r.env.in # None /\ r.env.out # None
      /\ r.fds[0] = r.env.in /\ r.fds[1] = r.env.out /\ r.fds[2] = Tty
      /\ (\A e \in Fd : e > 4 => r.fds[e] = None) /\ r.cmd \in Trees
  BY <1>1, PipingIs
<1>5. /\ "pipe_wait1" \notin Piping /\ "pipe_wait1" \notin Main /\ "pipe_wait1" \in PCs
      /\ "pipe_wait1" \in TwoChildren /\ "close_pipe" \in TwoChildren /\ "close_pipe" \notin Main
      /\ "pipe_wait1" # "list_wait" /\ "pipe_wait1" # "exit"
  BY DEF Piping, Main, PCs, TwoChildren
<1> HIDE DEF r
<1>6. /\ F \in [Fd -> Objs] /\ F[0] = r.fds[0] /\ F[1] = r.fds[1] /\ F[2] = r.fds[2]
      /\ \A e \in Fd : e > 2 => F[e] = None
  <2>1. F = Close(Close(r.fds, 3), 4)
    BY <1>4 DEF ParentFds
  <2> HIDE DEF F
  <2> QED BY <1>4, <2>1, PairClosed
<1> HIDE DEF F
<1>7. /\ n \in Recs /\ n.st = "live" /\ n.fds = F /\ n.env = r.env /\ n.pc = "pipe_wait1"
      /\ n.cmd = r.cmd /\ n.parent = r.parent /\ n.bg = r.bg
  BY <1>3, <1>5, <1>6 DEF Recs
<1> HIDE DEF n
<1>8. Good(n)
  <2>1. Work(n)
    BY <1>4, <1>5, <1>7 DEF Work
  <2>2. Table(n)
    BY <1>4, <1>5, <1>6, <1>7 DEF Table
  <2> QED BY <1>7, <2>1, <2>2 DEF Good
<1>9. Waits(Kids(q), n.pc)
  <2>1. PICK j, k : j # k /\ Kids(q) = {j, k}
    BY <1>1, <1>3, <1>5, WaitsIs
  <2>2. Waits({j, k}, "pipe_wait1")
    BY <1>5, <2>1, WaitsIs
  <2> QED BY <1>7, <2>1, <2>2
<1> QED BY <1>1, <1>2, <1>5, <1>7, <1>8, <1>9, LocalOK DEF r

-----------------------------------------------------------------------------
(* The theorems.                                                           *)

LEMMA InitOK == Init => ShInv
<1> SUFFICES ASSUME Init PROVE ShInv
  OBVIOUS
<1> DEFINE F == [d \in Fd |-> IF d <= 2 THEN Tty ELSE None]
           s == [Free EXCEPT !.st = "live", !.pc = "prompt", !.fds = F]
<1>0. /\ Free \in Recs /\ Good(Free) /\ Free.st = "free" /\ Free.parent = 0
      /\ Free.env.in = Tty /\ Free.env.out = Tty /\ Free.bg = FALSE
  BY FreeIs DEF Free
<1>1. /\ proc = [q \in Pid |-> IF q = Shell THEN s ELSE Free] /\ failed = FALSE
  BY DEF Init
<1>2. /\ F \in [Fd -> Objs] /\ F[0] = Tty /\ F[1] = Tty /\ F[2] = Tty
      /\ \A d \in Fd : d > 2 => F[d] = None
  <2>1. None \in Objs /\ Tty \in Objs
    BY ObjIs
  <2> HIDE DEF None, Tty
  <2> QED BY <2>1, FewFds
<1> HIDE DEF F
<1>3. /\ "prompt" \in PCs /\ "prompt" \notin Piping /\ "prompt" \in Main /\ "prompt" # "list_wait"
      /\ "prompt" # "exit" /\ "prompt" \in Childless
  BY DEF PCs, Piping, Main, Childless
<1>4. /\ s \in Recs /\ s.st = "live" /\ s.pc = "prompt" /\ s.fds = F /\ s.env = Free.env
      /\ s.parent = 0 /\ s.bg = FALSE
  <2> HIDE DEF Free
  <2> QED BY <1>0, <1>2, <1>3 DEF Recs
<1> HIDE DEF s
<1>5. Good(s)
  <2>1. Work(s)
    BY <1>3, <1>4 DEF Work
  <2>2. Table(s)
    BY <1>0, <1>2, <1>3, <1>4, ObjIs DEF Table
  <2> QED BY <1>4, <2>1, <2>2 DEF Good
<1>6. /\ proc \in [Pid -> Recs] /\ proc[Shell] = s
      /\ \A q \in Pid : q # Shell => proc[q] = Free
  BY <1>0, <1>1, <1>4, Pids
<1>7. \A q \in Pid : proc[q].parent = 0 /\ (proc[q].st # "free" => q = Shell)
  BY <1>0, <1>4, <1>6
<1>8. Procs
  BY <1>0, <1>5, <1>6 DEF Procs
<1>9. Parents
  BY <1>7 DEF Parents
<1>10. Acyclic
  BY <1>7, Pids, ZenonT(60) DEF Acyclic
<1>11. \A q \in Pid : Kids(q) = {} /\ (Live(q) => q = Shell)
  BY <1>7, Pids DEF Kids, Live
<1>12. Families
  <2>1. Waits({}, "prompt")
    BY <1>3, WaitsIs
  <2>2. ASSUME NEW q \in Pid, Live(q)
        PROVE  Waits(Kids(q), proc[q].pc) /\ proc[q].pc # "exit"
    BY <1>3, <1>4, <1>6, <1>11, <2>1, <2>2
  <2> QED BY <2>2 DEF Families
<1>13. ShellOK
  BY <1>3, <1>4, <1>6, <1>11 DEF ShellOK, Live
<1>14. Fore
  BY <1>11 DEF Fore
<1> QED BY <1>8, <1>9, <1>10, <1>12, <1>13, <1>14 DEF ShInv

LEMMA StepOK == ShInv /\ [Next]_vars => ShInv'
<1> SUFFICES ASSUME ShInv, [Next]_vars PROVE ShInv'
  OBVIOUS
<1>1. CASE UNCHANGED vars
  BY <1>1 DEF vars, ShInv, Procs, Parents, Acyclic, Families, ShellOK, Fore, Live, Kids
<1>2. ASSUME NEW c \in Commands, getcmd(c) PROVE ShInv'
  BY <1>2, GetcmdOK
<1>3. CASE main_wait
  BY <1>3, MainWaitOK
<1>4. ASSUME NEW q \in Pid, Step(q) PROVE ShInv'
  <2>1. CASE run_exec(q)    BY <2>1, RunExecOK
  <2>2. CASE run_exec_fails(q)  BY <2>2, ExecFailsOK
  <2>3. CASE run_redir(q)   BY <2>3, RedirOK
  <2>4. CASE run_exit(q)    BY <2>4, RunExitOK
  <2>5. CASE run_list(q)    BY <2>5, RunListOK
  <2>6. CASE list_wait(q)   BY <2>6, ListWaitOK
  <2>7. CASE run_pipe(q)    BY <2>7, RunPipeOK
  <2>8. CASE fork_left(q)   BY <2>8, ForkLeftOK
  <2>9. CASE fork_right(q)  BY <2>9, ForkRightOK
  <2>10. CASE left(q)       BY <2>10, LeftOK
  <2>11. CASE right(q)      BY <2>11, RightOK
  <2>12. CASE close_pipe(q) BY <2>12, ClosePipeOK
  <2>13. CASE pipe_wait1(q) BY <2>13, PipeWait1OK
  <2>14. CASE pipe_wait2(q) BY <2>14, PipeWait2OK
  <2>15. CASE run_back(q)   BY <2>15, RunBackOK
  <2>16. CASE put(q)        BY <2>16, PutOK
  <2>17. CASE get(q)        BY <2>17, GetOK
  <2> QED BY <1>4, <2>1, <2>2, <2>3, <2>4, <2>5, <2>6, <2>7, <2>8, <2>9, <2>10, <2>11, <2>12,
             <2>13, <2>14, <2>15, <2>16, <2>17 DEF Step
<1> QED BY <1>1, <1>2, <1>3, <1>4 DEF Next

LEMMA Plumbed == ShInv => Plumbing
<1> SUFFICES ASSUME ShInv PROVE Plumbing
  OBVIOUS
<1>1. TypeOK
  <2> SUFFICES ASSUME NEW q \in Pid
               PROVE  /\ proc[q].st \in {"free", "live", "zombie"}
                      /\ proc[q].parent \in 0 .. MaxProc
                      /\ proc[q].parent # 0 => Live(proc[q].parent)
                      /\ \A d \in Fd : proc[q].fds[d][1] \in {"none", "tty", "file", "r", "w"}
    BY DEF TypeOK
  <2>1. proc[q] \in Recs
    BY DEF ShInv, Procs
  <2>2. /\ proc[q].st \in {"free", "live", "zombie"} /\ proc[q].parent \in 0 .. MaxProc
        /\ \A d \in Fd : proc[q].fds[d] \in Objs
    BY <2>1 DEF Recs
  <2>3. \A d \in Fd : proc[q].fds[d][1] \in {"none", "tty", "file", "r", "w"}
    BY <2>2, ObjIs
  <2>4. proc[q].parent # 0 => Live(proc[q].parent)
    BY DEF ShInv, Parents
  <2> QED BY <2>2, <2>3, <2>4
<1>2. ASSUME NEW q \in Pid, At(q, "put") \/ At(q, "get")
      PROVE  /\ proc[q].fds[0] = proc[q].env.in /\ proc[q].fds[1] = proc[q].env.out
             /\ proc[q].fds[2] = Tty /\ \A d \in Fd : d > 2 => proc[q].fds[d] = None
  <2>1. Live(q) /\ proc[q].pc \notin Piping
    BY <1>2 DEF At, Piping
  <2>2. Table(proc[q])
    BY <2>1, LiveIs
  <2> QED BY <2>1, <2>2 DEF Table
<1> QED BY <1>1, <1>2 DEF Plumbing

LEMMA Ended == ShInv => Foreground
<1> SUFFICES ASSUME ShInv, At(Shell, "prompt")
             PROVE  /\ Kids(Shell) = {}
                    /\ failed \/ \A q \in Pid \ {Shell} : Live(q) => proc[q].bg
  BY DEF Foreground
<1>1. Kids(Shell) = {}
  <2>1. "prompt" \in Childless
    BY DEF Childless
  <2>2. Waits(Kids(Shell), "prompt")
    BY Pids, LiveIs DEF At
  <2> QED BY <2>1, <2>2, WaitsIs
<1>2. ASSUME ~failed, NEW z \in Pid \ {Shell}, Live(z), ~proc[z].bg PROVE FALSE
  <2> DEFINE S == {q \in Pid \ {Shell} : Live(q) /\ ~proc[q].bg}
  <2>1. PICK q \in S : proc[q].parent \notin S
    <3>1. S \in SUBSET Pid /\ z \in S
      BY <1>2
    <3> QED BY <3>1 DEF ShInv, Acyclic
  <2>2. /\ q \in Pid \ {Shell} /\ Live(q) /\ proc[q].parent # 0
        /\ proc[q].parent = Shell \/ ~proc[proc[q].parent].bg
    BY <1>2, <2>1 DEF ShInv, Fore
  <2>3. Live(proc[q].parent) /\ proc[q].parent \in Pid
    BY <2>2 DEF ShInv, Parents, Procs, Recs, Pid
  <2>4. proc[q].parent = Shell
    BY <2>1, <2>2, <2>3
  <2>5. q \in Kids(Shell)
    BY <2>2, <2>4 DEF Kids, Live
  <2> QED BY <1>1, <2>5
<1> QED BY <1>1, <1>2

\* runcmd's plumbing: in every command tree, whatever pipes and redirections it went
\* through, and however its processes are scheduled, a program starts with the input
\* and the output that its place in the tree says, the terminal as 2 and nothing
\* else; and no process has a parent that has ended.
THEOREM PlumbingAlwaysRight == Spec => []Plumbing
<1>1. Spec => []ShInv
  BY InitOK, StepOK, PTL DEF Spec
<1> QED BY <1>1, Plumbed, PTL

\* main's loop: when the shell prompts again it has no child left, and unless a fork
\* or a pipe has failed, all processes of the line have ended that no BACK command
\* started.
THEOREM ForegroundAlwaysEnds == Spec => []Foreground
<1>1. Spec => []ShInv
  BY InitOK, StepOK, PTL DEF Spec
<1> QED BY <1>1, Ended, PTL

=============================================================================
