------------------------------- MODULE Malloc -------------------------------
(***************************************************************************)
(* user/ulib/stdlib.c: sbrk, malloc, free and morecore, the first-fit      *)
(* allocator of user programs.  Addresses count Header units.  Free blocks *)
(* form a circular list in address order that starts at the static base;   *)
(* a block is a header (ptr, size) and the units behind it.  The loops of  *)
(* malloc and free take one step per block they look at, so that their     *)
(* termination is a property and not an assumption.                        *)
(*                                                                         *)
(* brk() is the kernel's: it may refuse.  live is history: the blocks the  *)
(* program holds, with the units it asked for; core the regions that       *)
(* morecore obtained, raw the one the program took with sbrk itself.       *)
(***************************************************************************)
EXTENDS Integers, FiniteSets, FiniteSetsExt

CONSTANTS
  MaxAddr,    \* bound: end of the address space
  NALLOC,     \* least number of units morecore asks for (4096)
  MaxUnits,   \* bound: units of a request
  NIL

Base == 0        \* &base
HeapStart == 2   \* the first page above the program's data
Addr == 0 .. (MaxAddr - 1)

ASSUME MallocAssumption ==
  /\ MaxAddr \in Nat /\ MaxAddr > HeapStart
  /\ NALLOC \in Nat \ {0} /\ MaxUnits \in Nat /\ NIL \notin Nat

VARIABLES
  mem,     \* mem[a]: the header at address a
  freep,
  brk,     \* old_brk of sbrk, NIL before the first call
  pc,      \* "idle", "scan" (loop of malloc), "find" (loop of free) or "aborted"
  p, prevp, bp, nunits,
  inCore,  \* free was called by morecore
  live, core, raw

locals == <<p, prevp, bp, nunits, inCore>>
vars == <<mem, freep, brk, pc, locals, live, core, raw>>

\* What a unit that is no header holds: whatever the program wrote there or an
\* older header, so that nothing may be read from it.
Poison == [ptr |-> NIL, size |-> 0]

Units(a, n) == a .. (a + n - 1)

-----------------------------------------------------------------------------
(* Variants of the definitions below, each with one plausible mistake.     *)

\* free never joins with the block above.
LinkUpNeverJoins(m, b, q) == [m EXCEPT ![b].ptr = m[q].ptr]
\* free does not know the two ends of the arena.
StopsInside(b, q) == b > q /\ b < mem[q].ptr
\* malloc wants one unit more than it needs.
FitsStrictly(q) == mem[q].size > nunits
\* malloc cuts off the tail and leaves the size of the rest as it was.
SplitKeepsSize(m, q, n) ==
  [m EXCEPT ![q + m[q].size - n] = [ptr |-> NIL, size |-> n]]

-----------------------------------------------------------------------------

\* No call is under way.
NoCall ==
  /\ pc = "idle" /\ p = NIL /\ prevp = NIL /\ bp = NIL /\ nunits = 0
  /\ inCore = FALSE

Init ==
  /\ mem = [a \in Addr |-> Poison]
  /\ freep = NIL /\ brk = NIL
  /\ NoCall
  /\ live = [a \in {} |-> 0] /\ core = {} /\ raw = {}

\* sbrk(n), n units: the break it starts from; brk() may fail, and must when
\* there is no more address space.
Break == IF brk = NIL THEN HeapStart ELSE brk
brk_ok(n) == Break + n <= MaxAddr

\* The program's own use of sbrk: it takes a region, or gets none, and gives the
\* region back while it is still at the top of the heap.
sbrk_take(n) ==
  /\ pc = "idle" /\ raw = {} /\ brk_ok(n)
  /\ raw' = Units(Break, n)
  /\ brk' = Break + n
  /\ UNCHANGED <<mem, freep, pc, locals, live, core>>
sbrk_refused ==
  /\ pc = "idle" /\ brk' = Break
  /\ UNCHANGED <<mem, freep, pc, locals, live, core, raw>>
sbrk_give ==
  /\ pc = "idle" /\ raw # {} /\ brk = Max(raw) + 1
  /\ brk' = Min(raw)
  /\ raw' = {}
  /\ UNCHANGED <<mem, freep, pc, locals, live, core>>

\* A call that returns forgets its locals.
Return ==
  /\ pc' = "idle" /\ p' = NIL /\ prevp' = NIL /\ bp' = NIL /\ nunits' = 0
  /\ inCore' = FALSE

\* malloc, up to its loop: the first call makes the empty list.
malloc(n) ==
  /\ pc = "idle"
  /\ nunits' = n
  /\ pc' = "scan"
  /\ IF freep = NIL
     THEN /\ mem' = [mem EXCEPT ![Base] = [ptr |-> Base, size |-> 0]]
          /\ freep' = Base /\ prevp' = Base /\ p' = Base
     ELSE /\ prevp' = freep /\ p' = mem[freep].ptr
          /\ UNCHANGED <<mem, freep>>
  /\ UNCHANGED <<brk, bp, inCore, live, core, raw>>

Fits(q) == mem[q].size >= nunits

\* Cut n units off the tail of block q.
Split(m, q, n) ==
  [m EXCEPT ![q].size = @ - n, ![q + m[q].size - n] = [ptr |-> NIL, size |-> n]]

\* The program now holds block a: it may write over all but the header, whose
\* ptr means nothing any more.
Hand(m, a) ==
  /\ mem' = [m EXCEPT ![a].ptr = NIL]
  /\ live' = [b \in DOMAIN live \cup {a} |-> IF b = a THEN nunits ELSE live[b]]

MallocExact ==
  /\ pc = "scan" /\ Fits(p) /\ mem[p].size = nunits
  /\ Hand([mem EXCEPT ![prevp].ptr = mem[p].ptr], p)
  /\ freep' = prevp
  /\ Return
  /\ UNCHANGED <<brk, core, raw>>

MallocSplit ==
  /\ pc = "scan" /\ Fits(p) /\ mem[p].size # nunits
  /\ Hand(Split(mem, p, nunits), p + mem[p].size - nunits)
  /\ freep' = prevp
  /\ Return
  /\ UNCHANGED <<brk, core, raw>>

MallocNext ==
  /\ pc = "scan" /\ ~Fits(p) /\ p # freep
  /\ prevp' = p /\ p' = mem[p].ptr
  /\ UNCHANGED <<mem, freep, brk, pc, bp, nunits, inCore, live, core, raw>>

\* The whole list has been seen: morecore.  It asks for at least NALLOC units
\* and frees them into the list.
CoreUnits == Max({nunits, NALLOC})
morecore ==
  /\ pc = "scan" /\ ~Fits(p) /\ p = freep
  /\ brk_ok(CoreUnits)
  /\ brk' = Break + CoreUnits
  /\ mem' = [mem EXCEPT ![Break] = [ptr |-> NIL, size |-> CoreUnits]]
  /\ core' = core \cup Units(Break, CoreUnits)
  /\ bp' = Break /\ p' = freep /\ inCore' = TRUE
  /\ pc' = "find"
  /\ UNCHANGED <<freep, prevp, nunits, live, raw>>
morecore_fails ==
  /\ pc = "scan" /\ ~Fits(p) /\ p = freep
  /\ brk' = Break
  /\ Return
  /\ UNCHANGED <<mem, freep, live, core, raw>>

\* The very first sbrk, of the program or of morecore, asserts that brk() accepts
\* the break as it is; when it does not, the program ends.
sbrk_aborts ==
  /\ brk = NIL
  /\ pc = "idle" \/ (pc = "scan" /\ ~Fits(p) /\ p = freep)
  /\ pc' = "aborted"
  /\ UNCHANGED <<mem, freep, brk, locals, live, core, raw>>

\* free of a block the program holds.
free(a) ==
  /\ pc = "idle"
  /\ bp' = a /\ p' = freep /\ inCore' = FALSE
  /\ live' = [b \in DOMAIN live \ {a} |-> live[b]]
  /\ pc' = "find"
  /\ UNCHANGED <<mem, freep, brk, prevp, nunits, core, raw>>

\* Block b belongs behind q: between two blocks, or at either end of the arena.
Stops(b, q) ==
  \/ b > q /\ b < mem[q].ptr
  \/ q >= mem[q].ptr /\ (b > q \/ b < mem[q].ptr)

\* Join b with the block above it, or point it there.
LinkUp(m, b, q) ==
  LET up == m[q].ptr IN
  IF b + m[b].size = up
  THEN [m EXCEPT ![b] = [ptr |-> m[up].ptr, size |-> @.size + m[up].size],
                 ![up] = Poison]
  ELSE [m EXCEPT ![b].ptr = up]

\* Join the block below with b, or point it at b.
LinkDown(m, b, q) ==
  IF q + m[q].size = b
  THEN [m EXCEPT ![q] = [ptr |-> m[b].ptr, size |-> @.size + m[b].size],
                 ![b] = Poison]
  ELSE [m EXCEPT ![q].ptr = b]

FreeNext ==
  /\ pc = "find" /\ ~Stops(bp, p)
  /\ p' = mem[p].ptr
  /\ UNCHANGED <<mem, freep, brk, pc, prevp, bp, nunits, inCore, live, core, raw>>

\* The block goes into the list; after morecore the loop of malloc goes on
\* behind freep.
FreeLink ==
  /\ pc = "find" /\ Stops(bp, p)
  /\ mem' = LinkDown(LinkUp(mem, bp, p), bp, p)
  /\ freep' = p
  /\ IF inCore
     THEN /\ pc' = "scan" /\ prevp' = p /\ p' = mem'[p].ptr
          /\ bp' = NIL /\ inCore' = FALSE /\ nunits' = nunits
     ELSE Return
  /\ UNCHANGED <<brk, live, core, raw>>

Step ==
  \/ MallocExact \/ MallocSplit \/ MallocNext \/ morecore \/ morecore_fails
  \/ FreeNext \/ FreeLink

Next ==
  \/ \E n \in 1 .. MaxUnits : malloc(n) \/ sbrk_take(n)
  \/ sbrk_refused \/ sbrk_give \/ sbrk_aborts
  \/ \E a \in DOMAIN live : free(a)
  \/ Step

\* A call runs to its end: nothing else happens in a process meanwhile.
Spec == Init /\ [][Next]_vars /\ WF_vars(Step)

-----------------------------------------------------------------------------
(* Properties.                                                             *)

TypeOK ==
  /\ mem \in [Addr -> [ptr : Addr \cup {NIL}, size : 0 .. MaxAddr]]
  /\ freep \in Addr \cup {NIL}
  /\ brk \in (HeapStart .. MaxAddr) \cup {NIL}
  /\ pc \in {"idle", "scan", "find", "aborted"}
  /\ pc \in {"scan", "find"} => p \in Addr

\* What following ptr from base meets, and the blocks of the list.
After[k \in 0 .. MaxAddr] == IF k = 0 THEN Base ELSE mem[After[k - 1]].ptr
FreeBlocks == {After[k] : k \in 1 .. MaxAddr} \ {Base}
Listed == freep # NIL
ListCloses == \E k \in 1 .. MaxAddr : After[k] = Base

\* The free list is circular through base, in address order, with a gap before
\* every block: neighbours have been joined (the two tests of free), and freep
\* is one of its blocks.
ListOK ==
  /\ TypeOK
  /\ Listed =>
       /\ ListCloses
       /\ freep \in FreeBlocks \cup {Base}
       /\ \A b \in FreeBlocks :
            /\ mem[b].size > 0
            /\ mem[b].ptr # Base => b + mem[b].size < mem[b].ptr

\* Every unit that morecore obtained is in exactly one place: a free block, a
\* block the program holds, or the block that free is inserting.  Nothing is
\* leaked, nothing is handed out twice, and the header of a held block keeps the
\* size that free will read, though the program writes all over the block.
Pieces ==
  {<<b, mem[b].size>> : b \in IF Listed /\ ListCloses THEN FreeBlocks ELSE {}}
    \cup {<<a, live[a]>> : a \in DOMAIN live}
    \cup (IF pc = "find" THEN {<<bp, mem[bp].size>>} ELSE {})
Partition ==
  /\ UNION {Units(x[1], x[2]) : x \in Pieces} = core
  /\ \A x, y \in Pieces : x # y => Units(x[1], x[2]) \cap Units(y[1], y[2]) = {}
  /\ \A a \in DOMAIN live : mem[a].size = live[a]
  /\ core \cap raw = {}

\* malloc gives up only when brk() has refused and no free block is large
\* enough: the loop has really seen the whole list.
GivesUp ==
  pc = "scan" /\ pc' = "idle" /\ live' = live =>
    \A b \in FreeBlocks : mem[b].size < nunits
NullMeansNoFit == [][GivesUp]_vars

\* Every malloc and every free comes to an end: neither loop runs round the
\* list for ever.  Only the assertion of sbrk ends a call and the program with it.
CallsReturn == pc \in {"scan", "find"} ~> pc \in {"idle", "aborted"}

=============================================================================
