----------------------------- MODULE BlockCache -----------------------------
(***************************************************************************)
(* kernel/src/disk.c: bread, bwrite and bzero over a direct-mapped,        *)
(* write-through cache of BCACHE_NUM blocks.  A disk transfer is one step  *)
(* per sector (read_disk, write_disk under copy_from_disk, copy_to_disk),  *)
(* so that the machine may stop between any two of them; the cache is      *)
(* memory and starts cold again.                                           *)
(*                                                                         *)
(* A word stands for the bytes a call treats alike: ranges start and end   *)
(* inside sectors as well as at their borders.  Sector k of block no is    *)
(* sector no * SECTORS + k of the drive.                                   *)
(***************************************************************************)
EXTENDS Integers

CONSTANTS
  BCACHE_NUM,  \* cache slots
  BLK_NUM,     \* blocks on the drive
  SECTORS,     \* sectors in a block (8)
  SECTSIZE,    \* words in a sector
  UINT,        \* how many values a uint32_t has (2^32)
  Ranges,      \* the <<off, size>> that calls ask for
  Data, Zero, None

ASSUME CacheAssumption == BCACHE_NUM \in Nat \ {0} /\ BLK_NUM \in Nat
ASSUME SizeAssumption == SECTORS \in Nat \ {0} /\ SECTSIZE \in Nat \ {0}
ASSUME DataAssumption ==
  /\ Zero \in Data
  /\ Ranges \subseteq Nat \X Nat

Blocks == 0 .. (BLK_NUM - 1)
Slots == 0 .. (BCACHE_NUM - 1)

VARIABLES
  disk,    \* disk[no][k]: sector k of block no
  cache,   \* cache[i]: the bcache_t of slot i
  pc,      \* where the call in progress is
  call,    \* its arguments
  sect,    \* loop counter of copy_from_disk and copy_to_disk
  res,     \* what the last bread copied out
  halted   \* an assertion failed

vars == <<disk, cache, pc, call, sect, res, halted>>

\* The cacheless device.  A call that still waits for its block has written
\* nothing; None marks the time between calls.
S == INSTANCE BlockStore WITH
       call <- IF pc = "idle" THEN None ELSE call,
       written <- IF pc \in {"store", "idle"} THEN sect ELSE 0

ASSUME CallAssumption == None \notin S!Calls

Sects == S!Sects
Offs == S!Offs
BLK_SIZE == S!BLK_SIZE

\* What bread and bwrite rely on: they add off and size as uint32_t before
\* they test the sum, and a sum that wraps would pass the test.
ASSUME PromiseAssumption ==
  UINT \in Nat \ {0} /\ BLK_SIZE < UINT /\ \A r \in Ranges : r[1] + r[2] < UINT

ZeroBlock == [k \in Sects |-> [o \in Offs |-> Zero]]
Cold == [i \in Slots |-> [valid |-> FALSE, no |-> 0, buf |-> ZeroBlock]]
Idle == [kind |-> "bread", no |-> 0, range |-> <<0, 0>>, v |-> Zero]

Slot(no) == no % BCACHE_NUM

-----------------------------------------------------------------------------
(* Variants of the definitions below, each with one plausible mistake.     *)

HitAnyBlock(no) == cache[Slot(no)].valid
write_disk_overrun ==
  /\ pc = "store"
  /\ disk' = [disk EXCEPT ![call.no][sect] = cache[Slot(call.no)].buf[sect]]
  /\ sect' = sect + 1
  /\ pc' = IF sect = SECTORS THEN "idle" ELSE "store"
  /\ UNCHANGED <<cache, call, res, halted>>
write_disk_skip ==
  /\ pc = "store"
  /\ pc' = "idle"
  /\ sect' = SECTORS
  /\ disk' = [disk EXCEPT ![call.no][sect] = cache[Slot(call.no)].buf[sect]]
  /\ UNCHANGED <<cache, call, res, halted>>
read_disk_early ==
  /\ pc = "load"
  /\ cache' = [cache EXCEPT ![Slot(call.no)].buf[sect] = disk[call.no][sect],
                            ![Slot(call.no)].valid = TRUE,
                            ![Slot(call.no)].no = call.no]
  /\ sect' = SECTORS
  /\ pc' = "copy"
  /\ UNCHANGED <<disk, call, res, halted>>

-----------------------------------------------------------------------------

Init ==
  /\ disk = [no \in Blocks |-> ZeroBlock]
  /\ cache = Cold
  /\ pc = "idle"
  /\ call = Idle
  /\ sect = 0
  /\ res = None
  /\ halted = FALSE

\* The test of bgetcache.
Hit(no) == cache[Slot(no)].valid /\ cache[Slot(no)].no = no

\* off + size in a uint32_t.
Sum32(range) == (range[1] + range[2]) % UINT

\* A call checks its range and looks for its block in the cache.
Begin(c) ==
  /\ pc = "idle"
  /\ ~halted
  /\ res' = None
  /\ sect' = 0
  /\ IF Sum32(c.range) <= BLK_SIZE
     THEN /\ call' = c
          /\ pc' = IF Hit(c.no) THEN "copy" ELSE "load"
          /\ UNCHANGED halted
     ELSE /\ halted' = TRUE
          /\ UNCHANGED <<call, pc>>
  /\ UNCHANGED <<disk, cache>>

bread(no, r) == Begin([kind |-> "bread", no |-> no, range |-> r, v |-> Zero])
bwrite(no, r, v) == Begin([kind |-> "bwrite", no |-> no, range |-> r, v |-> v])
bzero(no) == Begin([kind |-> "bzero", no |-> no, range |-> S!Whole, v |-> Zero])

\* One round of copy_from_disk in bgetcache; valid and no are set after the
\* last one, and until then name the block the slot held before.
read_disk ==
  /\ pc = "load"
  /\ LET i    == Slot(call.no)
         buf1 == [cache[i].buf EXCEPT ![sect] = disk[call.no][sect]]
         last == sect + 1 = SECTORS
     IN  /\ cache' = [cache EXCEPT ![i] =
                        [valid |-> last \/ @.valid,
                         no |-> IF last THEN call.no ELSE @.no,
                         buf |-> buf1]]
         /\ pc' = IF last THEN "copy" ELSE "load"
  /\ sect' = sect + 1
  /\ UNCHANGED <<disk, call, res, halted>>

\* The memcpy of bread: the call returns.
CopyOut ==
  /\ pc = "copy"
  /\ call.kind = "bread"
  /\ res' = S!Extract(call, cache[Slot(call.no)].buf)
  /\ pc' = "idle"
  /\ sect' = 0
  /\ UNCHANGED <<disk, cache, call, halted>>

\* The memcpy of bwrite and the memset of bzero.
CopyIn ==
  /\ pc = "copy"
  /\ call.kind # "bread"
  /\ cache' = [cache EXCEPT ![Slot(call.no)].buf =
                 [k \in Sects |-> S!Overlay(call, k, @[k])]]
  /\ pc' = "store"
  /\ sect' = 0
  /\ UNCHANGED <<disk, call, res, halted>>

\* One round of copy_to_disk; the call returns after the last.
write_disk ==
  /\ pc = "store"
  /\ disk' = [disk EXCEPT ![call.no][sect] = cache[Slot(call.no)].buf[sect]]
  /\ sect' = sect + 1
  /\ pc' = IF sect' = SECTORS THEN "idle" ELSE "store"
  /\ UNCHANGED <<cache, call, res, halted>>

\* The machine stops and boots again.
Crash ==
  /\ cache' = Cold
  /\ pc' = "idle"
  /\ call' = Idle
  /\ sect' = 0
  /\ res' = None
  /\ halted' = FALSE
  /\ UNCHANGED disk

Next ==
  \/ \E no \in Blocks :
       \/ \E r \in Ranges : bread(no, r) \/ \E v \in Data : bwrite(no, r, v)
       \/ bzero(no)
  \/ read_disk
  \/ CopyOut
  \/ CopyIn
  \/ write_disk
  \/ Crash

Spec == Init /\ [][Next]_vars

-----------------------------------------------------------------------------
(* Properties.                                                             *)

\* Every variable keeps its type; a call in progress has a legal range and the
\* loop counters of the two copy loops stay inside the block.
TypeOK ==
  /\ disk \in [Blocks -> S!Block]
  /\ cache \in [Slots -> [valid : BOOLEAN, no : Nat, buf : S!Block]]
  /\ pc \in {"idle", "load", "copy", "store"}
  /\ pc = "idle" => call \in S!Calls \cup {Idle}
  /\ sect \in 0 .. SECTORS
  /\ halted \in BOOLEAN
  /\ pc \in {"load", "store"} => sect < SECTORS
  /\ pc # "idle" => call \in S!Calls /\ call.range[1] + call.range[2] <= BLK_SIZE

\* The slot that the call in progress fills or has filled.
InUse(i) == pc # "idle" /\ i = Slot(call.no)

\* A valid slot holds the block it names as the disk has it, at every moment
\* that matters: slots that no call works on, the slot of a call about to copy
\* (bgetcache has just returned), and, while bwrite and bzero write through,
\* the slot whose sectors up to sect are on the disk and whose others differ
\* from the disk in the range of the call only.
Coherent ==
  /\ \A i \in Slots :
       cache[i].valid /\ ~InUse(i) =>
         /\ cache[i].no \in Blocks
         /\ Slot(cache[i].no) = i
         /\ cache[i].buf = disk[cache[i].no]
  /\ pc = "load" =>
       \A k \in 0 .. (sect - 1) : cache[Slot(call.no)].buf[k] = disk[call.no][k]
  /\ pc \in {"copy", "store"} => Hit(call.no)
  /\ pc = "copy" => cache[Slot(call.no)].buf = disk[call.no]
  /\ pc = "store" => call.kind # "bread"
  /\ pc = "store" =>
       \A k \in Sects :
         cache[Slot(call.no)].buf[k] =
           IF k < sect THEN disk[call.no][k] ELSE S!Overlay(call, k, disk[call.no][k])

\* A step changes only words in the range of the write in progress, though
\* bwrite and bzero write back whole sectors: no stale word of the cache, and
\* no other block, ever reaches the disk.
OnlyTargetWords ==
  \A no \in Blocks, k \in Sects, o \in Offs :
    disk'[no][k][o] # disk[no][k][o] =>
      /\ pc = "store"
      /\ no = call.no
      /\ S!InRange(call, k, o)
      /\ disk'[no][k][o] = call.v
DiskWrites == [][OnlyTargetWords]_vars

\* The cache cannot be seen: disk.c behaves as the cacheless device does, over
\* every sequence of calls, evictions and crashes.
ImplementsBlockStore == S!SSpec

=============================================================================
