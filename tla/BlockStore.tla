----------------------------- MODULE BlockStore -----------------------------
(***************************************************************************)
(* What bread, bwrite and bzero of kernel/src/disk.c promise: a block      *)
(* device without a cache.  A call names a block and a range of words.  A  *)
(* read returns what the disk holds at that moment; a write goes to the    *)
(* disk one sector after the other, in order, and touches no word outside  *)
(* its range.  A crash abandons the call in progress, so that a write it   *)
(* interrupts has reached a prefix of the block's sectors.                 *)
(***************************************************************************)
EXTENDS Integers

CONSTANTS
  Blocks,    \* block numbers
  SECTORS,   \* sectors in a block
  SECTSIZE,  \* words in a sector
  Ranges,    \* the <<off, size>> that calls ask for
  Data,      \* contents of a word
  Zero,      \* the word 0
  None       \* marks a word that a read does not return, and "no call"

Sects == 0 .. (SECTORS - 1)
Offs == 0 .. (SECTSIZE - 1)
BLK_SIZE == SECTORS * SECTSIZE
Sector == [Offs -> Data]
Block == [Sects -> Sector]

Kinds == {"bread", "bwrite", "bzero"}
Whole == <<0, BLK_SIZE>>
Calls == [kind : Kinds, no : Blocks, range : Ranges \cup {Whole}, v : Data]

VARIABLES
  disk,     \* disk[no][k]: sector k of block no
  call,     \* the call in progress, or None
  written,  \* how many sectors of it are on the disk
  res,      \* what the last read returned
  halted    \* the assertion on a call's range failed

svars == <<disk, call, written, res, halted>>

\* Word o of sector k lies in the range of the call c.
InRange(c, k, o) ==
  LET w == k * SECTSIZE + o IN w >= c.range[1] /\ w < c.range[1] + c.range[2]

\* What a write makes of the sector content s, and what a read returns of it.
Overlay(c, k, s) == [o \in Offs |-> IF InRange(c, k, o) THEN c.v ELSE s[o]]
Extract(c, blk) ==
  [k \in Sects |-> [o \in Offs |-> IF InRange(c, k, o) THEN blk[k][o] ELSE None]]

SInit ==
  /\ disk \in [Blocks -> Block]
  /\ call = None
  /\ written = 0
  /\ res = None
  /\ halted = FALSE

Invoke(c) ==
  /\ ~halted
  /\ call = None
  /\ IF c.range[1] + c.range[2] <= BLK_SIZE
     THEN call' = c /\ halted' = FALSE
     ELSE call' = None /\ halted' = TRUE
  /\ written' = 0
  /\ res' = None
  /\ UNCHANGED disk

Read ==
  /\ call # None
  /\ call.kind = "bread"
  /\ res' = Extract(call, disk[call.no])
  /\ call' = None
  /\ UNCHANGED <<disk, written, halted>>

WriteSector ==
  /\ call # None
  /\ call.kind # "bread"
  /\ written < SECTORS
  /\ disk' = [disk EXCEPT ![call.no][written] = Overlay(call, written, @)]
  /\ written' = written + 1
  /\ call' = IF written' = SECTORS THEN None ELSE call
  /\ UNCHANGED <<res, halted>>

Crash ==
  /\ call' = None
  /\ written' = 0
  /\ res' = None
  /\ halted' = FALSE
  /\ UNCHANGED disk

SNext ==
  \/ \E c \in Calls : Invoke(c)
  \/ Read
  \/ WriteSector
  \/ Crash

SSpec == SInit /\ [][SNext]_svars
=============================================================================
