-------------------------- MODULE BlockCacheProofs --------------------------
(***************************************************************************)
(* Proofs about BlockCache, for every cache size, block size and disk.     *)
(* TypeOK /\ Coherent is inductive: coherence is stated for every stage of *)
(* a call, so that each step re-establishes the stage that follows it.     *)
(***************************************************************************)
EXTENDS BlockCache, TLAPS

IInv == TypeOK /\ Coherent

LEMMA SlotType == \A no \in Nat : Slot(no) \in Slots
BY CacheAssumption DEF Slot, Slots

\* What a call in progress is: facts that every step below uses.
LEMMA Busy ==
  ASSUME TypeOK, pc # "idle"
  PROVE  /\ call \in S!Calls /\ call.no \in Blocks /\ call.no \in Nat
         /\ call.v \in Data
         /\ Slot(call.no) \in Slots
         /\ cache[Slot(call.no)] \in [valid : BOOLEAN, no : Nat, buf : S!Block]
         /\ disk[call.no] \in S!Block
<1>1. call \in S!Calls /\ call.no \in Blocks /\ call.v \in Data
  BY DEF TypeOK, S!Calls
<1>2. call.no \in Nat
  BY <1>1 DEF Blocks
<1> QED BY <1>1, <1>2, SlotType DEF TypeOK

\* A write's overlay is again the content of a sector.
LEMMA OverlayType ==
  ASSUME NEW c, c.v \in Data, NEW k, NEW s \in S!Sector
  PROVE  S!Overlay(c, k, s) \in S!Sector
BY DEF S!Overlay, S!Sector

LEMMA BlockSector ==
  ASSUME NEW b \in S!Block, NEW k \in Sects
  PROVE  b[k] \in S!Sector
BY DEF S!Block, Sects

LEMMA InitIInv == Init => IInv
<1> SUFFICES ASSUME Init PROVE IInv
  OBVIOUS
<1>1. ZeroBlock \in S!Block
  BY DataAssumption DEF ZeroBlock, S!Block, S!Sector, Sects, Offs
<1>2. TypeOK
  <2>1. cache \in [Slots -> [valid : BOOLEAN, no : Nat, buf : S!Block]]
    BY <1>1 DEF Init, Cold
  <2>2. disk \in [Blocks -> S!Block]
    BY <1>1 DEF Init
  <2>3. sect \in 0 .. SECTORS
    BY SizeAssumption DEF Init
  <2>4. pc = "idle" /\ halted \in BOOLEAN /\ call \in S!Calls \cup {Idle}
    BY DEF Init
  <2> QED BY <2>1, <2>2, <2>3, <2>4 DEF TypeOK
<1>3. Coherent
  BY DEF Init, Coherent, Cold
<1> QED BY <1>2, <1>3 DEF IInv

\* The arguments of the three calls are calls of the device.
LEMMA BeginCall ==
  ASSUME NEW no \in Blocks,
         \/ \E r \in Ranges : bread(no, r) \/ \E v \in Data : bwrite(no, r, v)
         \/ bzero(no)
  PROVE  \E c \in S!Calls : Begin(c)
<1>1. ASSUME NEW r \in Ranges, bread(no, r) PROVE \E c \in S!Calls : Begin(c)
  <2> DEFINE c == [kind |-> "bread", no |-> no, range |-> r, v |-> Zero]
  <2>1. c \in S!Calls
    BY DataAssumption DEF S!Calls, S!Kinds
  <2>2. Begin(c)
    BY <1>1 DEF bread
  <2> HIDE DEF c
  <2> QED BY <2>1, <2>2
<1>2. ASSUME NEW r \in Ranges, NEW v \in Data, bwrite(no, r, v)
      PROVE  \E c \in S!Calls : Begin(c)
  <2> DEFINE c == [kind |-> "bwrite", no |-> no, range |-> r, v |-> v]
  <2>1. c \in S!Calls
    BY DEF S!Calls, S!Kinds
  <2>2. Begin(c)
    BY <1>2 DEF bwrite
  <2> HIDE DEF c
  <2> QED BY <2>1, <2>2
<1>3. ASSUME bzero(no) PROVE \E c \in S!Calls : Begin(c)
  <2> DEFINE c == [kind |-> "bzero", no |-> no, range |-> S!Whole, v |-> Zero]
  <2>1. c \in S!Calls
    BY DataAssumption DEF S!Calls, S!Kinds
  <2>2. Begin(c)
    BY <1>3 DEF bzero
  <2> HIDE DEF c
  <2> QED BY <2>1, <2>2
<1> QED BY <1>1, <1>2, <1>3

\* The sum that a call is tested with is the sum of its offset and its size.
LEMMA NoWrap ==
  ASSUME NEW c \in S!Calls
  PROVE  Sum32(c.range) = c.range[1] + c.range[2]
<1>1. c.range \in Ranges \cup {S!Whole}
  BY DEF S!Calls
<1>2. CASE c.range \in Ranges
  <2>1. c.range[1] \in Nat /\ c.range[2] \in Nat
    BY <1>2, DataAssumption
  <2>2. c.range[1] + c.range[2] \in 0 .. (UINT - 1)
    BY <1>2, <2>1, PromiseAssumption
  <2> QED BY <2>2, PromiseAssumption DEF Sum32
<1>3. CASE c.range = S!Whole
  <2>1. c.range[1] = 0 /\ c.range[2] = BLK_SIZE
    BY <1>3 DEF S!Whole, BLK_SIZE
  <2>2. BLK_SIZE \in Nat
    BY SizeAssumption DEF BLK_SIZE, S!BLK_SIZE
  <2>3. c.range[1] + c.range[2] \in 0 .. (UINT - 1)
    BY <2>1, <2>2, PromiseAssumption
  <2> QED BY <2>3, PromiseAssumption DEF Sum32
<1> QED BY <1>1, <1>2, <1>3

LEMMA BeginKeepsIInv ==
  ASSUME IInv, NEW c \in S!Calls, Begin(c)
  PROVE  IInv'
<1>1. /\ pc = "idle" /\ sect' = 0 /\ disk' = disk /\ cache' = cache
      /\ TypeOK /\ Coherent
  BY DEF Begin, IInv
<1>2. CASE c.range[1] + c.range[2] <= BLK_SIZE
  <2>1. /\ call' = c /\ halted' = halted
        /\ pc' = IF Hit(c.no) THEN "copy" ELSE "load"
    BY <1>2, NoWrap DEF Begin
  <2>2. c.no \in Blocks /\ Slot(c.no) \in Slots
    <3>1. c.no \in Blocks /\ c.no \in Nat
      BY DEF S!Calls, Blocks
    <3> QED BY <3>1, SlotType
  <2>3. TypeOK'
    BY <1>1, <1>2, <2>1, SizeAssumption DEF TypeOK
  <2>4. \A i \in Slots : cache[i].valid =>
          /\ cache[i].no \in Blocks
          /\ Slot(cache[i].no) = i
          /\ cache[i].buf = disk[cache[i].no]
    BY <1>1 DEF Coherent, InUse
  <2>5. Coherent'
    <3>1. CASE Hit(c.no)
      <4>1. pc' = "copy" /\ cache[Slot(c.no)].buf = disk[c.no] /\ Hit(c.no)
        BY <2>1, <2>2, <2>4, <3>1 DEF Hit
      <4> QED BY <4>1, <1>1, <2>1, <2>4 DEF Coherent, Hit
    <3>2. CASE ~Hit(c.no)
      <4>1. pc' = "load"
        BY <2>1, <3>2
      <4> QED BY <4>1, <1>1, <2>1, <2>4 DEF Coherent
    <3> QED BY <3>1, <3>2
  <2> QED BY <2>3, <2>5 DEF IInv
<1>3. CASE ~(c.range[1] + c.range[2] <= BLK_SIZE)
  <2>1. call' = call /\ pc' = pc /\ halted' = TRUE
    BY <1>3, NoWrap DEF Begin
  <2>2. TypeOK'
    BY <1>1, <2>1, SizeAssumption DEF TypeOK
  <2>3. Coherent'
    BY <1>1, <2>1 DEF Coherent, InUse
  <2> QED BY <2>2, <2>3 DEF IInv
<1> QED BY <1>2, <1>3

LEMMA ReadDiskKeepsIInv ==
  ASSUME IInv, read_disk
  PROVE  IInv'
<1> DEFINE i == Slot(call.no)
           last == sect + 1 = SECTORS
           buf1 == [cache[i].buf EXCEPT ![sect] = disk[call.no][sect]]
<1>1. /\ pc = "load" /\ sect' = sect + 1
      /\ disk' = disk /\ call' = call /\ halted' = halted
      /\ cache' = [cache EXCEPT ![i] = [valid |-> last \/ cache[i].valid,
                                        no |-> IF last THEN call.no ELSE cache[i].no,
                                        buf |-> buf1]]
      /\ pc' = IF last THEN "copy" ELSE "load"
      /\ TypeOK /\ Coherent
  BY DEF read_disk, IInv
<1>2. /\ call \in S!Calls /\ call.no \in Blocks /\ call.no \in Nat
      /\ i \in Slots
      /\ cache[i] \in [valid : BOOLEAN, no : Nat, buf : S!Block]
      /\ disk[call.no] \in S!Block
  BY <1>1, Busy
<1>3. sect \in Sects /\ sect \in Nat /\ sect < SECTORS /\ sect' \in 0 .. SECTORS
      /\ (~last => sect' < SECTORS)
  BY <1>1, SizeAssumption DEF TypeOK, Sects, S!Sects
<1>4. buf1 \in S!Block
  BY <1>2, <1>3, BlockSector DEF S!Block, Sects
<1>5. cache' \in [Slots -> [valid : BOOLEAN, no : Nat, buf : S!Block]]
  <2>1. [valid |-> last \/ cache[i].valid, no |-> IF last THEN call.no ELSE cache[i].no, buf |-> buf1]
           \in [valid : BOOLEAN, no : Nat, buf : S!Block]
    BY <1>2, <1>4
  <2> QED BY <1>1, <2>1 DEF TypeOK
<1>6. TypeOK'
  BY <1>1, <1>2, <1>3, <1>5 DEF TypeOK
<1>7. /\ \A j \in Slots : j # i => cache'[j] = cache[j]
      /\ cache'[i].valid = (last \/ cache[i].valid)
      /\ cache'[i].no = IF last THEN call.no ELSE cache[i].no
      /\ cache'[i].buf = buf1
  BY <1>1, <1>2 DEF TypeOK
<1>8. \A k \in 0 .. sect : buf1[k] = disk[call.no][k]
  <2> SUFFICES ASSUME NEW k \in 0 .. sect PROVE buf1[k] = disk[call.no][k]
    OBVIOUS
  <2>1. k \in Sects
    BY <1>3, SizeAssumption DEF Sects, S!Sects
  <2>2. CASE k = sect
    BY <2>1, <2>2, <1>2, <1>3 DEF S!Block, Sects
  <2>3. CASE k # sect
    <3>1. k \in 0 .. (sect - 1)
      BY <2>3, <1>3
    <3>2. cache[i].buf[k] = disk[call.no][k]
      BY <3>1, <1>1 DEF Coherent
    <3> QED BY <2>1, <2>3, <3>2, <1>2, <1>3 DEF S!Block, Sects
  <2> QED BY <2>2, <2>3
<1>9. last => buf1 = disk[call.no]
  <2> SUFFICES ASSUME last PROVE buf1 = disk[call.no]
    OBVIOUS
  <2>1. \A k \in Sects : buf1[k] = disk[call.no][k]
    BY <1>3, <1>8, SizeAssumption DEF Sects, S!Sects
  <2> HIDE DEF buf1
  <2> QED BY <2>1, <1>2, <1>4 DEF S!Block, Sects
<1>10. \A j \in Slots : cache'[j].valid /\ j # i =>
          /\ cache'[j].no \in Blocks
          /\ Slot(cache'[j].no) = j
          /\ cache'[j].buf = disk[cache'[j].no]
  BY <1>1, <1>7 DEF Coherent, InUse
<1> HIDE DEF buf1, i
<1>11. Coherent'
  <2>1. CASE last
    <3>1. pc' = "copy" /\ cache'[i].valid /\ cache'[i].no = call.no /\ cache'[i].buf = disk[call.no]
      BY <2>1, <1>1, <1>7, <1>9
    <3> QED BY <3>1, <1>1, <1>10 DEF Coherent, InUse, Hit, i
  <2>2. CASE ~last
    <3>1. pc' = "load" /\ cache'[i].buf = buf1
      BY <2>2, <1>1, <1>7
    <3>2. \A k \in 0 .. (sect' - 1) : cache'[i].buf[k] = disk'[call'.no][k]
      <4>1. sect' - 1 = sect
        BY <1>1, <1>3
      <4> QED BY <4>1, <3>1, <1>1, <1>8
    <3> QED BY <3>1, <3>2, <1>1, <1>10 DEF Coherent, InUse, i
  <2> QED BY <2>1, <2>2
<1> QED BY <1>6, <1>11 DEF IInv

LEMMA CopyOutKeepsIInv ==
  ASSUME IInv, CopyOut
  PROVE  IInv'
<1>1. /\ pc = "copy" /\ pc' = "idle" /\ sect' = 0
      /\ disk' = disk /\ cache' = cache /\ call' = call /\ halted' = halted
      /\ TypeOK /\ Coherent
  BY DEF CopyOut, IInv
<1>2. call \in S!Calls /\ call.no \in Blocks /\ Slot(call.no) \in Slots
  BY <1>1, Busy
<1>3. TypeOK'
  BY <1>1, <1>2, SizeAssumption DEF TypeOK
<1>4. Coherent'
  <2>1. Hit(call.no) /\ cache[Slot(call.no)].buf = disk[call.no]
    BY <1>1 DEF Coherent
  <2> QED BY <1>1, <1>2, <2>1 DEF Coherent, InUse, Hit
<1> QED BY <1>3, <1>4 DEF IInv

LEMMA CopyInKeepsIInv ==
  ASSUME IInv, CopyIn
  PROVE  IInv'
<1> DEFINE i == Slot(call.no)
           old == cache[i].buf
           buf1 == [k \in Sects |-> S!Overlay(call, k, old[k])]
<1>1. /\ pc = "copy" /\ pc' = "store" /\ sect' = 0 /\ call.kind # "bread"
      /\ disk' = disk /\ call' = call /\ halted' = halted
      /\ cache' = [cache EXCEPT ![i].buf = buf1]
      /\ TypeOK /\ Coherent
  BY DEF CopyIn, IInv
<1>2. /\ call \in S!Calls /\ call.no \in Blocks /\ call.v \in Data
      /\ i \in Slots
      /\ cache[i] \in [valid : BOOLEAN, no : Nat, buf : S!Block]
  BY <1>1, Busy
<1>3. buf1 \in S!Block
  <2>1. \A k \in Sects : old[k] \in S!Sector
    BY <1>2, BlockSector
  <2>2. \A k \in Sects : S!Overlay(call, k, old[k]) \in S!Sector
    BY <1>2, <2>1, OverlayType
  <2> QED BY <2>2 DEF S!Block, Sects
<1> HIDE DEF buf1
<1>4. /\ cache' \in [Slots -> [valid : BOOLEAN, no : Nat, buf : S!Block]]
      /\ \A j \in Slots : j # i => cache'[j] = cache[j]
      /\ cache'[i].valid = cache[i].valid
      /\ cache'[i].no = cache[i].no
      /\ cache'[i].buf = buf1
  BY <1>1, <1>2, <1>3 DEF TypeOK
<1>5. TypeOK'
  BY <1>1, <1>2, <1>4, SizeAssumption DEF TypeOK
<1>6. cache[i].valid /\ cache[i].no = call.no /\ old = disk[call.no]
  BY <1>1 DEF Coherent, Hit
<1>7. \A k \in Sects : cache'[i].buf[k] = S!Overlay(call, k, disk[call.no][k])
  BY <1>4, <1>6 DEF buf1
<1>8. \A k \in Sects : ~(k < 0)
  BY DEF Sects, S!Sects
<1>9. \A k \in Sects : cache'[i].buf[k] =
           IF k < sect' THEN disk'[call'.no][k]
           ELSE S!Overlay(call', k, disk'[call'.no][k])
  BY <1>1, <1>7, <1>8
<1>10. \A j \in Slots : cache'[j].valid /\ j # i =>
          /\ cache'[j].no \in Blocks
          /\ Slot(cache'[j].no) = j
          /\ cache'[j].buf = disk[cache'[j].no]
  BY <1>1, <1>4 DEF Coherent, InUse
<1> HIDE DEF i
<1>11. Coherent'
  BY <1>1, <1>4, <1>6, <1>9, <1>10 DEF Coherent, InUse, Hit, i
<1> QED BY <1>5, <1>11 DEF IInv

\* What write_disk writes: one sector of the call's block, overlaid.
LEMMA WriteDiskEffect ==
  ASSUME IInv, write_disk
  PROVE  /\ call.no \in Blocks /\ sect \in Sects /\ sect \in Nat /\ sect < SECTORS
         /\ call \in S!Calls
         /\ disk' = [disk EXCEPT ![call.no][sect] = S!Overlay(call, sect, disk[call.no][sect])]
         /\ disk' \in [Blocks -> S!Block]
         /\ \A no \in Blocks : no # call.no => disk'[no] = disk[no]
         /\ \A k \in Sects : k # sect => disk'[call.no][k] = disk[call.no][k]
         /\ disk'[call.no][sect] = S!Overlay(call, sect, disk[call.no][sect])
         /\ disk'[call.no][sect] = cache[Slot(call.no)].buf[sect]
<1>1. pc = "store" /\ TypeOK /\ Coherent
  BY DEF write_disk, IInv
<1>2. /\ call \in S!Calls /\ call.no \in Blocks /\ call.v \in Data
      /\ disk[call.no] \in S!Block
  BY <1>1, Busy
<1>3. sect \in Sects /\ sect \in Nat /\ sect < SECTORS
  BY <1>1, SizeAssumption DEF TypeOK, Sects, S!Sects
<1>4. cache[Slot(call.no)].buf[sect] = S!Overlay(call, sect, disk[call.no][sect])
  BY <1>1, <1>3 DEF Coherent
<1>5. S!Overlay(call, sect, disk[call.no][sect]) \in S!Sector
  BY <1>2, <1>3, BlockSector, OverlayType
<1> DEFINE new == S!Overlay(call, sect, disk[call.no][sect])
<1> HIDE DEF new
<1>6. disk' = [disk EXCEPT ![call.no][sect] = new]
  BY <1>4 DEF write_disk, new
<1>7. disk \in [Blocks -> S!Block]
  BY <1>1 DEF TypeOK
<1>8. /\ disk' \in [Blocks -> S!Block]
      /\ \A no \in Blocks : no # call.no => disk'[no] = disk[no]
      /\ \A k \in Sects : k # sect => disk'[call.no][k] = disk[call.no][k]
      /\ disk'[call.no][sect] = new
  BY <1>2, <1>3, <1>5, <1>6, <1>7 DEF S!Block, Sects, new
<1> QED BY <1>2, <1>3, <1>4, <1>6, <1>8 DEF new

LEMMA WriteDiskKeepsIInv ==
  ASSUME IInv, write_disk
  PROVE  IInv'
<1> DEFINE i == Slot(call.no)
<1>1. /\ pc = "store" /\ sect' = sect + 1
      /\ cache' = cache /\ call' = call /\ halted' = halted
      /\ pc' = IF sect' = SECTORS THEN "idle" ELSE "store"
      /\ TypeOK /\ Coherent
  BY DEF write_disk, IInv
<1>2. /\ call \in S!Calls /\ call.no \in Blocks
      /\ i \in Slots
      /\ cache[i] \in [valid : BOOLEAN, no : Nat, buf : S!Block]
  BY <1>1, Busy
<1>3. /\ sect \in Sects /\ sect \in Nat /\ sect < SECTORS
      /\ disk' \in [Blocks -> S!Block]
      /\ \A no \in Blocks : no # call.no => disk'[no] = disk[no]
      /\ \A k \in Sects : k # sect => disk'[call.no][k] = disk[call.no][k]
      /\ disk'[call.no][sect] = cache[i].buf[sect]
  BY WriteDiskEffect
<1>4. TypeOK'
  BY <1>1, <1>2, <1>3, SizeAssumption DEF TypeOK
<1>5. cache[i].valid /\ cache[i].no = call.no /\ call.kind # "bread"
  BY <1>1 DEF Coherent, Hit
<1>6. \A k \in Sects : cache[i].buf[k] =
           IF k < sect' THEN disk'[call.no][k]
           ELSE S!Overlay(call, k, disk'[call.no][k])
  <2> SUFFICES ASSUME NEW k \in Sects
               PROVE  cache[i].buf[k] =
                        IF k < sect' THEN disk'[call.no][k]
                        ELSE S!Overlay(call, k, disk'[call.no][k])
    OBVIOUS
  <2>0. k \in Nat
    BY DEF Sects, S!Sects
  <2>1. CASE k = sect
    BY <2>0, <2>1, <1>1, <1>3
  <2>2. CASE k # sect
    <3>1. (k < sect' <=> k < sect) /\ disk'[call.no][k] = disk[call.no][k]
      BY <2>0, <2>2, <1>1, <1>3
    <3>2. cache[i].buf[k] =
            IF k < sect THEN disk[call.no][k] ELSE S!Overlay(call, k, disk[call.no][k])
      BY <1>1 DEF Coherent
    <3> QED BY <3>1, <3>2
  <2> QED BY <2>1, <2>2
<1>7. \A j \in Slots : cache[j].valid /\ j # i =>
          /\ cache[j].no \in Blocks
          /\ Slot(cache[j].no) = j
          /\ cache[j].buf = disk'[cache[j].no]
  BY <1>1, <1>3 DEF Coherent, InUse
<1>8. sect' = SECTORS => cache[i].buf = disk'[call.no]
  <2> SUFFICES ASSUME sect' = SECTORS PROVE cache[i].buf = disk'[call.no]
    OBVIOUS
  <2>1. \A k \in Sects : cache[i].buf[k] = disk'[call.no][k]
    BY <1>6, SizeAssumption DEF Sects, S!Sects
  <2>2. cache[i].buf \in S!Block /\ disk'[call.no] \in S!Block
    BY <1>2, <1>3
  <2> QED BY <2>1, <2>2 DEF S!Block, Sects
<1> HIDE DEF i
<1>9. Coherent'
  <2>1. CASE sect' = SECTORS
    <3>1. pc' = "idle"
      BY <2>1, <1>1
    <3> QED BY <2>1, <3>1, <1>1, <1>2, <1>5, <1>7, <1>8 DEF Coherent, InUse, i
  <2>2. CASE sect' # SECTORS
    <3>1. pc' = "store"
      BY <2>2, <1>1
    <3> QED BY <3>1, <1>1, <1>5, <1>6, <1>7 DEF Coherent, InUse, Hit, i
  <2> QED BY <2>1, <2>2
<1> QED BY <1>4, <1>9 DEF IInv

LEMMA CrashKeepsIInv ==
  ASSUME IInv, Crash
  PROVE  IInv'
<1>1. ZeroBlock \in S!Block
  BY DataAssumption DEF ZeroBlock, S!Block, S!Sector, Sects, Offs
<1>2. /\ pc' = "idle" /\ sect' = 0 /\ disk' = disk /\ cache' = Cold
      /\ halted' = FALSE /\ call' = Idle
  BY DEF Crash
<1>3. cache' \in [Slots -> [valid : BOOLEAN, no : Nat, buf : S!Block]]
  BY <1>1, <1>2 DEF Cold
<1>4. TypeOK'
  <2>1. sect' \in 0 .. SECTORS
    BY <1>2, SizeAssumption
  <2> QED BY <1>2, <1>3, <2>1 DEF IInv, TypeOK
<1>5. Coherent'
  BY <1>2 DEF Coherent, Cold
<1> QED BY <1>4, <1>5 DEF IInv

\* Every step of disk.c keeps the invariant.
LEMMA StepKeepsIInv == IInv /\ [Next]_vars => IInv'
<1> SUFFICES ASSUME IInv, [Next]_vars PROVE IInv'
  OBVIOUS
<1>1. ASSUME NEW no \in Blocks,
             \/ \E r \in Ranges : bread(no, r) \/ \E v \in Data : bwrite(no, r, v)
             \/ bzero(no)
      PROVE  IInv'
  BY <1>1, BeginCall, BeginKeepsIInv
<1>2. CASE read_disk
  BY <1>2, ReadDiskKeepsIInv
<1>3. CASE CopyOut
  BY <1>3, CopyOutKeepsIInv
<1>4. CASE CopyIn
  BY <1>4, CopyInKeepsIInv
<1>5. CASE write_disk
  BY <1>5, WriteDiskKeepsIInv
<1>6. CASE Crash
  BY <1>6, CrashKeepsIInv
<1>7. CASE UNCHANGED vars
  <2>1. TypeOK'
    BY <1>7 DEF IInv, TypeOK, vars
  <2>2. Coherent'
    BY <1>7 DEF IInv, Coherent, InUse, Hit, vars
  <2> QED BY <2>1, <2>2 DEF IInv
<1> QED BY <1>1, <1>2, <1>3, <1>4, <1>5, <1>6, <1>7 DEF Next

\* The cache is coherent with the disk in every state of disk.c, for every
\* number of slots, blocks and sectors per block, whatever was interrupted.
THEOREM CacheAlwaysCoherent == Spec => [](TypeOK /\ Coherent)
<1>1. Init => IInv
  BY InitIInv
<1>2. IInv /\ [Next]_vars => IInv'
  BY StepKeepsIInv
<1>3. IInv => TypeOK /\ Coherent
  BY DEF IInv
<1> QED BY <1>1, <1>2, <1>3, PTL DEF Spec

\* The types: what disk.c keeps is always a slot, block, sector or word it knows.
THEOREM CacheAlwaysTyped == Spec => []TypeOK
BY CacheAlwaysCoherent, PTL

\* The action property: disk.c changes no word of the disk but those in the
\* range of the write in progress.
THEOREM OnlyTargetWordsChange == Spec => DiskWrites
<1>1. ASSUME IInv, [Next]_vars PROVE OnlyTargetWords \/ UNCHANGED vars
  <2>1. CASE disk' = disk
    BY <2>1 DEF OnlyTargetWords
  <2>2. CASE write_disk
    <3>1. /\ pc = "store" /\ call.no \in Blocks /\ sect \in Sects
          /\ \A no \in Blocks : no # call.no => disk'[no] = disk[no]
          /\ \A k \in Sects : k # sect => disk'[call.no][k] = disk[call.no][k]
          /\ disk'[call.no][sect] = S!Overlay(call, sect, disk[call.no][sect])
      BY <1>1, <2>2, WriteDiskEffect DEF write_disk
    <3>2. \A o \in Offs : disk'[call.no][sect][o] =
            IF S!InRange(call, sect, o) THEN call.v ELSE disk[call.no][sect][o]
      BY <3>1 DEF S!Overlay, Offs
    <3> QED BY <3>1, <3>2 DEF OnlyTargetWords
  <2>3. disk' = disk \/ write_disk
    BY <1>1 DEF Next, bread, bwrite, bzero, Begin, read_disk, CopyOut, CopyIn, Crash, vars
  <2> QED BY <2>1, <2>2, <2>3
<1>2. Init => IInv
  BY InitIInv
<1>3. IInv /\ [Next]_vars => IInv'
  BY StepKeepsIInv
<1> QED BY <1>1, <1>2, <1>3, PTL DEF Spec, DiskWrites

-----------------------------------------------------------------------------
(* disk.c implements the cacheless device.                                 *)

LEMMA InitRefines == Init => S!SInit
<1> SUFFICES ASSUME Init PROVE S!SInit
  OBVIOUS
<1>1. disk \in [Blocks -> S!Block]
  BY InitIInv DEF IInv, TypeOK
<1> QED BY <1>1 DEF Init, S!SInit

LEMMA StepRefines == IInv /\ [Next]_vars => [S!SNext]_(S!svars)
<1> SUFFICES ASSUME IInv, [Next]_vars PROVE [S!SNext]_(S!svars)
  OBVIOUS
<1> DEFINE acall == IF pc = "idle" THEN None ELSE call
           awritten == IF pc \in {"store", "idle"} THEN sect ELSE 0
<1>0. pc # "idle" => call \in S!Calls /\ call # None
  BY Busy, CallAssumption DEF IInv
<1>1. ASSUME NEW c \in S!Calls, Begin(c) PROVE S!Invoke(c)
  <2>1. /\ pc = "idle" /\ ~halted /\ res' = None /\ sect' = 0 /\ disk' = disk
    BY <1>1 DEF Begin
  <2>2. CASE c.range[1] + c.range[2] <= BLK_SIZE
    <3>1. call' = c /\ pc' \in {"copy", "load"} /\ halted' = FALSE
      BY <1>1, <2>1, <2>2, NoWrap DEF Begin, IInv, TypeOK
    <3> QED BY <2>1, <2>2, <3>1 DEF S!Invoke, BLK_SIZE
  <2>3. CASE ~(c.range[1] + c.range[2] <= BLK_SIZE)
    <3>1. pc' = "idle" /\ halted' = TRUE
      BY <1>1, <2>1, <2>3, NoWrap DEF Begin
    <3> QED BY <2>1, <2>3, <3>1 DEF S!Invoke, BLK_SIZE
  <2> QED BY <2>2, <2>3
<1>2. ASSUME NEW no \in Blocks,
             \/ \E r \in Ranges : bread(no, r) \/ \E v \in Data : bwrite(no, r, v)
             \/ bzero(no)
      PROVE  S!SNext
  BY <1>1, <1>2, BeginCall DEF S!SNext
<1>3. ASSUME read_disk PROVE UNCHANGED S!svars
  <2>1. /\ pc = "load" /\ pc' \in {"load", "copy"} /\ call' = call
        /\ disk' = disk /\ res' = res /\ halted' = halted
    BY <1>3 DEF read_disk
  <2> QED BY <2>1 DEF S!svars
<1>4. ASSUME CopyOut PROVE S!Read
  <2>1. /\ pc = "copy" /\ pc' = "idle" /\ sect' = 0 /\ call.kind = "bread"
        /\ disk' = disk /\ halted' = halted
        /\ res' = S!Extract(call, cache[Slot(call.no)].buf)
    BY <1>4 DEF CopyOut
  <2>2. cache[Slot(call.no)].buf = disk[call.no]
    BY <2>1 DEF IInv, Coherent
  <2> QED BY <1>0, <2>1, <2>2 DEF S!Read
<1>5. ASSUME CopyIn PROVE UNCHANGED S!svars
  <2>1. /\ pc = "copy" /\ pc' = "store" /\ sect' = 0 /\ call' = call
        /\ disk' = disk /\ res' = res /\ halted' = halted
    BY <1>5 DEF CopyIn
  <2> QED BY <2>1 DEF S!svars
<1>6. ASSUME write_disk PROVE S!WriteSector
  <2>1. /\ pc = "store" /\ sect' = sect + 1 /\ call' = call
        /\ pc' = IF sect' = SECTORS THEN "idle" ELSE "store"
        /\ res' = res /\ halted' = halted
    BY <1>6 DEF write_disk
  <2>2. /\ sect < SECTORS /\ call.kind # "bread"
        /\ disk' = [disk EXCEPT ![call.no][sect] = S!Overlay(call, sect, disk[call.no][sect])]
    BY <1>6, <2>1, WriteDiskEffect DEF IInv, Coherent
  <2> QED BY <1>0, <1>6, <2>1, <2>2 DEF S!WriteSector
<1>7. ASSUME Crash PROVE S!Crash
  BY <1>7 DEF Crash, S!Crash
<1>8. ASSUME UNCHANGED vars PROVE UNCHANGED S!svars
  BY <1>8 DEF vars, S!svars
<1> QED BY <1>2, <1>3, <1>4, <1>5, <1>6, <1>7, <1>8 DEF Next, S!SNext

\* The cache of disk.c is invisible: it implements the cacheless device.
THEOREM CacheImplementsBlockStore == Spec => ImplementsBlockStore
<1>1. Init => S!SInit
  BY InitRefines
<1>2. IInv /\ [Next]_vars => [S!SNext]_(S!svars)
  BY StepRefines
<1>3. Init => IInv
  BY InitIInv
<1>4. IInv /\ [Next]_vars => IInv'
  BY StepKeepsIInv
<1> QED BY <1>1, <1>2, <1>3, <1>4, PTL DEF Spec, ImplementsBlockStore, S!SSpec

=============================================================================
