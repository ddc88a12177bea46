----------------------------- MODULE ImageProofs -----------------------------
(***************************************************************************)
(* Proofs about the image builder, the read-only file system and load_elf  *)
(* on top of it: for every size of a sector, number of files and contents  *)
(* of the files, also those that are cut off anywhere, and for everything  *)
(* that the stack may hold.                                                *)
(***************************************************************************)
EXTENDS Loader, SequenceTheorems, WellFoundedInduction, TLAPS

\* The kernel's table has as many slots for files as genuser's.
USE DEF KMAX_FILE

-----------------------------------------------------------------------------
(* genuser.c.                                                              *)

Sectors == [0 .. (SECTSIZE - 1) -> Byte]

LEMMA DivMod ==
  ASSUME NEW n \in Nat, NEW d \in Nat \ {0}
  PROVE  n \div d \in Nat /\ n % d \in 0 .. (d - 1) /\ n = d * (n \div d) + (n % d)
OBVIOUS

\* d times less is less.
LEMMA Quotients ==
  ASSUME NEW d \in Nat \ {0}, NEW a \in Nat, NEW b \in Nat,
         NEW r \in 0 .. (d - 1), NEW s \in 0 .. (d - 1), d * a + r < d * b + s
  PROVE  a < b \/ (a = b /\ r < s)
<1>1. ASSUME a > b PROVE FALSE
  <2> DEFINE q == a - b
  <2>1. q \in Nat /\ q > 0 /\ d * a = d * b + d * q
    BY <1>1
  <2> HIDE DEF q
  <2>2. d * q >= d
    BY <2>1
  <2>3. d * a \in Int /\ d * b \in Int /\ d * q \in Int
    BY <2>1
  <2> QED BY <2>1, <2>2, <2>3
<1>2. ASSUME a = b PROVE r < s
  <2>1. d * b \in Int /\ d * b + r < d * b + s
    BY <1>2
  <2> QED BY <2>1
<1> QED BY <1>1, <1>2

\* The two computations of genuser agree on the number of sectors.
LEMMA SectsAgree ==
  ASSUME NEW n \in Nat, NEW d \in Nat \ {0}
  PROVE  (n + d - 1) \div d = (n \div d) + (IF n % d = 0 THEN 0 ELSE 1)
<1> DEFINE a == n \div d
           b == (n + d - 1) \div d
           r == n % d
           s == (n + d - 1) % d
<1>1. a \in Nat /\ r \in 0 .. (d - 1) /\ n = d * a + r
  BY DivMod
<1>2. b \in Nat /\ s \in 0 .. (d - 1) /\ n + d - 1 = d * b + s
  <2>1. n + d - 1 \in Nat
    OBVIOUS
  <2> QED BY <2>1, DivMod
<1> HIDE DEF a, b, r, s
<1>3. d * a \in Nat /\ d * b \in Nat /\ d * (a + 1) = d * a + d /\ d * (b + 1) = d * b + d
  BY <1>1, <1>2
<1>4. CASE r = 0
  <2>1. b < a + 1
    BY <1>1, <1>2, <1>3, <1>4, Quotients
  <2>2. a < b + 1
    BY <1>1, <1>2, <1>3, <1>4, Quotients
  <2> QED BY <1>1, <1>2, <1>4, <2>1, <2>2 DEF a, b, r
<1>5. CASE r # 0
  <2>1. b < a + 2
    <3>1. d * b + s < d * (a + 2) + 0 /\ a + 2 \in Nat
      BY <1>1, <1>2, <1>3
    <3> QED BY <1>1, <1>2, <3>1, Quotients
  <2>2. a < b
    <3>1. d * a + 0 < d * b + 0
      BY <1>1, <1>2, <1>3, <1>5
    <3> QED BY <1>1, <1>2, <3>1, Quotients
  <2> QED BY <1>1, <1>2, <1>5, <2>1, <2>2 DEF a, b, r
<1> QED BY <1>4, <1>5

\* A byte of a file is where div and mod say.
LEMMA SectorMath ==
  ASSUME NEW n \in Nat
  PROVE  /\ Sects(n) \in Nat
         /\ Sects(n) = (n \div SECTSIZE) + (IF n % SECTSIZE = 0 THEN 0 ELSE 1)
         /\ \A z \in 0 .. (n - 1) :
              /\ z \div SECTSIZE \in 0 .. (Sects(n) - 1) /\ z % SECTSIZE \in 0 .. (SECTSIZE - 1)
              /\ (z \div SECTSIZE) * SECTSIZE + (z % SECTSIZE) = z
<1>1. SECTSIZE \in Nat \ {0}
  BY GenUserAssumption
<1> DEFINE b == n \div SECTSIZE
           s == n % SECTSIZE
<1>2. b \in Nat /\ s \in 0 .. (SECTSIZE - 1) /\ n = SECTSIZE * b + s
  BY <1>1, DivMod
<1>3. Sects(n) = b + (IF s = 0 THEN 0 ELSE 1)
  BY <1>1, SectsAgree DEF Sects
<1> HIDE DEF b, s
<1>4. Sects(n) \in Nat
  BY <1>2, <1>3
<1>5. ASSUME NEW z \in 0 .. (n - 1)
      PROVE  /\ z \div SECTSIZE \in 0 .. (Sects(n) - 1) /\ z % SECTSIZE \in 0 .. (SECTSIZE - 1)
             /\ (z \div SECTSIZE) * SECTSIZE + (z % SECTSIZE) = z
  <2> DEFINE a == z \div SECTSIZE
             r == z % SECTSIZE
  <2>1. a \in Nat /\ r \in 0 .. (SECTSIZE - 1) /\ z = SECTSIZE * a + r
    <3>1. z \in Nat
      OBVIOUS
    <3> QED BY <1>1, <3>1, DivMod
  <2> HIDE DEF a, r
  <2>2. SECTSIZE * a + r < SECTSIZE * b + s
    BY <1>2, <2>1
  <2>3. a < b \/ (a = b /\ r < s)
    BY <1>1, <1>2, <2>1, <2>2, Quotients
  <2>4. a \in 0 .. (Sects(n) - 1)
    BY <1>2, <1>3, <2>1, <2>3
  <2>5. a * SECTSIZE + r = z
    BY <1>1, <2>1
  <2> QED BY <2>1, <2>4, <2>5 DEF a, r
<1> QED BY <1>3, <1>4, <1>5 DEF b, s

\* What add_file writes of a file: as many sectors as curr_sect is moved on by,
\* with byte z of the file where iread will look for it.
LEMMA ChunksRight ==
  ASSUME NEW data \in Seq(Byte)
  PROVE  /\ Chunks(data) \in Seq(Sectors) /\ Len(Chunks(data)) = Sects(Len(data))
         /\ \A z \in 0 .. (Len(data) - 1) :
              Chunks(data)[z \div SECTSIZE + 1][z % SECTSIZE] = data[z + 1]
<1> DEFINE n == Len(data)
           N == Sects(n)
           C == Chunks(data)
<1>1. n \in Nat /\ N \in Nat /\ SECTSIZE \in Nat \ {0} /\ 0 \in Byte
  <2>1. n \in Nat
    OBVIOUS
  <2> QED BY <2>1, SectorMath, GenUserAssumption
<1>2. C = [c \in 1 .. N |-> [i \in 0 .. (SECTSIZE - 1) |->
             IF (c - 1) * SECTSIZE + i < n THEN data[(c - 1) * SECTSIZE + i + 1] ELSE 0]]
  BY <1>1, SectorMath DEF Chunks
<1>3. \A c \in 1 .. N : \A i \in 0 .. (SECTSIZE - 1) : (c - 1) * SECTSIZE + i \in Nat
  BY <1>1
<1>4. \A j \in 1 .. n : data[j] \in Byte
  OBVIOUS
<1>5. \A c \in 1 .. N : C[c] \in Sectors
  <2> SUFFICES ASSUME NEW c \in 1 .. N PROVE C[c] \in Sectors
    OBVIOUS
  <2>1. C[c] = [i \in 0 .. (SECTSIZE - 1) |->
             IF (c - 1) * SECTSIZE + i < n THEN data[(c - 1) * SECTSIZE + i + 1] ELSE 0]
    BY <1>2
  <2>2. ASSUME NEW i \in 0 .. (SECTSIZE - 1)
        PROVE  (IF (c - 1) * SECTSIZE + i < n THEN data[(c - 1) * SECTSIZE + i + 1] ELSE 0) \in Byte
    <3> DEFINE j == (c - 1) * SECTSIZE + i
    <3>1. j \in Nat
      BY <1>3
    <3> HIDE DEF j
    <3>2. (IF j < n THEN data[j + 1] ELSE 0) \in Byte
      BY <1>1, <1>4, <3>1
    <3> QED BY <3>2 DEF j
  <2> QED BY <2>1, <2>2 DEF Sectors
<1>6. C \in Seq(Sectors) /\ Len(C) = N
  <2> DEFINE G(c) == [i \in 0 .. (SECTSIZE - 1) |->
             IF (c - 1) * SECTSIZE + i < n THEN data[(c - 1) * SECTSIZE + i + 1] ELSE 0]
  <2>1. C = [c \in 1 .. N |-> G(c)]
    BY <1>2
  <2> HIDE DEF C, N, G
  <2>2. C \in [1 .. N -> Sectors]
    BY <1>5, <2>1
  <2> QED BY <1>1, <2>2
<1>7. ASSUME NEW z \in 0 .. (n - 1)
      PROVE  C[z \div SECTSIZE + 1][z % SECTSIZE] = data[z + 1]
  <2> DEFINE a == z \div SECTSIZE
             r == z % SECTSIZE
  <2>1. a \in 0 .. (N - 1) /\ r \in 0 .. (SECTSIZE - 1) /\ a * SECTSIZE + r = z
    BY <1>1, SectorMath
  <2> HIDE DEF a, r, C, N, n
  <2>2. a + 1 \in 1 .. N /\ (a + 1) - 1 = a
    BY <1>1, <2>1
  <2>3. C[a + 1][r] = IF a * SECTSIZE + r < n THEN data[a * SECTSIZE + r + 1] ELSE 0
    BY <1>2, <2>1, <2>2
  <2>4. C[a + 1][r] = data[z + 1]
    BY <1>1, <2>1, <2>3
  <2> QED BY <2>4 DEF a, r
<1> QED BY <1>6, <1>7

-----------------------------------------------------------------------------
(* The image.  A file's sectors lie inside what was written so far: later  *)
(* files do not touch them.                                                *)

FileRec == [name : Names, data : Seq(Byte)]

HostTypes ==
  /\ host \in {"packing", "done", "aborted"} /\ file_num \in 0 .. MAX_FILE
  /\ img \in Seq(Sectors) /\ files \in Seq(FileRec)
  /\ Len(files) = file_num /\ curr_sect = FirstSect + Len(img)
  /\ inode \in [Slot -> [start : Nat, length : Nat, name : Names \cup {NoName}]]
\* File i is in the image where inode i says.
FileAt(i) ==
  /\ inode[i].name = files[i + 1].name /\ inode[i].length = Len(files[i + 1].data)
  /\ inode[i].start >= FirstSect /\ inode[i].start + Sects(inode[i].length) <= curr_sect
  /\ \A z \in 0 .. (inode[i].length - 1) :
       img[inode[i].start - FirstSect + 1 + (z \div SECTSIZE)][z % SECTSIZE] = files[i + 1].data[z + 1]
ImageOK ==
  /\ HostTypes
  /\ \A i \in Slot : IF i < file_num THEN FileAt(i) ELSE inode[i] = NoInode

LEMMA HostInitOK == HostInit => ImageOK
<1> SUFFICES ASSUME HostInit PROVE ImageOK
  OBVIOUS
<1>1. Zeros \in Sectors
  BY GenUserAssumption DEF Zeros, Sectors
<1>2. img = <<Zeros>> /\ img \in Seq(Sectors) /\ Len(img) = 1
  BY <1>1 DEF HostInit
<1>3. /\ host = "packing" /\ file_num = 0 /\ curr_sect = FirstSect + 1 /\ files = <<>>
      /\ inode = [i \in Slot |-> NoInode]
  BY DEF HostInit
<1>4. inode \in [Slot -> [start : Nat, length : Nat, name : Names \cup {NoName}]]
  BY <1>3 DEF NoInode
<1>5. HostTypes
  BY <1>2, <1>3, <1>4, GenUserAssumption DEF HostTypes
<1> QED BY <1>3, <1>5 DEF ImageOK, Slot

LEMMA AddFileOK ==
  ASSUME ImageOK, NEW name \in Names, NEW data \in Seq(Byte), add_file(name, data)
  PROVE  ImageOK'
<1> DEFINE n == Len(data)
           C == Chunks(data)
           rec == [name |-> name, data |-> data]
           new == [start |-> curr_sect, length |-> n, name |-> name]
<1>1. /\ host' = host /\ file_num' = file_num + 1 /\ file_num < MAX_FILE
      /\ inode' = [inode EXCEPT ![file_num] = new] /\ curr_sect' = curr_sect + Sects(n)
      /\ img' = img \o C /\ files' = Append(files, rec)
  BY DEF add_file, HasRoom
<1>2. /\ n \in Nat /\ C \in Seq(Sectors) /\ Len(C) = Sects(n) /\ Sects(n) \in Nat
      /\ \A z \in 0 .. (n - 1) : /\ C[(z \div SECTSIZE) + 1][z % SECTSIZE] = data[z + 1]
                                 /\ z \div SECTSIZE \in 0 .. (Sects(n) - 1)
  <2>1. n \in Nat
    OBVIOUS
  <2> QED BY <2>1, ChunksRight, SectorMath
<1>3. /\ img' \in Seq(Sectors) /\ Len(img') = Len(img) + Sects(n) /\ Len(img) \in Nat
      /\ \A j \in 1 .. Len(img) : img'[j] = img[j]
      /\ \A j \in 1 .. Sects(n) : img'[Len(img) + j] = C[j]
  <2>1. img \in Seq(Sectors)
    BY DEF ImageOK, HostTypes
  <2> HIDE DEF C
  <2> QED BY <1>1, <1>2, <2>1
<1>4. /\ files' \in Seq(FileRec) /\ Len(files') = file_num + 1
      /\ files'[file_num + 1] = rec /\ \A j \in 1 .. file_num : files'[j] = files[j]
  <2>1. files \in Seq(FileRec) /\ Len(files) = file_num /\ rec \in FileRec
    BY DEF ImageOK, HostTypes, FileRec
  <2> HIDE DEF rec
  <2> QED BY <1>1, <2>1
<1>5. /\ file_num \in Slot /\ inode'[file_num].start = curr_sect /\ inode'[file_num].length = n
      /\ inode'[file_num].name = name
      /\ \A i \in Slot : i # file_num => inode'[i] = inode[i]
  <2>1. file_num \in Slot
    BY <1>1, GenUserAssumption DEF ImageOK, HostTypes, Slot
  <2>2. DOMAIN inode = Slot
    BY DEF ImageOK, HostTypes
  <2> QED BY <1>1, <2>1, <2>2
<1>6. curr_sect = FirstSect + Len(img) /\ curr_sect \in Nat
  BY <1>3 DEF ImageOK, HostTypes, FirstSect
<1>7. HostTypes'
  <2>1. inode' \in [Slot -> [start : Nat, length : Nat, name : Names \cup {NoName}]]
    <3>1. new \in [start : Nat, length : Nat, name : Names \cup {NoName}]
      BY <1>2, <1>6
    <3> HIDE DEF new
    <3> QED BY <1>1, <3>1 DEF ImageOK, HostTypes
  <2>2. curr_sect' = FirstSect + Len(img') /\ file_num' \in 0 .. MAX_FILE
    <3>1. file_num \in 0 .. MAX_FILE /\ MAX_FILE \in Nat
      BY GenUserAssumption DEF ImageOK, HostTypes
    <3> HIDE DEF n, C, rec, new
    <3> QED BY <1>1, <1>2, <1>3, <1>6, <3>1, SMTT(40) DEF FirstSect
  <2> HIDE DEF rec, C, new
  <2> QED BY <1>1, <1>3, <1>4, <2>1, <2>2 DEF ImageOK, HostTypes
<1>8. ASSUME NEW i \in Slot, i = file_num
      PROVE  FileAt(i)'
  <2>1. /\ inode'[i].name = files'[i + 1].name
        /\ inode'[i].length = Len(files'[i + 1].data) /\ files'[i + 1].data = data
    BY <1>4, <1>5, <1>8
  <2>2. ASSUME NEW z \in 0 .. (n - 1)
        PROVE  img'[curr_sect - FirstSect + 1 + (z \div SECTSIZE)][z % SECTSIZE] = data[z + 1]
    <3> DEFINE a == z \div SECTSIZE
    <3>1. a \in 0 .. (Sects(n) - 1) /\ C[a + 1][z % SECTSIZE] = data[z + 1]
      BY <1>2
    <3> HIDE DEF a, C, n
    <3>2. curr_sect - FirstSect + 1 + a = Len(img) + (a + 1) /\ a + 1 \in 1 .. Sects(n)
      BY <1>2, <1>3, <1>6, <3>1, SMTT(40) DEF FirstSect
    <3>3. img'[curr_sect - FirstSect + 1 + a] = C[a + 1]
      BY <1>3, <3>2
    <3> QED BY <3>1, <3>3 DEF a
  <2>3. curr_sect >= FirstSect
    BY <1>3, <1>6 DEF FirstSect
  <2>4. curr_sect' = curr_sect + Sects(n) /\ curr_sect + Sects(n) <= curr_sect'
    BY <1>1, <1>2, <1>6
  <2> HIDE DEF n, C, rec, new
  <2> QED BY <1>2, <1>5, <1>8, <2>1, <2>2, <2>3, <2>4 DEF FileAt
<1>9. ASSUME NEW i \in Slot, i < file_num
      PROVE  FileAt(i)'
  <2>1. FileAt(i)
    BY <1>9 DEF ImageOK
  <2>2. inode'[i] = inode[i] /\ files'[i + 1] = files[i + 1] /\ inode[i].start \in Nat /\ inode[i].length \in Nat
    <3> HIDE DEF n, C, rec, new
    <3>1. file_num \in Nat /\ i \in Nat
      BY DEF ImageOK, HostTypes, Slot
    <3>2. i # file_num /\ i + 1 \in 1 .. file_num
      BY <1>9, <3>1
    <3>3. inode[i] \in [start : Nat, length : Nat, name : Names \cup {NoName}]
      BY DEF ImageOK, HostTypes
    <3>4. inode'[i] = inode[i]
      BY <1>5, <3>2
    <3>5. files'[i + 1] = files[i + 1]
      BY <1>4, <3>2
    <3>6. inode[i].start \in Nat /\ inode[i].length \in Nat
      BY <3>3
    <3> QED BY <3>4, <3>5, <3>6
  <2> DEFINE st == inode[i].start
             m == inode[i].length
  <2>3. /\ st \in Nat /\ m \in Nat /\ Sects(m) \in Nat /\ st >= FirstSect /\ st + Sects(m) <= curr_sect
        /\ \A z \in 0 .. (m - 1) : z \div SECTSIZE \in 0 .. (Sects(m) - 1)
    BY <2>1, <2>2, SectorMath DEF FileAt
  <2>4. st + Sects(m) <= curr_sect'
    BY <1>1, <1>2, <1>6, <2>3, SMTT(40)
  <2>5. ASSUME NEW z \in 0 .. (m - 1)
        PROVE  img'[st - FirstSect + 1 + (z \div SECTSIZE)] = img[st - FirstSect + 1 + (z \div SECTSIZE)]
    <3> DEFINE a == z \div SECTSIZE
    <3>1. a \in 0 .. (Sects(m) - 1)
      BY <2>3
    <3> HIDE DEF a, st, m
    <3>2. st - FirstSect + 1 + a \in 1 .. Len(img)
      BY <1>3, <1>6, <2>3, <3>1 DEF FirstSect
    <3> QED BY <1>3, <3>2 DEF a
  <2> QED BY <2>1, <2>2, <2>4, <2>5 DEF FileAt
<1>10. ASSUME NEW i \in Slot PROVE IF i < file_num' THEN FileAt(i)' ELSE inode'[i] = NoInode
  <2>1. file_num \in Nat /\ i \in Nat
    BY DEF ImageOK, HostTypes, Slot
  <2>2. CASE i < file_num
    BY <1>1, <1>9, <2>1, <2>2
  <2>3. CASE i = file_num
    BY <1>1, <1>8, <2>1, <2>3
  <2>4. CASE i > file_num
    BY <1>1, <1>5, <2>1, <2>4 DEF ImageOK
  <2> QED BY <2>1, <2>2, <2>3, <2>4
<1> QED BY <1>7, <1>10 DEF ImageOK

-----------------------------------------------------------------------------
(* The kernel's tables.                                                    *)

NamesOf == Names \cup {NoName} \cup {DevNames[d] : d \in DOMAIN DevNames}
Dinodes == [start : Nat, length : Nat, name : NamesOf]
Inodes == [valid : BOOLEAN, type : {"NONE", "FILE", "DEV"}, dev : 0 .. MAX_DEV, dinode : Dinodes]

\* An inode behind those of the image.
DeviceAt(i) ==
  /\ inodes[i].dinode.length = 0
  /\ up = "fs" => ~inodes[i].valid
  /\ up = "dev" => (inodes[i].valid <=> i < MAX_FILE + Len(DevNames))
  /\ up = "dev" /\ inodes[i].valid => /\ inodes[i].type = "DEV" /\ inodes[i].dev = i - MAX_FILE
                                      /\ inodes[i].dinode.name = DevNames[i - MAX_FILE + 1]
TableOK ==
  /\ inodes \in [Ino -> Inodes]
  /\ up \in {"off", "fs", "dev", "panic"}
  /\ up = "off" => inodes = [i \in Ino |-> Invalid]
  /\ up # "off" =>
       /\ host = "done"
       /\ \A i \in Slot : inodes[i].valid /\ inodes[i].type = "FILE" /\ inodes[i].dinode = inode[i]
       /\ \A i \in Ino \ Slot : DeviceAt(i)
OpenedOK == opened.ip \in Ino \cup {NULL}

ReadTypes ==
  rd \in [on : BOOLEAN, ip : Ino \cup {NULL}, off0 : Nat, len : Nat, off : Nat, i : Nat,
          curr : Nat \cup {-1}, dbuf : Sectors, buf : Seq(Byte)]
\* The iread under way, or the last one: what is in dbuf, and what it has
\* copied.
Reading ==
  /\ up # "off" /\ rd.off = rd.off0 + rd.i /\ rd.i <= rd.len
  /\ rd.i > 0 => rd.off <= inodes[rd.ip].dinode.length
  /\ ~rd.on => ~More
  /\ rd.curr # -1 => rd.dbuf = Sector(inodes[rd.ip].dinode.start + rd.curr)
  /\ \A z \in 1 .. rd.i : rd.buf[z] = Contents(rd.ip)[rd.off0 + z]
ReadOK ==
  /\ ReadTypes /\ rd.i = Len(rd.buf)
  /\ IF rd.ip = NULL THEN ~rd.on ELSE Reading

FSInv == ImageOK /\ TableOK /\ OpenedOK /\ ReadOK

LEMMA SlotsAreInos ==
  /\ Slot \subseteq Ino /\ Ino \subseteq Nat /\ Slot \subseteq Nat /\ NULL \notin Ino
  /\ \A i \in Ino : i \in Slot <=> i < MAX_FILE
BY GenUserAssumption, EasyFSAssumption DEF Slot, Ino, MAX_INODE

\* The bytes of file i, through the disk driver.
LEMMA FileBytes ==
  ASSUME ImageOK, NEW i \in Slot, i < file_num
  PROVE  \A z \in 0 .. (inode[i].length - 1) :
           Sector(inode[i].start + (z \div SECTSIZE))[z % SECTSIZE] = files[i + 1].data[z + 1]
<1>1. FileAt(i)
  BY DEF ImageOK
<1>2. inode[i].start \in Nat /\ inode[i].length \in Nat
  BY DEF ImageOK, HostTypes
<1> DEFINE st == inode[i].start
           m == inode[i].length
<1>3. /\ st \in Nat /\ m \in Nat /\ Sects(m) \in Nat /\ st >= FirstSect /\ st + Sects(m) <= curr_sect
      /\ \A z \in 0 .. (m - 1) : z \div SECTSIZE \in 0 .. (Sects(m) - 1)
  BY <1>1, <1>2, SectorMath DEF FileAt
<1>4. curr_sect = FirstSect + Len(img) /\ Len(img) \in Nat
  BY DEF ImageOK, HostTypes
<1>5. ASSUME NEW z \in 0 .. (m - 1)
      PROVE  Sector(st + (z \div SECTSIZE)) = img[st - FirstSect + 1 + (z \div SECTSIZE)]
  <2> DEFINE a == z \div SECTSIZE
  <2>1. a \in 0 .. (Sects(m) - 1)
    BY <1>3
  <2> HIDE DEF a, st, m
  <2>2. (st + a) - FirstSect + 1 \in 1 .. Len(img) /\ (st + a) - FirstSect + 1 = st - FirstSect + 1 + a
    BY <1>3, <1>4, <2>1 DEF FirstSect
  <2>3. Sector(st + a) = img[(st + a) - FirstSect + 1]
    BY <2>2, Zenon DEF Sector
  <2>4. Sector(st + a) = img[st - FirstSect + 1 + a]
    BY <2>2, <2>3, Zenon
  <2> QED BY <2>4 DEF a
<1> QED BY <1>1, <1>5 DEF FileAt

\* Where the bytes of the file behind inode ip are.
LEMMA BytesAt ==
  ASSUME ImageOK, TableOK, up # "off", NEW ip \in Ino
  PROVE  /\ Len(Contents(ip)) = inodes[ip].dinode.length /\ inodes[ip].dinode.length \in Nat
         /\ inodes[ip].dinode.start \in Nat
         /\ \A z \in 0 .. (inodes[ip].dinode.length - 1) :
              Sector(inodes[ip].dinode.start + (z \div SECTSIZE))[z % SECTSIZE] = Contents(ip)[z + 1]
<1>1. inodes[ip].dinode.length \in Nat /\ inodes[ip].dinode.start \in Nat
  <2>1. inodes[ip].dinode \in Dinodes
    BY DEF TableOK, Inodes
  <2> QED BY <2>1 DEF Dinodes
<1>2. file_num \in 0 .. MAX_FILE /\ MAX_FILE \in Nat /\ ip \in Nat
  BY GenUserAssumption, SlotsAreInos DEF ImageOK, HostTypes
<1>3. CASE ip < file_num
  <2>1. ip \in Slot
    BY <1>2, <1>3 DEF Slot
  <2>2. inodes[ip].dinode = inode[ip] /\ FileAt(ip) /\ Contents(ip) = files[ip + 1].data
    BY <1>3, <2>1 DEF TableOK, ImageOK, Contents
  <2> QED BY <1>1, <1>3, <2>1, <2>2, FileBytes DEF FileAt
<1>4. CASE ~(ip < file_num)
  <2>1. inodes[ip].dinode.length = 0
    <3>1. CASE ip \in Slot
      BY <1>4, <3>1 DEF TableOK, ImageOK, NoInode
    <3>2. CASE ip \notin Slot
      BY <3>2 DEF TableOK, DeviceAt
    <3> QED BY <3>1, <3>2
  <2>2. Contents(ip) = <<>>
    BY <1>4 DEF Contents
  <2> QED BY <1>1, <2>1, <2>2
<1> QED BY <1>3, <1>4

LEMMA NoReadOK ==
  /\ NoRead \in [on : BOOLEAN, ip : Ino \cup {NULL}, off0 : Nat, len : Nat, off : Nat, i : Nat,
                 curr : Nat \cup {-1}, dbuf : Sectors, buf : Seq(Byte)]
  /\ NoRead.ip = NULL /\ ~NoRead.on /\ NoRead.i = 0 /\ NoRead.buf = <<>> /\ Len(<<>>) = 0
<1>1. Zeros \in Sectors
  BY GenUserAssumption DEF Zeros, Sectors
<1> QED BY <1>1 DEF NoRead

LEMMA FSInitOK == HostInit /\ FSInit => FSInv
<1> SUFFICES ASSUME HostInit, FSInit PROVE FSInv
  OBVIOUS
<1>1. ImageOK
  BY HostInitOK
<1>2. TableOK
  <2>1. Invalid \in Inodes
    BY EasyFSAssumption DEF Invalid, NoInode, Inodes, Dinodes, NamesOf
  <2> QED BY <2>1 DEF FSInit, TableOK
<1>3. OpenedOK
  BY DEF FSInit, OpenedOK
<1>4. ReadOK
  BY NoReadOK DEF FSInit, ReadOK, ReadTypes
<1> QED BY <1>1, <1>2, <1>3, <1>4 DEF FSInv

\* While the image is packed the kernel is not there.
LEMMA HostStepOK ==
  ASSUME FSInv, UNCHANGED fsVars,
         (\E name \in Names, data \in FileData : add_file(name, data)) \/ add_file_aborts \/ write_inode
  PROVE  FSInv'
<1>1. inodes' = inodes /\ up' = up /\ opened' = opened /\ rd' = rd
  BY DEF fsVars
<1>2. host = "packing"
  BY DEF add_file, add_file_aborts, write_inode
<1>3. up = "off" /\ rd.ip = NULL
  BY <1>2 DEF FSInv, TableOK, ReadOK, Reading
<1>4. ImageOK'
  <2>1. CASE \E name \in Names, data \in FileData : add_file(name, data)
    BY <2>1, AddFileOK, EasyFSAssumption DEF FSInv
  <2>2. CASE add_file_aborts \/ write_inode
    <3>1. /\ inode' = inode /\ file_num' = file_num /\ curr_sect' = curr_sect /\ img' = img /\ files' = files
          /\ host' \in {"aborted", "done"}
      BY <2>2 DEF add_file_aborts, write_inode
    <3> QED BY <3>1 DEF FSInv, ImageOK, HostTypes, FileAt
  <2> QED BY <2>1, <2>2
<1>5. TableOK' /\ OpenedOK' /\ ReadOK'
  BY <1>1, <1>3 DEF FSInv, TableOK, OpenedOK, ReadOK, ReadTypes
<1> QED BY <1>4, <1>5 DEF FSInv

LEMMA ImageStays == ASSUME ImageOK, UNCHANGED hostVars PROVE ImageOK'
<1>1. /\ inode' = inode /\ file_num' = file_num /\ curr_sect' = curr_sect /\ img' = img /\ files' = files
      /\ host' = host
  BY DEF hostVars
<1> QED BY <1>1 DEF ImageOK, HostTypes, FileAt

LEMMA ReadStays ==
  ASSUME ReadOK, rd' = rd, UNCHANGED hostVars, up # "off" => up' # "off",
         \A i \in Ino : /\ inodes'[i].dinode.length = inodes[i].dinode.length
                        /\ inodes'[i].dinode.start = inodes[i].dinode.start
  PROVE  ReadOK'
<1>1. /\ file_num' = file_num /\ img' = img /\ files' = files
  BY DEF hostVars
<1>2. ReadTypes' /\ rd'.i = Len(rd'.buf)
  BY DEF ReadOK, ReadTypes
<1>3. CASE rd.ip = NULL
  BY <1>2, <1>3 DEF ReadOK
<1>4. CASE rd.ip # NULL
  <2>1. rd.ip \in Ino
    BY <1>4 DEF ReadOK, ReadTypes
  <2>2. /\ inodes'[rd.ip].dinode.length = inodes[rd.ip].dinode.length
        /\ inodes'[rd.ip].dinode.start = inodes[rd.ip].dinode.start
    BY <2>1
  <2>3. \A s : Sector(s)' = Sector(s)
    BY <1>1 DEF Sector
  <2>4. More' = More /\ Contents(rd.ip)' = Contents(rd.ip)
    BY <1>1, <2>2 DEF More, Contents
  <2>5. Reading
    BY <1>4 DEF ReadOK
  <2>6. /\ up' # "off" /\ rd'.off = rd'.off0 + rd'.i /\ rd'.i <= rd'.len
        /\ rd'.i > 0 => rd'.off <= inodes'[rd'.ip].dinode.length
        /\ ~rd'.on => ~More'
    BY <2>2, <2>4, <2>5 DEF Reading
  <2>7. rd'.curr # -1 => rd'.dbuf = Sector(inodes[rd.ip].dinode.start + rd.curr)'
    BY <1>1, <2>2, <2>5 DEF Reading, Sector
  <2>8. \A z \in 1 .. rd'.i : rd'.buf[z] = Contents(rd.ip)'[rd'.off0 + z]
    BY <2>4, <2>5 DEF Reading
  <2>9. Reading'
    BY <2>6, <2>7, <2>8 DEF Reading
  <2> QED BY <1>2, <1>4, <2>9 DEF ReadOK
<1> QED BY <1>3, <1>4

LEMMA InitFsOK ==
  ASSUME FSInv, init_fs
  PROVE  FSInv'
<1>1. /\ up = "off" /\ host = "done" /\ up' = "fs" /\ opened' = opened /\ rd' = rd /\ UNCHANGED hostVars
      /\ inodes' = [i \in Ino |->
           IF i < MAX_FILE
           THEN [valid |-> TRUE, type |-> "FILE", dev |-> 0, dinode |-> inode[i]]
           ELSE inodes[i]]
  BY DEF init_fs
<1>2. inode' = inode /\ host' = host
  BY <1>1 DEF hostVars
<1>3. rd.ip = NULL
  BY <1>1 DEF FSInv, ReadOK, Reading
<1>4. \A i \in Slot : /\ inodes'[i] = [valid |-> TRUE, type |-> "FILE", dev |-> 0, dinode |-> inode[i]]
                      /\ inode[i] \in Dinodes
  BY <1>1, SlotsAreInos DEF FSInv, ImageOK, HostTypes, Dinodes, NamesOf
<1>5. \A i \in Ino \ Slot : inodes'[i] = Invalid
  BY <1>1, SlotsAreInos DEF FSInv, TableOK
<1>6. TableOK'
  <2>1. \A i \in Ino : inodes'[i] \in Inodes
    <3>1. ASSUME NEW i \in Slot PROVE inodes'[i] \in Inodes
      <4>1. inode[i] \in Dinodes /\ 0 \in 0 .. MAX_DEV
        BY EasyFSAssumption DEF FSInv, ImageOK, HostTypes, Dinodes, NamesOf
      <4>2. [valid |-> TRUE, type |-> "FILE", dev |-> 0, dinode |-> inode[i]] \in Inodes
        BY <4>1 DEF Inodes
      <4> QED BY <1>4, <4>2
    <3>2. Invalid \in Inodes
      BY EasyFSAssumption DEF Invalid, NoInode, Inodes, Dinodes, NamesOf
    <3> QED BY <1>5, <3>1, <3>2
  <2>2. inodes' \in [Ino -> Inodes]
    BY <1>1, <2>1
  <2>3. ASSUME NEW i \in Slot
        PROVE  inodes'[i].valid /\ inodes'[i].type = "FILE" /\ inodes'[i].dinode = inode[i]
    <3>1. inodes'[i] = [valid |-> TRUE, type |-> "FILE", dev |-> 0, dinode |-> inode[i]]
      BY <1>4
    <3> QED BY <3>1
  <2>4. ASSUME NEW i \in Ino \ Slot PROVE DeviceAt(i)'
    <3>1. ~Invalid.valid /\ Invalid.dinode.length = 0
      BY DEF Invalid, NoInode
    <3>2. ~inodes'[i].valid /\ inodes'[i].dinode.length = 0
      BY <1>5, <3>1
    <3> QED BY <1>1, <3>2 DEF DeviceAt
  <2> QED BY <1>1, <1>2, <2>2, <2>3, <2>4 DEF TableOK
<1>7. ImageOK'
  BY <1>1, ImageStays DEF FSInv
<1>8. OpenedOK' /\ ReadOK'
  BY <1>1, <1>3 DEF FSInv, OpenedOK, ReadOK, ReadTypes
<1> QED BY <1>6, <1>7, <1>8 DEF FSInv

LEMMA InitDevOK ==
  ASSUME FSInv, init_dev
  PROVE  FSInv'
<1> DEFINE N == Len(DevNames)
           ds == 0 .. (N - 1)
<1>1. /\ up = "fs" /\ up' = "dev" /\ opened' = opened /\ rd' = rd /\ UNCHANGED hostVars
      /\ inodes' = [i \in Ino |->
           IF \E id \in ds : i = DevSlot(id)
           THEN LET id == CHOOSE d \in ds : i = DevSlot(d)
                IN  [valid |-> TRUE, type |-> "DEV", dev |-> id,
                     dinode |-> [inodes[i].dinode EXCEPT !.name = DevNames[id + 1]]]
           ELSE inodes[i]]
  BY DEF init_dev
<1>2. inode' = inode /\ host' = host
  BY <1>1 DEF hostVars
<1>3. N \in Nat /\ N <= MAX_DEV /\ MAX_FILE \in Nat /\ MAX_DEV \in Nat
  BY GenUserAssumption, EasyFSAssumption
<1>4. ASSUME NEW i \in Ino
      PROVE  /\ inodes[i].dinode \in Dinodes
             /\ i < MAX_FILE + N /\ i >= MAX_FILE =>
                  /\ inodes'[i] = [valid |-> TRUE, type |-> "DEV", dev |-> i - MAX_FILE,
                                   dinode |-> [inodes[i].dinode EXCEPT !.name = DevNames[i - MAX_FILE + 1]]]
                  /\ DevNames[i - MAX_FILE + 1] \in NamesOf /\ i - MAX_FILE \in 0 .. MAX_DEV
             /\ ~(i < MAX_FILE + N /\ i >= MAX_FILE) => inodes'[i] = inodes[i]
  <2>1. i \in Nat /\ inodes[i].dinode \in Dinodes
    BY SlotsAreInos DEF FSInv, TableOK, Inodes
  <2>2. CASE i < MAX_FILE + N /\ i >= MAX_FILE
    <3>1. i - MAX_FILE \in ds /\ i = DevSlot(i - MAX_FILE) /\ \A d \in ds : i = DevSlot(d) => d = i - MAX_FILE
      BY <1>3, <2>1, <2>2 DEF DevSlot
    <3>2. (CHOOSE d \in ds : i = DevSlot(d)) = i - MAX_FILE
      BY <3>1
    <3>3. inodes'[i] = [valid |-> TRUE, type |-> "DEV", dev |-> i - MAX_FILE,
                        dinode |-> [inodes[i].dinode EXCEPT !.name = DevNames[i - MAX_FILE + 1]]]
      BY <1>1, <3>1, <3>2
    <3>4. i - MAX_FILE + 1 \in DOMAIN DevNames /\ i - MAX_FILE \in 0 .. MAX_DEV
      BY <1>3, <2>1, <2>2, EasyFSAssumption
    <3> QED BY <2>1, <2>2, <3>3, <3>4 DEF NamesOf
  <2>3. CASE ~(i < MAX_FILE + N /\ i >= MAX_FILE)
    <3>1. \A d \in ds : i # DevSlot(d)
      BY <1>3, <2>1, <2>3 DEF DevSlot
    <3> QED BY <1>1, <2>1, <2>3, <3>1
  <2> QED BY <2>2, <2>3
<1> HIDE DEF N, ds
<1>5. ASSUME NEW i \in Ino
      PROVE  /\ inodes'[i] \in Inodes /\ inodes'[i].dinode.length = inodes[i].dinode.length
             /\ inodes'[i].dinode.start = inodes[i].dinode.start
             /\ i \in Slot => inodes'[i] = inodes[i]
             /\ i \notin Slot => DeviceAt(i)'
  <2>1. i \in Nat /\ (i \in Slot <=> i < MAX_FILE)
    BY SlotsAreInos
  <2>2. CASE i < MAX_FILE + N /\ i >= MAX_FILE
    <3> DEFINE nm == DevNames[i - MAX_FILE + 1]
               di == [inodes[i].dinode EXCEPT !.name = nm]
    <3>1. /\ inodes[i].dinode \in Dinodes /\ i - MAX_FILE \in 0 .. MAX_DEV /\ nm \in NamesOf
          /\ inodes'[i] = [valid |-> TRUE, type |-> "DEV", dev |-> i - MAX_FILE, dinode |-> di]
      BY <1>4, <2>2
    <3>2. /\ di \in Dinodes /\ di.length = inodes[i].dinode.length /\ di.start = inodes[i].dinode.start
          /\ di.name = nm
      BY <3>1 DEF Dinodes
    <3> HIDE DEF di
    <3>3. inodes'[i] \in Inodes
      BY <3>1, <3>2 DEF Inodes
    <3>4. inodes'[i].valid /\ inodes'[i].type = "DEV" /\ inodes'[i].dev = i - MAX_FILE /\ inodes'[i].dinode = di
      BY <3>1
    <3>5. i \notin Slot /\ inodes[i].dinode.length = 0
      BY <1>1, <1>3, <2>1, <2>2 DEF FSInv, TableOK, DeviceAt
    <3>6. DeviceAt(i)'
      BY <1>1, <2>2, <3>2, <3>4, <3>5 DEF DeviceAt, N
    <3> QED BY <3>2, <3>3, <3>4, <3>5, <3>6
  <2>3. CASE ~(i < MAX_FILE + N /\ i >= MAX_FILE)
    <3>1. inodes'[i] = inodes[i] /\ inodes[i] \in Inodes
      BY <1>4, <2>3 DEF FSInv, TableOK
    <3>2. ASSUME i \notin Slot PROVE DeviceAt(i)'
      <4>1. ~inodes[i].valid /\ inodes[i].dinode.length = 0 /\ ~(i < MAX_FILE + N)
        BY <1>1, <1>3, <2>1, <2>3, <3>2 DEF FSInv, TableOK, DeviceAt
      <4> QED BY <1>1, <3>1, <4>1 DEF DeviceAt, N
    <3> QED BY <3>1, <3>2
  <2> QED BY <2>2, <2>3
<1>6. TableOK'
  <2>1. inodes' \in [Ino -> Inodes]
    BY <1>1, <1>5
  <2>2. \A i \in Slot : inodes'[i].valid /\ inodes'[i].type = "FILE" /\ inodes'[i].dinode = inode[i]
    <3>1. \A i \in Slot : i \in Ino /\ inodes'[i] = inodes[i]
      BY <1>5, SlotsAreInos
    <3>2. \A i \in Slot : inodes[i].valid /\ inodes[i].type = "FILE" /\ inodes[i].dinode = inode[i]
      BY <1>1 DEF FSInv, TableOK
    <3> QED BY <3>1, <3>2
  <2>3. \A i \in Ino \ Slot : DeviceAt(i)'
    BY <1>5
  <2>4. host = "done"
    BY <1>1 DEF FSInv, TableOK
  <2> QED BY <1>1, <1>2, <2>1, <2>2, <2>3, <2>4 DEF TableOK
<1>7. ImageOK' /\ OpenedOK'
  BY <1>1, ImageStays DEF FSInv, OpenedOK
<1>8. ReadOK'
  BY <1>1, <1>5, ReadStays DEF FSInv
<1> QED BY <1>6, <1>7, <1>8 DEF FSInv

-----------------------------------------------------------------------------
(* iopen and iread.                                                        *)

LEMMA SmallestOf ==
  ASSUME NEW S, S \subseteq Nat, S # {}
  PROVE  LET m == CHOOSE i \in S : \A j \in S : i <= j
         IN  m \in S /\ \A j \in S : m <= j
<1>1. \E x \in S : \A y \in S : ~ (<<y, x>> \in OpToRel(<, Nat))
  BY WFMin, NatLessThanWellFounded
<1>2. \A x, y \in Nat : <<y, x>> \in OpToRel(<, Nat) <=> y < x
  BY Zenon DEF OpToRel
<1>3. \E x \in S : \A y \in S : ~(y < x)
  BY <1>1, <1>2, Zenon
<1>4. \E x \in S : \A y \in S : x <= y
  BY <1>3
<1> QED BY <1>4

\* iopen's search finds an inode of that name, the first one.
LEMMA LookupOK ==
  ASSUME NEW path
  PROVE  LET hits == {i \in Ino : inodes[i].valid /\ inodes[i].dinode.name = path}
         IN  /\ Lookup(path) = NULL <=> hits = {}
             /\ hits # {} => Lookup(path) \in hits /\ \A i \in hits : Lookup(path) <= i
<1> DEFINE hits == {i \in Ino : inodes[i].valid /\ inodes[i].dinode.name = path}
<1>1. hits \subseteq Nat /\ NULL \notin hits
  BY SlotsAreInos
<1>2. CASE hits = {}
  BY <1>2 DEF Lookup
<1>3. CASE hits # {}
  <2>1. Lookup(path) = CHOOSE i \in hits : \A j \in hits : i <= j
    BY <1>3 DEF Lookup
  <2> HIDE DEF hits
  <2>2. Lookup(path) \in hits /\ \A j \in hits : Lookup(path) <= j
    BY <1>1, <1>3, <2>1, SmallestOf
  <2> QED BY <1>1, <1>3, <2>2 DEF hits
<1> QED BY <1>2, <1>3

\* Everything but rd and opened stays.
Still == UNCHANGED <<hostVars, inodes, up>>

LEMMA TablesStay == ASSUME FSInv, Still PROVE ImageOK' /\ TableOK'
<1>1. UNCHANGED hostVars /\ inodes' = inodes /\ up' = up
  BY DEF Still
<1>2. host' = host /\ inode' = inode
  BY <1>1 DEF hostVars
<1> QED BY <1>1, <1>2, ImageStays DEF FSInv, TableOK, DeviceAt

LEMMA OpenOK ==
  ASSUME FSInv, Still, NEW path, opened' = [path |-> path, ip |-> Lookup(path)], rd' = NoRead
  PROVE  FSInv'
<1>1. Lookup(path) \in Ino \cup {NULL}
  BY LookupOK
<1>2. OpenedOK'
  BY <1>1 DEF OpenedOK
<1>3. ReadOK'
  BY NoReadOK DEF ReadOK, ReadTypes
<1> QED BY <1>2, <1>3, TablesStay DEF FSInv

\* A call of iread begins with nothing copied and no sector read.
LEMMA CallOK ==
  ASSUME FSInv, Still, opened'.ip \in Ino \cup {NULL}, up # "off",
         NEW ip \in Ino, NEW off \in Nat, NEW len \in Nat, rd' = ReadCall(ip, off, len)
  PROVE  FSInv'
<1>1. /\ rd'.on /\ rd'.ip = ip /\ rd'.off0 = off /\ rd'.off = off /\ rd'.len = len
      /\ rd'.i = 0 /\ rd'.curr = -1 /\ rd'.buf = <<>> /\ Len(<<>>) = 0
  BY DEF ReadCall, NoRead
<1>2. ReadTypes'
  <2>1. Zeros \in Sectors
    BY GenUserAssumption DEF Zeros, Sectors
  <2>2. rd' = [NoRead EXCEPT !.on = TRUE, !.ip = ip, !.off0 = off, !.off = off, !.len = len]
    BY DEF ReadCall
  <2> QED BY <2>1, <2>2, NoReadOK DEF ReadTypes
<1>3. up' # "off" /\ rd'.ip # NULL
  BY <1>1, SlotsAreInos DEF Still
<1>4. Reading'
  BY <1>1, <1>3 DEF Reading
<1>5. ReadOK'
  BY <1>1, <1>2, <1>3, <1>4 DEF ReadOK
<1> QED BY <1>5, TablesStay DEF FSInv, OpenedOK

LEMMA ReturnOK ==
  ASSUME FSInv, iread_return
  PROVE  FSInv'
<1>1. rd.on /\ ~More /\ rd' = [rd EXCEPT !.on = FALSE] /\ opened' = opened /\ Still
  BY DEF iread_return, Still
<1>2. ReadTypes'
  BY <1>1 DEF FSInv, ReadOK, ReadTypes
<1>3. /\ ~rd'.on /\ rd'.ip = rd.ip /\ rd'.off0 = rd.off0 /\ rd'.off = rd.off /\ rd'.len = rd.len
      /\ rd'.i = rd.i /\ rd'.curr = rd.curr /\ rd'.buf = rd.buf /\ rd'.dbuf = rd.dbuf
  BY <1>1 DEF FSInv, ReadOK, ReadTypes
<1>4. Reading /\ rd.ip # NULL
  BY <1>1 DEF FSInv, ReadOK
<1>5. inodes' = inodes /\ up' = up /\ img' = img /\ files' = files /\ file_num' = file_num
  BY <1>1 DEF Still, hostVars
<1>6. ~More'
  BY <1>1, <1>3, <1>5 DEF More
<1>7. rd'.curr # -1 => rd'.dbuf = Sector(inodes[rd.ip].dinode.start + rd.curr)'
  BY <1>3, <1>4, <1>5 DEF Reading, Sector
<1>8. \A z \in 1 .. rd'.i : rd'.buf[z] = Contents(rd.ip)'[rd'.off0 + z]
  BY <1>3, <1>4, <1>5 DEF Reading, Contents
<1>9. Reading'
  BY <1>3, <1>4, <1>5, <1>6, <1>7, <1>8 DEF Reading
<1>10. ReadOK'
  BY <1>2, <1>3, <1>4, <1>9 DEF FSInv, ReadOK
<1>11. OpenedOK'
  BY <1>1 DEF FSInv, OpenedOK
<1> QED BY <1>1, <1>10, <1>11, TablesStay DEF FSInv

\* The sector in dbuf is the one that holds the next byte, whether it was read
\* just now or for an earlier byte.
LEMMA ByteOK ==
  ASSUME FSInv, iread_byte
  PROVE  FSInv'
<1> DEFINE at == rd.off \div SECTSIZE
           st == inodes[rd.ip].dinode.start
           d == IF Stale THEN Sector(st + at) ELSE rd.dbuf
           ch == d[rd.off % SECTSIZE]
<1>1. /\ rd.on /\ More /\ opened' = opened /\ Still
      /\ rd' = [rd EXCEPT !.i = @ + 1, !.off = @ + 1, !.dbuf = d,
                          !.curr = IF Stale THEN at ELSE @, !.buf = Append(@, ch)]
  BY DEF iread_byte, Still
<1>2. Reading /\ rd.ip # NULL /\ rd.ip \in Ino /\ ReadTypes /\ rd.i = Len(rd.buf)
  BY <1>1 DEF FSInv, ReadOK, ReadTypes
<1>3. inodes' = inodes /\ up' = up /\ img' = img /\ files' = files /\ file_num' = file_num
  BY <1>1 DEF Still, hostVars
<1>4. /\ rd.off \in Nat /\ rd.off0 \in Nat /\ rd.i \in Nat /\ rd.len \in Nat /\ rd.dbuf \in Sectors
      /\ rd.buf \in Seq(Byte) /\ rd.curr \in Nat \cup {-1}
  BY <1>2 DEF ReadTypes
<1>5. at \in Nat /\ rd.off % SECTSIZE \in 0 .. (SECTSIZE - 1)
  BY <1>4, DivMod, GenUserAssumption
<1>6. /\ Len(Contents(rd.ip)) = inodes[rd.ip].dinode.length /\ inodes[rd.ip].dinode.length \in Nat
      /\ rd.off < inodes[rd.ip].dinode.length /\ rd.i < rd.len /\ st \in Nat
      /\ Sector(st + at)[rd.off % SECTSIZE] = Contents(rd.ip)[rd.off + 1]
  <2>1. rd.off < inodes[rd.ip].dinode.length /\ rd.i < rd.len
    BY <1>1 DEF More
  <2>2. ImageOK /\ TableOK /\ up # "off"
    BY <1>2 DEF FSInv, Reading
  <2>3. inodes[rd.ip].dinode.length \in Nat
    BY <1>2, <2>2, BytesAt
  <2>4. rd.off \in 0 .. (inodes[rd.ip].dinode.length - 1)
    BY <1>4, <2>1, <2>3
  <2> QED BY <1>2, <2>1, <2>2, <2>4, BytesAt
<1>7. \A s : Sector(s) \in Sectors
  <2>1. Zeros \in Sectors
    BY GenUserAssumption DEF Zeros, Sectors
  <2>2. img \in Seq(Sectors)
    BY DEF FSInv, ImageOK, HostTypes
  <2> QED BY <2>1, <2>2 DEF Sector
<1>8. d = Sector(st + at) /\ d \in Sectors /\ (~Stale => rd.curr = at)
  <2>1. CASE Stale
    BY <1>7, <2>1
  <2>2. CASE ~Stale
    <3>1. rd.curr = at /\ rd.curr # -1
      BY <1>5, <2>2 DEF Stale
    <3> QED BY <1>2, <1>7, <2>2, <3>1 DEF Reading
  <2> QED BY <2>1, <2>2
<1>9. ch = Contents(rd.ip)[rd.off + 1] /\ ch \in Byte
  <2> HIDE DEF d, at, st
  <2> QED BY <1>5, <1>6, <1>8 DEF Sectors, at
<1> HIDE DEF at, st, d, ch
<1>10. /\ rd'.on = rd.on /\ rd'.ip = rd.ip /\ rd'.off0 = rd.off0 /\ rd'.len = rd.len
       /\ rd'.off = rd.off + 1 /\ rd'.i = rd.i + 1 /\ rd'.dbuf = d
       /\ rd'.curr = at /\ rd'.buf = Append(rd.buf, ch)
  BY <1>1, <1>2, <1>8 DEF ReadTypes
<1>11. /\ Append(rd.buf, ch) \in Seq(Byte) /\ Len(Append(rd.buf, ch)) = rd.i + 1
       /\ Append(rd.buf, ch)[rd.i + 1] = ch
       /\ \A z \in 1 .. rd.i : Append(rd.buf, ch)[z] = rd.buf[z]
  BY <1>2, <1>4, <1>9
<1>12. ReadTypes'
  <2> DEFINE b == Append(rd.buf, ch)
             c == IF Stale THEN at ELSE rd.curr
  <2>1. b \in Seq(Byte) /\ c \in Nat \cup {-1} /\ rd.i + 1 \in Nat /\ rd.off + 1 \in Nat
    BY <1>4, <1>5, <1>11
  <2>2. rd' = [rd EXCEPT !.i = rd.i + 1, !.off = rd.off + 1, !.dbuf = d, !.curr = c, !.buf = b]
    BY <1>1, <1>2 DEF ReadTypes
  <2> HIDE DEF b, c
  <2> QED BY <1>2, <1>8, <2>1, <2>2 DEF ReadTypes
<1>13. rd'.dbuf = Sector(inodes[rd.ip].dinode.start + rd.curr)'
  BY <1>3, <1>8, <1>10 DEF Sector, st
<1>14. \A z \in 1 .. rd'.i : rd'.buf[z] = Contents(rd.ip)'[rd'.off0 + z]
  <2>1. Contents(rd.ip)' = Contents(rd.ip)
    BY <1>3, <1>10 DEF Contents
  <2>2. \A z \in 1 .. rd.i : rd.buf[z] = Contents(rd.ip)[rd.off0 + z]
    BY <1>2 DEF Reading
  <2>3. rd.off + 1 = rd.off0 + (rd.i + 1)
    BY <1>2, <1>4 DEF Reading
  <2>4. \A z \in 1 .. (rd.i + 1) : z \in 1 .. rd.i \/ z = rd.i + 1
    BY <1>4
  <2> QED BY <1>9, <1>10, <1>11, <2>1, <2>2, <2>3, <2>4
<1>15. Reading'
  <2>1. /\ up' # "off" /\ rd'.off = rd'.off0 + rd'.i /\ rd'.i <= rd'.len
        /\ rd'.off <= inodes'[rd'.ip].dinode.length
    <3>1. up # "off" /\ rd.off = rd.off0 + rd.i
      BY <1>2 DEF Reading
    <3>2. up' # "off" /\ inodes'[rd'.ip].dinode.length = inodes[rd.ip].dinode.length
      BY <1>3, <1>10, <3>1
    <3>3. rd'.off = rd'.off0 + rd'.i /\ rd'.i <= rd'.len
      <4>1. rd.off + 1 = rd.off0 + (rd.i + 1) /\ rd.i + 1 <= rd.len
        BY <1>4, <1>6, <3>1, SMTT(40)
      <4> QED BY <1>10, <4>1
    <3>4. rd'.off <= inodes[rd.ip].dinode.length
      <4>1. rd.off + 1 <= inodes[rd.ip].dinode.length
        BY <1>4, <1>6
      <4> QED BY <1>10, <4>1
    <3> QED BY <3>2, <3>3, <3>4
  <2>2. rd'.on
    BY <1>1, <1>10
  <2> QED BY <1>10, <1>13, <1>14, <2>1, <2>2 DEF Reading
<1>16. ReadOK'
  BY <1>2, <1>10, <1>11, <1>12, <1>15 DEF ReadOK
<1>17. OpenedOK'
  BY <1>1 DEF FSInv, OpenedOK
<1> QED BY <1>1, <1>16, <1>17, TablesStay DEF FSInv

LEMMA PanicsOK ==
  ASSUME FSInv, panics
  PROVE  FSInv'
<1>1. up \in {"fs", "dev"} /\ up' = "panic" /\ inodes' = inodes /\ opened' = opened /\ rd' = rd /\ UNCHANGED hostVars
  BY DEF panics
<1>2. host' = host /\ inode' = inode
  BY <1>1 DEF hostVars
<1>3. TableOK'
  BY <1>1, <1>2 DEF FSInv, TableOK, DeviceAt
<1>4. ImageOK' /\ OpenedOK'
  BY <1>1, ImageStays DEF FSInv, OpenedOK
<1>5. ReadOK'
  BY <1>1, ReadStays DEF FSInv
<1> QED BY <1>3, <1>4, <1>5 DEF FSInv

LEMMA FSStutter == ASSUME FSInv, UNCHANGED <<hostVars, fsVars>> PROVE FSInv'
<1>1. UNCHANGED hostVars /\ inodes' = inodes /\ up' = up /\ opened' = opened /\ rd' = rd
  BY DEF fsVars
<1>2. ReadOK'
  BY <1>1, ReadStays DEF FSInv
<1> QED BY <1>1, <1>2, TablesStay DEF FSInv, Still, OpenedOK

LEMMA FSStep == FSInv /\ [FSNext]_<<hostVars, fsVars>> => FSInv'
<1> SUFFICES ASSUME FSInv, [FSNext]_<<hostVars, fsVars>> PROVE FSInv'
  OBVIOUS
<1>1. CASE UNCHANGED <<hostVars, fsVars>>
  BY <1>1, FSStutter
<1>2. CASE /\ UNCHANGED fsVars
           /\ \/ \E name \in Names, data \in FileData : add_file(name, data)
              \/ add_file_aborts
              \/ write_inode
  BY <1>2, HostStepOK
<1>3. ASSUME NEW path, iopen(path) PROVE FSInv'
  BY <1>3, OpenOK DEF iopen, Still
<1>4. ASSUME NEW off \in 0 .. MaxLen, NEW len \in 0 .. MaxLen, iread(opened.ip, off, len) PROVE FSInv'
  <2>1. up # "off" /\ opened' = opened /\ Still /\ rd' = ReadCall(opened.ip, off, len) /\ opened.ip # NULL
    BY <1>4 DEF iread, Still
  <2>2. opened.ip \in Ino /\ off \in Nat /\ len \in Nat
    BY <2>1, EasyFSAssumption DEF FSInv, OpenedOK
  <2> QED BY <2>1, <2>2, CallOK
<1> QED BY <1>1, <1>2, <1>3, <1>4, InitFsOK, InitDevOK, PanicsOK, ByteOK, ReturnOK DEF FSNext

LEMMA FSInvHolds == FSSpec => []FSInv
BY FSInitOK, FSStep, PTL DEF FSSpec, FSStart

-----------------------------------------------------------------------------
(* What the file system promises.                                          *)

LEMMA FSTypes == FSInv => TypeOK
<1> SUFFICES ASSUME FSInv PROVE TypeOK
  OBVIOUS
<1>1. host \in {"packing", "done", "aborted"} /\ DOMAIN inode = Slot /\ file_num \in 0 .. MAX_FILE
  BY DEF FSInv, ImageOK, HostTypes
<1>2. inodes \in [Ino -> Inodes] /\ up \in {"off", "fs", "dev", "panic"}
  BY DEF FSInv, TableOK
<1>3. opened.ip \in Ino \cup {NULL} /\ rd.ip \in Ino \cup {NULL} /\ rd.i = Len(rd.buf)
  BY DEF FSInv, OpenedOK, ReadOK, ReadTypes
<1> QED BY <1>1, <1>2, <1>3, Zenon DEF TypeOK, Inodes, Dinodes, NamesOf

\* Whatever files are packed and in whatever sectors they end: the two counts of
\* genuser agree, and every byte is where the inode says.
THEOREM ImageAlwaysPacked == FSSpec => []Packed
<1>1. FSInv => Packed
  <2> SUFFICES ASSUME FSInv PROVE Packed
    OBVIOUS
  <2>1. Len(files) = file_num /\ curr_sect = FirstSect + Len(img)
    BY DEF FSInv, ImageOK, HostTypes
  <2>2. ASSUME NEW i \in 0 .. (file_num - 1)
        PROVE  /\ inode[i].name = files[i + 1].name
               /\ inode[i].length = Len(files[i + 1].data)
               /\ \A z \in 0 .. (inode[i].length - 1) :
                    Sector(inode[i].start + z \div SECTSIZE)[z % SECTSIZE] = files[i + 1].data[z + 1]
    <3>1. i \in Slot /\ i < file_num
      BY GenUserAssumption DEF FSInv, ImageOK, HostTypes, Slot
    <3>2. FileAt(i)
      BY <3>1 DEF FSInv, ImageOK
    <3> QED BY <3>1, <3>2, FileBytes DEF FSInv, FileAt
  <2> QED BY <2>1, <2>2, FSTypes DEF Packed
<1> QED BY <1>1, FSInvHolds, PTL

LEMMA ReadResult == FSInv => ReadsFile
<1> SUFFICES ASSUME FSInv, rd.ip # NULL
             PROVE  LET c == Contents(rd.ip)
                        n == IF rd.off0 >= Len(c) THEN 0 ELSE Len(c) - rd.off0
                    IN  /\ rd.i <= n /\ rd.i <= rd.len
                        /\ ~rd.on => rd.i = n \/ rd.i = rd.len
                        /\ \A z \in 1 .. rd.i : rd.buf[z] = c[rd.off0 + z]
  BY DEF ReadsFile
<1> DEFINE L == inodes[rd.ip].dinode.length
<1>1. rd.ip \in Ino /\ Reading /\ rd.off0 \in Nat /\ rd.off \in Nat /\ rd.i \in Nat /\ rd.len \in Nat
  BY DEF FSInv, ReadOK, ReadTypes
<1>2. Len(Contents(rd.ip)) = L /\ L \in Nat
  BY <1>1, BytesAt DEF FSInv, Reading
<1>3. /\ rd.off = rd.off0 + rd.i /\ rd.i <= rd.len
      /\ rd.i > 0 => rd.off <= L
      /\ ~rd.on => ~(rd.i < rd.len /\ rd.off < L)
      /\ \A z \in 1 .. rd.i : rd.buf[z] = Contents(rd.ip)[rd.off0 + z]
  BY <1>1 DEF Reading, More
<1> HIDE DEF L
<1> DEFINE n == IF rd.off0 >= L THEN 0 ELSE L - rd.off0
<1>4. rd.i <= n /\ (~rd.on => rd.i = n \/ rd.i = rd.len)
  BY <1>1, <1>2, <1>3
<1> HIDE DEF n
<1> QED BY <1>2, <1>3, <1>4 DEF n

\* iread returns the bytes of the file it was asked for, for every offset and
\* length and across any number of sectors.
THEOREM ReadsAlwaysRight == FSSpec => []ReadsFile
BY ReadResult, FSInvHolds, PTL

\* The inodes of a name: those of the files packed under it, or devices.
LEMMA FilesOfName ==
  ASSUME FSInv, up \in {"fs", "dev"}, NEW name \in Names
  PROVE  {i \in Ino : inodes[i].valid /\ inodes[i].dinode.name = name}
           = {i \in 0 .. (file_num - 1) : files[i + 1].name = name}
<1>1. file_num \in Nat /\ file_num <= MAX_FILE /\ MAX_FILE \in Nat
  BY GenUserAssumption DEF FSInv, ImageOK, HostTypes
<1>2. ASSUME NEW i \in Ino, inodes[i].valid, inodes[i].dinode.name = name
      PROVE  i \in 0 .. (file_num - 1) /\ files[i + 1].name = name
  <2>1. i \in Slot
    <3>1. ASSUME i \notin Slot PROVE FALSE
      <4>1. /\ i \in Nat /\ i >= MAX_FILE /\ i < MAX_FILE + Len(DevNames)
            /\ inodes[i].dinode.name = DevNames[i - MAX_FILE + 1]
        BY <1>1, <1>2, <3>1, SlotsAreInos DEF FSInv, TableOK, DeviceAt
      <4>2. i - MAX_FILE + 1 \in 1 .. Len(DevNames)
        BY <1>1, <4>1, EasyFSAssumption
      <4> QED BY <1>2, <4>1, <4>2, EasyFSAssumption
    <3> QED BY <3>1
  <2>2. inode[i].name = name
    BY <1>2, <2>1 DEF FSInv, TableOK
  <2>3. i < file_num
    <3>1. inode[i].name # NoName
      BY <2>2, GenUserAssumption
    <3> QED BY <2>1, <3>1 DEF FSInv, ImageOK, NoInode
  <2>4. i \in Nat
    BY <2>1, SlotsAreInos
  <2>5. FileAt(i)
    BY <2>1, <2>3 DEF FSInv, ImageOK
  <2> QED BY <1>1, <2>2, <2>3, <2>4, <2>5 DEF FileAt
<1>3. ASSUME NEW i \in 0 .. (file_num - 1), files[i + 1].name = name
      PROVE  i \in Ino /\ inodes[i].valid /\ inodes[i].dinode.name = name
  <2>1. i \in Slot /\ i < file_num
    BY <1>1 DEF Slot
  <2>2. FileAt(i) /\ i \in Ino /\ inodes[i].valid /\ inodes[i].dinode = inode[i]
    BY <2>1, SlotsAreInos DEF FSInv, ImageOK, TableOK
  <2> QED BY <1>3, <2>2 DEF FileAt
<1> QED BY <1>2, <1>3

LEMMA DevicesOfName ==
  ASSUME FSInv, up \in {"fs", "dev"}, NEW d \in DOMAIN DevNames, NEW i \in Ino,
         inodes[i].valid, inodes[i].dinode.name = DevNames[d]
  PROVE  /\ up = "dev" /\ inodes[i].type = "DEV" /\ inodes[i].dev = i - MAX_FILE
         /\ dev_get(i - MAX_FILE) = DevNames[d]
<1>1. MAX_FILE \in Nat /\ Len(DevNames) \in Nat /\ d \in 1 .. Len(DevNames)
  BY GenUserAssumption, EasyFSAssumption
<1>2. i \notin Slot
  <2>1. ASSUME i \in Slot PROVE FALSE
    <3>1. inode[i].name \in Names \cup {NoName} /\ inodes[i].dinode = inode[i]
      BY <2>1 DEF FSInv, ImageOK, HostTypes, TableOK
    <3> QED BY <1>1, <3>1, EasyFSAssumption
  <2> QED BY <2>1
<1>3. /\ up = "dev" /\ i < MAX_FILE + Len(DevNames) /\ inodes[i].type = "DEV"
      /\ inodes[i].dev = i - MAX_FILE /\ inodes[i].dinode.name = DevNames[i - MAX_FILE + 1]
  BY <1>2 DEF FSInv, TableOK, DeviceAt
<1>4. i \in Nat /\ i >= MAX_FILE
  BY <1>1, <1>2, SlotsAreInos
<1>5. ~(i - MAX_FILE >= Len(DevNames))
  BY <1>1, <1>3, <1>4
<1> QED BY <1>3, <1>5 DEF dev_get

\* iopen finds the first file packed under a name, or the device of that name
\* with its own operations, and nothing else.
THEOREM LookupAlwaysFinds == FSSpec => []LookupFinds
<1>1. FSInv => LookupFinds
  <2> SUFFICES ASSUME FSInv, up \in {"fs", "dev"} PROVE LookupFinds
    BY DEF LookupFinds
  <2>1. ASSUME NEW name \in Names
        PROVE  LET is == {i \in 0 .. (file_num - 1) : files[i + 1].name = name}
               IN  IF is = {} THEN Lookup(name) = NULL
                   ELSE /\ Lookup(name) \in is /\ \A i \in is : Lookup(name) <= i
                        /\ itype(Lookup(name)) = "FILE" /\ idevid(Lookup(name)) = -1
                        /\ isize(Lookup(name)) = Len(Contents(Lookup(name)))
    <3> DEFINE is == {i \in 0 .. (file_num - 1) : files[i + 1].name = name}
               l == Lookup(name)
    <3>1. /\ l = NULL <=> is = {}
          /\ is # {} => l \in is /\ \A i \in is : l <= i
      BY LookupOK, FilesOfName
    <3>2. ASSUME is # {} PROVE itype(l) = "FILE" /\ idevid(l) = -1 /\ isize(l) = Len(Contents(l))
      <4>1. l \in 0 .. (file_num - 1) /\ file_num <= MAX_FILE /\ file_num \in Nat /\ MAX_FILE \in Nat
        BY <3>1, <3>2, GenUserAssumption DEF FSInv, ImageOK, HostTypes
      <4> HIDE DEF l
      <4>2. l \in Slot /\ l \in Ino
        BY <4>1, SlotsAreInos DEF Slot
      <4>3. inodes[l].type = "FILE"
        BY <4>2 DEF FSInv, TableOK
      <4>4. Len(Contents(l)) = inodes[l].dinode.length
        BY <4>2, BytesAt DEF FSInv
      <4> QED BY <4>3, <4>4 DEF itype, idevid, isize
    <3> QED BY <3>1, <3>2
  <2>2. ASSUME NEW d \in DOMAIN DevNames
        PROVE  IF up = "fs" THEN Lookup(DevNames[d]) = NULL
               ELSE /\ Lookup(DevNames[d]) # NULL
                    /\ itype(Lookup(DevNames[d])) = "DEV"
                    /\ dev_get(idevid(Lookup(DevNames[d]))) = DevNames[d]
    <3> DEFINE hits == {i \in Ino : inodes[i].valid /\ inodes[i].dinode.name = DevNames[d]}
               l == Lookup(DevNames[d])
    <3>1. /\ l = NULL <=> hits = {}
          /\ hits # {} => l \in hits
      BY LookupOK
    <3>2. CASE up = "fs"
      <4>1. hits = {}
        BY <3>2, DevicesOfName
      <4> QED BY <3>1, <3>2, <4>1
    <3>3. CASE up = "dev"
      <4> DEFINE i == MAX_FILE + d - 1
      <4>1. i \in Ino /\ i \notin Slot /\ i < MAX_FILE + Len(DevNames) /\ i - MAX_FILE + 1 = d
        BY GenUserAssumption, EasyFSAssumption DEF Ino, Slot, MAX_INODE
      <4> HIDE DEF i
      <4>2. inodes[i].valid /\ inodes[i].dinode.name = DevNames[d]
        BY <3>3, <4>1 DEF FSInv, TableOK, DeviceAt
      <4>3. l \in hits
        BY <3>1, <4>1, <4>2
      <4>4. l \in Ino /\ inodes[l].valid /\ inodes[l].dinode.name = DevNames[d] /\ l # NULL
        BY <3>1, <4>3
      <4> HIDE DEF l
      <4>5. inodes[l].type = "DEV" /\ inodes[l].dev = l - MAX_FILE /\ dev_get(l - MAX_FILE) = DevNames[d]
        BY <3>3, <4>4, DevicesOfName
      <4>6. itype(l) = "DEV" /\ idevid(l) = l - MAX_FILE
        BY <4>5 DEF itype, idevid
      <4> QED BY <3>3, <4>4, <4>5, <4>6 DEF l
    <3> QED BY <3>2, <3>3
  <2> QED BY <2>1, <2>2, Zenon DEF LookupFinds
<1> QED BY <1>1, FSInvHolds, PTL

-----------------------------------------------------------------------------
(* load_elf.                                                               *)

\* A local of n words, after iread.
LEMMA FilledRight ==
  ASSUME NEW buf \in Seq(Byte), NEW n \in Nat, Len(buf) <= n, NEW local,
         local = NULL \/ local \in [1 .. n -> Byte], NEW x \in Filled(local, buf, n)
  PROVE  x \in [1 .. n -> Byte] /\ \A i \in 1 .. n : i <= Len(buf) => x[i] = buf[i]
<1> DEFINE R == IF Len(buf) = n THEN {buf} ELSE IF local = NULL THEN [1 .. n -> Stack] ELSE {local}
<1>1. PICK rest \in R : x = [i \in 1 .. n |-> IF i <= Len(buf) THEN buf[i] ELSE rest[i]]
  BY DEF Filled
<1>2. \A i \in 1 .. n : i <= Len(buf) => buf[i] \in Byte
  OBVIOUS
<1>3. \A i \in 1 .. n : ~(i <= Len(buf)) => rest[i] \in Byte
  <2>1. CASE Len(buf) = n
    BY <2>1
  <2>2. CASE Len(buf) # n /\ local = NULL
    BY <2>2, LoaderAssumption
  <2>3. CASE Len(buf) # n /\ local # NULL
    BY <2>3
  <2> QED BY <2>1, <2>2, <2>3
<1> QED BY <1>1, <1>2, <1>3

LEMMA HeaderWords ==
  ASSUME NEW x \in [1 .. EhdrLen -> Byte]
  PROVE  x[1] \in Byte /\ x[2] \in Nat /\ x[3] \in Nat
<1>1. Byte \subseteq Nat
  BY LoaderAssumption
<1>2. 1 \in 1 .. EhdrLen /\ 2 \in 1 .. EhdrLen /\ 3 \in 1 .. EhdrLen
  BY DEF EhdrLen
<1>3. x[1] \in Byte /\ x[2] \in Byte /\ x[3] \in Byte
  BY <1>2
<1> QED BY <1>1, <1>3

-----------------------------------------------------------------------------

LTypes ==
  /\ pc \in {"idle", "ehdr", "check", "loop", "phdr", "done"}
  /\ k \in Nat /\ seen \in Seq(Byte) /\ (ph = NULL \/ ph \in [1 .. PhdrLen -> Byte])
  /\ pc \in {"idle", "ehdr"} => elf = NULL
  /\ pc \in {"idle", "ehdr", "check"} => k = 0 /\ seen = <<>>
  /\ pc # "done" => ret = NULL
  /\ pc # "idle" => up # "off"
  /\ pc # "idle" /\ opened.ip = NULL => pc = "done" /\ ret = "fail" /\ elf = NULL
\* The iread that load_elf has called.
Calls ==
  pc \in {"ehdr", "phdr"} =>
    /\ rd.ip = opened.ip
    /\ rd.off0 = IF pc = "ehdr" THEN 0 ELSE PhOff
    /\ rd.len = IF pc = "ehdr" THEN EhdrLen ELSE PhdrLen
\* elf holds the words that the file has.
HasHeader == pc \in {"check", "loop", "phdr", "done"} /\ opened.ip # NULL
Header ==
  HasHeader =>
    elf \in [1 .. EhdrLen -> Byte] /\ \A i \in 1 .. EhdrLen : i <= Len(File) => elf[i] = File[i]
Verdict ==
  HasHeader =>
    /\ pc \in {"loop", "phdr"} => elf[1] = MAGIC
    /\ pc = "done" => ret \in {"entry", "fail", "panic"} /\ (ret = "fail" <=> elf[1] # MAGIC)
\* How far the loop is.
Walk ==
  HasHeader =>
    /\ k <= elf[3] /\ (pc = "phdr" => k < elf[3])
    /\ Len(seen) = IF ret = "panic" THEN k + 1 ELSE k
    /\ ret = "panic" => k < elf[3] /\ seen[k + 1] = PT_LOAD
    /\ ret = "entry" => k = elf[3]
    /\ \A i \in 1 .. k : seen[i] # PT_LOAD
\* Every program header looked at is that of the table or the one before, and the
\* last is still in ph.
Follows ==
  HasHeader =>
    /\ \A i \in 1 .. Len(seen) : FollowsTable(i)
    /\ Len(seen) > 0 => ph # NULL /\ ph[1] = seen[Len(seen)]
LInv == LTypes /\ Calls /\ Header /\ Verdict /\ Walk /\ Follows

LEMMA FileIsSeq ==
  ASSUME FSInv, opened.ip \in Ino
  PROVE  File \in Seq(Byte)
<1>1. files \in Seq(FileRec) /\ Len(files) = file_num /\ opened.ip \in Nat
  BY SlotsAreInos DEF FSInv, ImageOK, HostTypes
<1>2. CASE opened.ip < file_num
  <2>1. files[opened.ip + 1] \in FileRec
    BY <1>1, <1>2
  <2> QED BY <1>2, <2>1 DEF File, Contents, FileRec
<1>3. CASE ~(opened.ip < file_num)
  BY <1>3 DEF File, Contents
<1> QED BY <1>2, <1>3

\* A header that follows the table still does when seen has grown and nothing
\* else has changed.
LEMMA StillFollows ==
  ASSUME File' = File, elf' = elf, NEW i \in Nat, seen'[i] = seen[i],
         i > 1 => seen'[i - 1] = seen[i - 1], FollowsTable(i)
  PROVE  FollowsTable(i)'
<1>1. TypeAt(i)' = TypeAt(i)
  BY DEF TypeAt
<1> QED BY <1>1 DEF FollowsTable

LEMMA LoaderInitOK == HostInit /\ FSInit /\ LoaderInit => FSInv /\ LInv
<1> SUFFICES ASSUME HostInit, FSInit, LoaderInit PROVE LInv
  BY FSInitOK
<1> QED BY DEF LoaderInit, LInv, LTypes, Calls, Header, Verdict, Walk, Follows, HasHeader

\* Nothing of load_elf changes while it is idle.
LEMMA LoaderIdle ==
  ASSUME LInv, pc = "idle", UNCHANGED loaderVars
  PROVE  LInv'
<1>1. pc' = pc /\ elf' = elf /\ ph' = ph /\ k' = k /\ ret' = ret /\ seen' = seen
  BY DEF loaderVars
<1> QED BY <1>1 DEF LInv, LTypes, Calls, Header, Verdict, Walk, Follows, HasHeader

LEMMA LoadOK ==
  ASSUME FSInv, LInv, NEW name \in Names, load_elf(name)
  PROVE  FSInv' /\ LInv'
<1> DEFINE ip == Lookup(name)
<1>1. /\ pc = "idle" /\ up # "off" /\ up' = up /\ Still /\ opened' = [path |-> name, ip |-> ip]
      /\ elf' = elf /\ ph' = ph /\ k' = k /\ seen' = seen
  BY DEF load_elf, Still
<1>2. ip \in Ino \cup {NULL} /\ opened'.ip = ip
  BY <1>1, LookupOK
<1>3. /\ elf = NULL /\ ret = NULL /\ k = 0 /\ seen = <<>> /\ seen \in Seq(Byte)
      /\ (ph = NULL \/ ph \in [1 .. PhdrLen -> Byte])
  BY <1>1 DEF LInv, LTypes
<1>4. CASE ip = NULL
  <2>1. pc' = "done" /\ ret' = "fail" /\ rd' = NoRead
    BY <1>4 DEF load_elf
  <2>2. FSInv'
    BY <1>1, <2>1, OpenOK
  <2>3. LInv'
    BY <1>1, <1>2, <1>3, <1>4, <2>1 DEF LInv, LTypes, Calls, Header, Verdict, Walk, Follows, HasHeader
  <2> QED BY <2>2, <2>3
<1>5. CASE ip # NULL
  <2>1. pc' = "ehdr" /\ ret' = ret /\ rd' = ReadCall(ip, 0, EhdrLen)
    BY <1>5 DEF load_elf
  <2>2. FSInv'
    BY <1>1, <1>2, <1>5, <2>1, CallOK DEF EhdrLen
  <2>3. rd'.ip = ip /\ rd'.off0 = 0 /\ rd'.len = EhdrLen
    BY <2>1 DEF ReadCall, NoRead
  <2>4. LTypes' /\ Calls'
    BY <1>1, <1>2, <1>3, <1>5, <2>1, <2>3 DEF LTypes, Calls
  <2> QED BY <2>1, <2>2, <2>4 DEF LInv, Header, Verdict, Walk, Follows, HasHeader
<1> QED BY <1>4, <1>5

-----------------------------------------------------------------------------

\* The file stays what it is, whatever iread does.
LEMMA FileStays ==
  ASSUME UNCHANGED hostVars, opened' = opened
  PROVE  File' = File /\ opened'.ip = opened.ip
<1>1. files' = files /\ file_num' = file_num
  BY DEF hostVars
<1> QED BY <1>1 DEF File, Contents

\* A step of iread, or none: load_elf waits.
LEMMA LoaderWaits ==
  ASSUME LInv, UNCHANGED loaderVars, UNCHANGED hostVars, opened' = opened, up' = up,
         rd'.ip = rd.ip, rd'.off0 = rd.off0, rd'.len = rd.len
  PROVE  LInv'
<1>1. pc' = pc /\ elf' = elf /\ ph' = ph /\ k' = k /\ ret' = ret /\ seen' = seen
  BY DEF loaderVars
<1>2. File' = File /\ opened'.ip = opened.ip
  BY FileStays
<1>3. LTypes' /\ Calls'
  BY <1>1 DEF LInv, LTypes, Calls, PhOff
<1>4. HasHeader' = HasHeader
  BY <1>1, <1>2, Zenon DEF HasHeader
<1>5. Header' /\ Verdict' /\ Walk'
  BY <1>1, <1>2, <1>4 DEF LInv, Header, Verdict, Walk
<1>6. Follows'
  <2>1. \A i : FollowsTable(i)' <=> FollowsTable(i)
    BY <1>1, <1>2 DEF TypeAt, FollowsTable
  <2> QED BY <1>1, <1>4, <2>1 DEF LInv, Follows
<1> QED BY <1>3, <1>5, <1>6 DEF LInv

\* What iread has left in buf for load_elf, when it has returned.
LEMMA Answer ==
  ASSUME FSInv, LInv, pc \in {"ehdr", "phdr"}, ~rd.on
  PROVE  LET off == IF pc = "ehdr" THEN 0 ELSE PhOff
             len == IF pc = "ehdr" THEN EhdrLen ELSE PhdrLen
         IN  /\ rd.buf \in Seq(Byte) /\ Len(rd.buf) <= len
             /\ \A i \in 1 .. len : off + i <= Len(File) => i <= Len(rd.buf) /\ rd.buf[i] = File[off + i]
             /\ off >= Len(File) => Len(rd.buf) = 0
<1> DEFINE off == IF pc = "ehdr" THEN 0 ELSE PhOff
           len == IF pc = "ehdr" THEN EhdrLen ELSE PhdrLen
<1>1. opened.ip # NULL /\ opened.ip \in Ino /\ rd.ip = opened.ip /\ rd.off0 = off /\ rd.len = len
  BY DEF LInv, LTypes, Calls, FSInv, OpenedOK
<1>2. rd.buf \in Seq(Byte) /\ rd.i = Len(rd.buf) /\ rd.off0 \in Nat /\ rd.i \in Nat /\ len \in Nat
  BY <1>1 DEF FSInv, ReadOK, ReadTypes
<1>3. File \in Seq(Byte) /\ Len(File) \in Nat
  BY <1>1, FileIsSeq
<1> HIDE DEF off, len
<1> DEFINE n == IF off >= Len(File) THEN 0 ELSE Len(File) - off
<1>4. /\ rd.i <= n /\ rd.i <= len /\ (rd.i = n \/ rd.i = len)
      /\ \A j \in 1 .. rd.i : rd.buf[j] = File[off + j]
  BY <1>1, ReadResult DEF ReadsFile, File
<1> HIDE DEF File
<1>5. \A i \in 1 .. len : off + i <= Len(File) => i <= Len(rd.buf) /\ rd.buf[i] = File[off + i]
  BY <1>1, <1>2, <1>3, <1>4
<1>6. off >= Len(File) => Len(rd.buf) = 0
  BY <1>2, <1>4
<1> QED BY <1>1, <1>2, <1>4, <1>5, <1>6 DEF off, len

-----------------------------------------------------------------------------

LEMMA ReadEhdrOK ==
  ASSUME FSInv, LInv, ReadEhdr
  PROVE  FSInv' /\ LInv'
<1>1. /\ pc = "ehdr" /\ ~rd.on /\ elf' \in Filled(NULL, rd.buf, EhdrLen) /\ pc' = "check"
      /\ UNCHANGED <<hostVars, fsVars>> /\ ph' = ph /\ k' = k /\ ret' = ret /\ seen' = seen
  BY DEF ReadEhdr
<1>2. opened' = opened /\ up' = up /\ UNCHANGED hostVars
  BY <1>1 DEF fsVars
<1>3. /\ rd.buf \in Seq(Byte) /\ Len(rd.buf) <= EhdrLen
      /\ \A i \in 1 .. EhdrLen : 0 + i <= Len(File) => i <= Len(rd.buf) /\ rd.buf[i] = File[0 + i]
  BY <1>1, Answer
<1>4. elf' \in [1 .. EhdrLen -> Byte] /\ \A i \in 1 .. EhdrLen : i <= Len(rd.buf) => elf'[i] = rd.buf[i]
  <2>1. EhdrLen \in Nat
    BY DEF EhdrLen
  <2> QED BY <1>1, <1>3, <2>1, FilledRight
<1>5. \A i \in 1 .. EhdrLen : i <= Len(File) => elf'[i] = File[i]
  <2>1. \A i \in 1 .. EhdrLen : 0 + i = i
    BY DEF EhdrLen
  <2> HIDE DEF File
  <2> QED BY <1>3, <1>4, <2>1, Zenon
<1>6. File' = File /\ opened'.ip = opened.ip
  BY <1>2, FileStays
<1>7. Header'
  BY <1>4, <1>5, <1>6 DEF Header
<1>8. /\ ret = NULL /\ k = 0 /\ seen = <<>> /\ seen \in Seq(Byte) /\ opened.ip # NULL /\ up # "off"
      /\ (ph = NULL \/ ph \in [1 .. PhdrLen -> Byte])
  BY <1>1 DEF LInv, LTypes
<1>9. LTypes' /\ Calls' /\ Verdict'
  BY <1>1, <1>2, <1>6, <1>8 DEF LTypes, Calls, Verdict
<1>10. elf'[3] \in Nat /\ NULL # "panic" /\ NULL # "entry"
  BY <1>4, HeaderWords, LoaderAssumption
<1>11. Walk' /\ Follows'
  BY <1>1, <1>8, <1>10 DEF Walk, Follows
<1>12. FSInv'
  BY <1>1, FSStutter
<1> QED BY <1>7, <1>9, <1>11, <1>12 DEF LInv

LEMMA CheckOK ==
  ASSUME FSInv, LInv, Check
  PROVE  FSInv' /\ LInv'
<1>1. /\ pc = "check" /\ UNCHANGED <<hostVars, fsVars>> /\ elf' = elf /\ ph' = ph /\ k' = k /\ seen' = seen
      /\ IF elf[1] # MAGIC THEN pc' = "done" /\ ret' = "fail" ELSE pc' = "loop" /\ ret' = ret
  BY DEF Check, NotElf
<1>2. opened' = opened /\ up' = up /\ UNCHANGED hostVars
  BY <1>1 DEF fsVars
<1>3. File' = File /\ opened'.ip = opened.ip
  BY <1>2, FileStays
<1>4. /\ ret = NULL /\ k = 0 /\ seen = <<>> /\ seen \in Seq(Byte) /\ opened.ip # NULL /\ up # "off"
      /\ (ph = NULL \/ ph \in [1 .. PhdrLen -> Byte]) /\ NULL # "panic" /\ NULL # "entry"
  BY <1>1, LoaderAssumption DEF LInv, LTypes
<1>5. HasHeader /\ elf \in [1 .. EhdrLen -> Byte]
  BY <1>1, <1>4 DEF LInv, Header, HasHeader
<1>6. Header'
  BY <1>1, <1>3, <1>5 DEF LInv, Header
<1>7. LTypes' /\ Calls'
  BY <1>1, <1>2, <1>3, <1>4 DEF LTypes, Calls
<1>8. Verdict'
  BY <1>1 DEF Verdict
<1>9. elf[3] \in Nat
  BY <1>5, HeaderWords
<1>10. Walk' /\ Follows'
  BY <1>1, <1>4, <1>9 DEF Walk, Follows
<1>11. FSInv'
  BY <1>1, FSStutter
<1> QED BY <1>6, <1>7, <1>8, <1>10, <1>11 DEF LInv

LEMMA ReadPhdrOK ==
  ASSUME FSInv, LInv, ReadPhdr
  PROVE  FSInv' /\ LInv'
<1>1. /\ pc = "loop" /\ k < elf[3] /\ rd' = ReadCall(opened.ip, PhOff, PhdrLen) /\ pc' = "phdr"
      /\ UNCHANGED hostVars /\ Still /\ up' = up /\ opened' = opened
      /\ elf' = elf /\ ph' = ph /\ k' = k /\ ret' = ret /\ seen' = seen
  BY DEF ReadPhdr, Still
<1>2. File' = File /\ opened'.ip = opened.ip
  BY <1>1, FileStays
<1>3. /\ ret = NULL /\ k \in Nat /\ seen \in Seq(Byte) /\ opened.ip # NULL /\ up # "off"
      /\ (ph = NULL \/ ph \in [1 .. PhdrLen -> Byte])
  BY <1>1 DEF LInv, LTypes
<1>4. HasHeader /\ HasHeader' /\ elf \in [1 .. EhdrLen -> Byte]
  BY <1>1, <1>3 DEF LInv, Header, HasHeader
<1>5. PhOff \in Nat /\ PhdrLen \in Nat
  <2>1. elf[2] \in Nat
    BY <1>4, HeaderWords
  <2> QED BY <1>3, <2>1 DEF PhOff, PhdrLen
<1>6. FSInv'
  BY <1>1, <1>3, <1>5, CallOK DEF FSInv, OpenedOK
<1>7. rd'.ip = opened.ip /\ rd'.off0 = PhOff /\ rd'.len = PhdrLen
  BY <1>1 DEF ReadCall, NoRead
<1>8. LTypes' /\ Calls'
  BY <1>1, <1>3, <1>7 DEF LTypes, Calls, PhOff
<1>9. Header' /\ Verdict'
  BY <1>1, <1>2, <1>4 DEF LInv, Header, Verdict
<1>10. Walk'
  BY <1>1, <1>4 DEF LInv, Walk
<1>11. Follows'
  <2>1. \A i : FollowsTable(i)' <=> FollowsTable(i)
    BY <1>1, <1>2 DEF TypeAt, FollowsTable
  <2> QED BY <1>1, <1>4, <2>1 DEF LInv, Follows
<1> QED BY <1>6, <1>8, <1>9, <1>10, <1>11 DEF LInv

\* The header that iread filled in is that of the table, or still the one before;
\* the loop stops at the first PT_LOAD.
LEMMA SegmentOK ==
  ASSUME FSInv, LInv, Segment
  PROVE  FSInv' /\ LInv'
<1> DEFINE t == ph'[1]
<1>1. /\ pc = "phdr" /\ ~rd.on /\ ph' \in Filled(ph, rd.buf, PhdrLen) /\ seen' = Append(seen, t)
      /\ IF t = PT_LOAD THEN pc' = "done" /\ ret' = "panic" /\ k' = k
                        ELSE pc' = "loop" /\ ret' = ret /\ k' = k + 1
      /\ UNCHANGED <<hostVars, fsVars>> /\ elf' = elf
  BY DEF Segment
<1>2. opened' = opened /\ up' = up /\ UNCHANGED hostVars
  BY <1>1 DEF fsVars
<1>3. File' = File /\ opened'.ip = opened.ip
  BY <1>2, FileStays
<1>4. /\ ret = NULL /\ k \in Nat /\ seen \in Seq(Byte) /\ opened.ip # NULL /\ up # "off"
      /\ (ph = NULL \/ ph \in [1 .. PhdrLen -> Byte]) /\ NULL \notin {"entry", "fail", "panic"}
  BY <1>1, LoaderAssumption DEF LInv, LTypes
<1>5. HasHeader /\ HasHeader' /\ elf \in [1 .. EhdrLen -> Byte]
  BY <1>1, <1>3, <1>4 DEF LInv, Header, HasHeader
<1>6. /\ rd.buf \in Seq(Byte) /\ Len(rd.buf) <= PhdrLen
      /\ \A i \in 1 .. PhdrLen : PhOff + i <= Len(File) => i <= Len(rd.buf) /\ rd.buf[i] = File[PhOff + i]
  BY <1>1, Answer
<1>7. ph' \in [1 .. PhdrLen -> Byte] /\ \A i \in 1 .. PhdrLen : i <= Len(rd.buf) => ph'[i] = rd.buf[i]
  <2>1. PhdrLen \in Nat
    BY DEF PhdrLen
  <2> QED BY <1>1, <1>4, <1>6, <2>1, FilledRight
<1>8. t \in Byte
  BY <1>7 DEF PhdrLen
<1>9. k < elf[3] /\ Len(seen) = k /\ elf[3] \in Nat /\ elf[1] = MAGIC /\ \A i \in 1 .. k : seen[i] # PT_LOAD
  <2>1. elf[3] \in Nat
    BY <1>5, HeaderWords
  <2> QED BY <1>1, <1>4, <1>5, <2>1 DEF LInv, Walk, Verdict
<1> HIDE DEF t
<1>10. /\ seen' \in Seq(Byte) /\ Len(seen') = k + 1 /\ seen'[k + 1] = t
       /\ \A i \in 1 .. k : seen'[i] = seen[i]
  BY <1>1, <1>4, <1>8, <1>9
<1>11. LTypes' /\ Calls'
  BY <1>1, <1>2, <1>3, <1>4, <1>7, <1>10 DEF LTypes, Calls
<1>12. Header' /\ Verdict'
  BY <1>1, <1>3, <1>4, <1>5, <1>9 DEF LInv, Header, Verdict
<1>13. Walk'
  <2>1. CASE t = PT_LOAD
    <3>1. ret' = "panic" /\ k' = k /\ pc' = "done"
      BY <1>1, <2>1
    <3>2. \A i \in 1 .. k : seen'[i] # PT_LOAD
      BY <1>9, <1>10
    <3> QED BY <1>1, <1>4, <1>9, <1>10, <2>1, <3>1, <3>2 DEF Walk
  <2>2. CASE t # PT_LOAD
    <3>1. ret' = NULL /\ k' = k + 1 /\ pc' = "loop"
      BY <1>1, <1>4, <2>2
    <3>2. \A i \in 1 .. (k + 1) : seen'[i] # PT_LOAD
      BY <1>4, <1>9, <1>10, <2>2
    <3> QED BY <1>1, <1>4, <1>9, <1>10, <3>1, <3>2 DEF Walk
  <2> QED BY <2>1, <2>2
<1>14. ASSUME NEW j \in Nat, j = k + 1 PROVE FollowsTable(j)'
  <2>1. Len(File) \in Nat
    BY <1>4, FileIsSeq DEF FSInv, OpenedOK
  <2>2. PhOff \in Nat /\ PhOff + 1 = TypeAt(j) /\ j - 1 = k
    <3>1. elf[2] \in Nat
      BY <1>5, HeaderWords
    <3>2. j - 1 = k
      BY <1>4, <1>14
    <3> QED BY <1>4, <3>1, <3>2 DEF PhOff, TypeAt, PhdrLen
  <2>3. TypeAt(j)' = TypeAt(j) /\ seen'[j] = t
    BY <1>1, <1>10, <1>14 DEF TypeAt
  <2>4. CASE TypeAt(j) <= Len(File)
    <3>1. 1 \in 1 .. PhdrLen
      BY DEF PhdrLen
    <3>2. t = File[PhOff + 1]
      <4> HIDE DEF File
      <4> QED BY <1>6, <1>7, <2>2, <2>4, <3>1 DEF t
    <3> HIDE DEF File
    <3> QED BY <1>3, <2>2, <2>3, <2>4, <3>2 DEF FollowsTable
  <2>5. CASE ~(TypeAt(j) <= Len(File)) /\ k > 0
    <3>1. Len(rd.buf) = 0
      <4>1. PhOff >= Len(File)
        <5> HIDE DEF File
        <5> QED BY <2>1, <2>2, <2>5
      <4> QED BY <1>1, <4>1, Answer
    <3>2. ph # NULL /\ ph[1] = seen[k]
      BY <1>5, <1>9, <2>5 DEF LInv, Follows
    <3>3. ph' = [i \in 1 .. PhdrLen |-> IF i <= Len(rd.buf) THEN rd.buf[i] ELSE ph[i]]
      BY <1>1, <3>1, <3>2 DEF Filled, PhdrLen
    <3>4. t = seen[k]
      BY <3>1, <3>2, <3>3 DEF t, PhdrLen
    <3>5. seen'[k] = seen[k]
      BY <1>4, <1>10, <2>5
    <3> HIDE DEF File
    <3> QED BY <1>3, <2>2, <2>3, <2>5, <3>4, <3>5 DEF FollowsTable
  <2>6. CASE ~(TypeAt(j) <= Len(File)) /\ k = 0
    <3> HIDE DEF File
    <3> QED BY <1>3, <1>14, <2>3, <2>6 DEF FollowsTable
  <2> QED BY <1>4, <2>4, <2>5, <2>6
<1>15. \A i \in 1 .. k : FollowsTable(i)'
  <2> SUFFICES ASSUME NEW i \in 1 .. k PROVE FollowsTable(i)'
    OBVIOUS
  <2>1. FollowsTable(i)
    BY <1>5, <1>9 DEF LInv, Follows
  <2>2. i \in Nat /\ seen'[i] = seen[i] /\ (i > 1 => seen'[i - 1] = seen[i - 1])
    BY <1>4, <1>10
  <2> QED BY <1>1, <1>3, <2>1, <2>2, StillFollows
<1>16. Follows'
  <2>1. ph' # NULL /\ t = seen'[Len(seen')]
    <3>1. ph' # NULL
      BY <1>7, LoaderAssumption
    <3> QED BY <1>10, <3>1
  <2>2. \A i \in 1 .. (k + 1) : FollowsTable(i)'
    <3> SUFFICES ASSUME NEW i \in 1 .. (k + 1) PROVE FollowsTable(i)'
      OBVIOUS
    <3>1. i \in Nat /\ (i = k + 1 \/ i \in 1 .. k)
      BY <1>4
    <3> QED BY <1>14, <1>15, <3>1
  <2> QED BY <1>10, <2>1, <2>2 DEF Follows, t
<1>17. FSInv'
  BY <1>1, FSStutter
<1> QED BY <1>11, <1>12, <1>13, <1>16, <1>17 DEF LInv

LEMMA EntryOK ==
  ASSUME FSInv, LInv, Entry
  PROVE  FSInv' /\ LInv'
<1>1. /\ pc = "loop" /\ k >= elf[3] /\ pc' = "done" /\ ret' = "entry"
      /\ UNCHANGED <<hostVars, fsVars>> /\ elf' = elf /\ ph' = ph /\ k' = k /\ seen' = seen
  BY DEF Entry
<1>2. opened' = opened /\ up' = up /\ UNCHANGED hostVars
  BY <1>1 DEF fsVars
<1>3. File' = File /\ opened'.ip = opened.ip
  BY <1>2, FileStays
<1>4. /\ ret = NULL /\ k \in Nat /\ seen \in Seq(Byte) /\ opened.ip # NULL /\ up # "off"
      /\ (ph = NULL \/ ph \in [1 .. PhdrLen -> Byte]) /\ NULL \notin {"entry", "fail", "panic"}
  BY <1>1, LoaderAssumption DEF LInv, LTypes
<1>5. HasHeader /\ HasHeader' /\ elf \in [1 .. EhdrLen -> Byte]
  BY <1>1, <1>3, <1>4 DEF LInv, Header, HasHeader
<1>6. elf[3] \in Nat
  BY <1>5, HeaderWords
<1>7. LTypes' /\ Calls'
  BY <1>1, <1>2, <1>3, <1>4 DEF LTypes, Calls
<1>8. Header' /\ Verdict'
  BY <1>1, <1>3, <1>5 DEF LInv, Header, Verdict
<1>9. Walk'
  BY <1>1, <1>4, <1>5, <1>6 DEF LInv, Walk
<1>10. Follows'
  <2>1. \A i : FollowsTable(i)' <=> FollowsTable(i)
    BY <1>1, <1>3 DEF TypeAt, FollowsTable
  <2> QED BY <1>1, <1>5, <2>1 DEF LInv, Follows
<1>11. FSInv'
  BY <1>1, FSStutter
<1> QED BY <1>7, <1>8, <1>9, <1>10, <1>11 DEF LInv

-----------------------------------------------------------------------------

LEMMA LoaderStep == FSInv /\ LInv /\ [LoaderNext]_vars => FSInv' /\ LInv'
<1> SUFFICES ASSUME FSInv, LInv, [LoaderNext]_vars PROVE FSInv' /\ LInv'
  OBVIOUS
<1>1. CASE UNCHANGED vars
  <2>1. UNCHANGED <<hostVars, fsVars>> /\ UNCHANGED loaderVars
    BY <1>1 DEF vars
  <2>2. UNCHANGED hostVars /\ opened' = opened /\ up' = up /\ rd' = rd
    BY <2>1 DEF fsVars
  <2> QED BY <2>1, <2>2, FSStutter, LoaderWaits
<1>2. CASE /\ UNCHANGED <<fsVars, loaderVars>>
           /\ \/ \E name \in Names, data \in FileData : add_file(name, data)
              \/ write_inode
  <2>1. host = "packing"
    BY <1>2 DEF add_file, write_inode
  <2>2. pc = "idle"
    BY <2>1 DEF FSInv, TableOK, LInv, LTypes
  <2> QED BY <1>2, <2>2, HostStepOK, LoaderIdle
<1>3. CASE init_fs /\ UNCHANGED loaderVars
  <2>1. up = "off"
    BY <1>3 DEF init_fs
  <2>2. pc = "idle"
    BY <2>1 DEF LInv, LTypes
  <2> QED BY <1>3, <2>2, InitFsOK, LoaderIdle
<1>4. CASE \E name \in Names : load_elf(name)
  BY <1>4, LoadOK
<1>5. CASE iread_byte /\ UNCHANGED loaderVars
  <2>1. ReadTypes
    BY DEF FSInv, ReadOK
  <2>2. UNCHANGED hostVars /\ opened' = opened /\ up' = up
    BY <1>5 DEF iread_byte
  <2>3. rd'.ip = rd.ip /\ rd'.off0 = rd.off0 /\ rd'.len = rd.len
    BY <1>5, <2>1 DEF iread_byte, ReadTypes
  <2> QED BY <1>5, <2>2, <2>3, ByteOK, LoaderWaits
<1>6. CASE iread_return /\ UNCHANGED loaderVars
  <2>1. ReadTypes
    BY DEF FSInv, ReadOK
  <2>2. UNCHANGED hostVars /\ opened' = opened /\ up' = up
    BY <1>6 DEF iread_return
  <2>3. rd'.ip = rd.ip /\ rd'.off0 = rd.off0 /\ rd'.len = rd.len
    BY <1>6, <2>1 DEF iread_return, ReadTypes
  <2> QED BY <1>6, <2>2, <2>3, ReturnOK, LoaderWaits
<1> QED
  BY <1>1, <1>2, <1>3, <1>4, <1>5, <1>6, ReadEhdrOK, CheckOK, ReadPhdrOK, SegmentOK, EntryOK
  DEF LoaderNext, Step

LEMMA LoaderInvHolds == LoaderSpec => [](FSInv /\ LInv)
BY LoaderInitOK, LoaderStep, PTL DEF LoaderSpec, LoaderStart

\* load_elf goes on with a file that has a first word exactly when that word is
\* the magic number, whatever the stack held before.
THEOREM OnlyElfFilesGoOn == LoaderSpec => []OnlyElfFiles
<1>1. FSInv /\ LInv => OnlyElfFiles
  <2> SUFFICES ASSUME FSInv, LInv, pc = "done"
               PROVE  IF opened.ip = NULL THEN ret = "fail"
                      ELSE Len(File) > 0 => (ret = "fail" <=> File[1] # MAGIC)
    BY DEF OnlyElfFiles
  <2>1. CASE opened.ip = NULL
    BY <2>1 DEF LInv, LTypes
  <2>2. CASE opened.ip # NULL
    <3>1. HasHeader
      BY <2>2 DEF HasHeader
    <3>2. (ret = "fail" <=> elf[1] # MAGIC) /\ \A i \in 1 .. EhdrLen : i <= Len(File) => elf[i] = File[i]
      BY <3>1 DEF LInv, Verdict, Header
    <3>3. Len(File) \in Nat /\ 1 \in 1 .. EhdrLen
      BY <2>2, FileIsSeq DEF FSInv, OpenedOK, EhdrLen
    <3>4. Len(File) > 0 => elf[1] = File[1]
      BY <3>2, <3>3
    <3> QED BY <2>2, <3>2, <3>4
  <2> QED BY <2>1, <2>2
<1> QED BY <1>1, LoaderInvHolds, PTL

\* The program headers that load_elf looks at are those of the table, in order, all
\* of them or up to the first PT_LOAD, wherever in the file the table is; behind the
\* end of the file the last one is looked at again.
THEOREM SegmentsAlwaysSeen == LoaderSpec => []SeesItsSegments
<1>1. FSInv /\ LInv => SeesItsSegments
  <2> SUFFICES ASSUME FSInv, LInv, elf # NULL
               PROVE  /\ \A i \in 1 .. EhdrLen : i <= Len(File) => elf[i] = File[i]
                      /\ Len(seen) <= elf[3]
                      /\ \A i \in DOMAIN seen : FollowsTable(i)
                      /\ ret = "entry" =>
                           Len(seen) = elf[3] /\ \A i \in DOMAIN seen : seen[i] # PT_LOAD
                      /\ ret = "panic" =>
                           seen # <<>> /\ \A i \in DOMAIN seen : seen[i] = PT_LOAD <=> i = Len(seen)
    BY DEF SeesItsSegments
  <2> DEFINE n == Len(seen)
  <2>1. HasHeader /\ k \in Nat /\ seen \in Seq(Byte) /\ n \in Nat /\ DOMAIN seen = 1 .. n
    BY DEF LInv, LTypes, HasHeader
  <2>2. elf[3] \in Nat /\ \A i \in 1 .. EhdrLen : i <= Len(File) => elf[i] = File[i]
    BY <2>1, HeaderWords DEF LInv, Header
  <2>3. /\ k <= elf[3] /\ n = IF ret = "panic" THEN k + 1 ELSE k
        /\ ret = "panic" => k < elf[3] /\ seen[k + 1] = PT_LOAD
        /\ ret = "entry" => k = elf[3]
        /\ \A i \in 1 .. k : seen[i] # PT_LOAD
    BY <2>1 DEF LInv, Walk
  <2>4. \A i \in 1 .. n : FollowsTable(i)
    BY <2>1 DEF LInv, Follows
  <2> HIDE DEF n
  <2>5. n <= elf[3]
    BY <2>1, <2>2, <2>3
  <2>6. ASSUME ret = "entry" PROVE n = elf[3] /\ \A i \in 1 .. n : seen[i] # PT_LOAD
    BY <2>3, <2>6
  <2>7. ASSUME ret = "panic" PROVE n > 0 /\ \A i \in 1 .. n : seen[i] = PT_LOAD <=> i = n
    BY <2>1, <2>3, <2>7
  <2>8. n > 0 => seen # <<>>
    BY <2>1 DEF n
  <2> QED BY <2>1, <2>2, <2>4, <2>5, <2>6, <2>7, <2>8 DEF n
<1> QED BY <1>1, LoaderInvHolds, PTL

=============================================================================
