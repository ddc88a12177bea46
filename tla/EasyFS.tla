------------------------------- MODULE EasyFS -------------------------------
(***************************************************************************)
(* kernel/src/fs.c under EASY_FS, the read-only file system the kernel is  *)
(* built with, and kernel/src/dev.c, which adds the devices to it: init_fs *)
(* copies the inodes of the image, iopen searches a flat table, iread      *)
(* copies byte by byte and keeps the last sector it read.  The loop of     *)
(* iread takes one step per byte.                                          *)
(***************************************************************************)
EXTENDS GenUser, FiniteSets

CONSTANTS
  FileData,  \* what a file may hold
  DevNames,  \* the names of dev_table, in order
  MAX_DEV,
  MaxLen,    \* bound: offsets and lengths of reads
  NULL

\* A basename has no slash, and so is no name of a device.
ASSUME EasyFSAssumption ==
  /\ \A data \in FileData : data \in Seq(Byte)
  /\ DevNames \in Seq(STRING) /\ Len(DevNames) <= MAX_DEV
  /\ \A d \in 1 .. Len(DevNames) : DevNames[d] \notin Names \cup {NoName}
  /\ MAX_DEV \in Nat /\ MaxLen \in Nat /\ NULL \notin Nat

\* fs.c computes its own MAX_FILE, SECTSIZE / sizeof(dinode_t), from a struct that
\* repeats the fields of genuser's inode_t; one less is the variant.
OneFewer == MAX_FILE - 1
KMAX_FILE == MAX_FILE
MAX_INODE == KMAX_FILE + MAX_DEV
Ino == 0 .. (MAX_INODE - 1)

VARIABLES
  inodes,   \* the kernel's table
  up,       \* "off", "fs" (init_fs has run) or "dev" (init_dev too),
            \* or "panic"
  opened,   \* [path, ip]: the last iopen and what it returned
  rd        \* the iread under way or finished: its arguments and locals

fsVars == <<inodes, up, opened, rd>>

Invalid == [valid |-> FALSE, type |-> "NONE", dev |-> 0, dinode |-> NoInode]
NoRead == [on |-> FALSE, ip |-> NULL, off0 |-> 0, len |-> 0, off |-> 0, i |-> 0,
           curr |-> -1, dbuf |-> Zeros, buf |-> <<>>]

-----------------------------------------------------------------------------
(* Variants of the definitions below, each with one plausible mistake.     *)

\* iread keeps the first sector it has read.
StaleOnce == rd.curr = -1

-----------------------------------------------------------------------------

FSInit ==
  /\ inodes = [i \in Ino |-> Invalid]
  /\ up = "off"
  /\ opened = [path |-> NoName, ip |-> NULL]
  /\ rd = NoRead

init_fs ==
  /\ up = "off" /\ host = "done"
  /\ inodes' = [i \in Ino |->
       IF i < KMAX_FILE
       THEN [valid |-> TRUE, type |-> "FILE", dev |-> 0, dinode |-> inode[i]]
       ELSE inodes[i]]
  /\ up' = "fs"
  /\ UNCHANGED <<opened, rd, hostVars>>

\* iadddev for every entry of dev_table.
DevSlot(id) == KMAX_FILE + id
init_dev ==
  /\ up = "fs"
  /\ inodes' = [i \in Ino |->
       IF \E id \in 0 .. (Len(DevNames) - 1) : i = DevSlot(id)
       THEN LET id == CHOOSE d \in 0 .. (Len(DevNames) - 1) : i = DevSlot(d)
            IN  [valid |-> TRUE, type |-> "DEV", dev |-> id,
                 dinode |-> [inodes[i].dinode EXCEPT !.name = DevNames[id + 1]]]
       ELSE inodes[i]]
  /\ up' = "dev"
  /\ UNCHANGED <<opened, rd, hostVars>>

\* The first valid inode of that name.
Lookup(path) ==
  LET hits == {i \in Ino : inodes[i].valid /\ inodes[i].dinode.name = path}
  IN  IF hits = {} THEN NULL ELSE CHOOSE i \in hits : \A j \in hits : i <= j

iopen(path) ==
  /\ up \in {"fs", "dev"} /\ ~rd.on
  /\ opened' = [path |-> path, ip |-> Lookup(path)]
  /\ rd' = NoRead
  /\ UNCHANGED <<inodes, up, hostVars>>

isize(ip) == inodes[ip].dinode.length
itype(ip) == inodes[ip].type
idevid(ip) == IF inodes[ip].type = "DEV" THEN inodes[ip].dev ELSE -1

\* dev_get and the operations it returns, named by their device.
dev_get(id) == IF id >= Len(DevNames) THEN NULL ELSE DevNames[id + 1]

ReadCall(ip, off, len) ==
  [NoRead EXCEPT !.on = TRUE, !.ip = ip, !.off0 = off, !.off = off, !.len = len]
iread(ip, off, len) ==
  /\ up \in {"fs", "dev"} /\ ~rd.on /\ ip # NULL
  /\ rd' = ReadCall(ip, off, len)
  /\ UNCHANGED <<inodes, up, opened, hostVars>>

More == rd.i < rd.len /\ rd.off < inodes[rd.ip].dinode.length
Stale == rd.curr # rd.off \div SECTSIZE

\* One byte, from dbuf or after the sector has been read into it.
iread_byte ==
  /\ rd.on /\ More
  /\ LET at == rd.off \div SECTSIZE
         d  == IF Stale THEN Sector(inodes[rd.ip].dinode.start + at) ELSE rd.dbuf
     IN  rd' = [rd EXCEPT !.i = @ + 1, !.off = @ + 1, !.dbuf = d,
                          !.curr = IF Stale THEN at ELSE @,
                          !.buf = Append(@, d[rd.off % SECTSIZE])]
  /\ UNCHANGED <<inodes, up, opened, hostVars>>

iread_return ==
  /\ rd.on /\ ~More
  /\ rd' = [rd EXCEPT !.on = FALSE]
  /\ UNCHANGED <<inodes, up, opened, hostVars>>

\* iwrite, itrunc and iremove: this file system cannot be changed.
panics ==
  /\ up \in {"fs", "dev"} /\ ~rd.on
  /\ up' = "panic"
  /\ UNCHANGED <<inodes, opened, rd, hostVars>>

FSNext ==
  \/ /\ UNCHANGED fsVars
     /\ \/ \E name \in Names, data \in FileData : add_file(name, data)
        \/ add_file_aborts
        \/ write_inode
  \/ init_fs
  \/ init_dev
  \/ \E path \in Names \cup {NoName} \cup {DevNames[d] : d \in DOMAIN DevNames} : iopen(path)
  \/ \E off, len \in 0 .. MaxLen : iread(opened.ip, off, len)
  \/ panics
  \/ iread_byte
  \/ iread_return

FSStart == HostInit /\ FSInit
FSSpec == FSStart /\ [][FSNext]_<<hostVars, fsVars>>

-----------------------------------------------------------------------------
(* Properties.                                                             *)

TypeOK ==
  /\ host \in {"packing", "done", "aborted"}
  /\ DOMAIN inode = Slot /\ file_num \in 0 .. MAX_FILE
  /\ inodes \in [Ino -> [valid : BOOLEAN, type : {"NONE", "FILE", "DEV"},
                         dev : 0 .. MAX_DEV,
                         dinode : [start : Nat, length : Nat,
                                   name : Names \cup {NoName} \cup
                                          {DevNames[i] : i \in DOMAIN DevNames}]]]
  /\ up \in {"off", "fs", "dev", "panic"}
  /\ opened.ip \in Ino \cup {NULL} /\ rd.ip \in Ino \cup {NULL}
  /\ rd.i = Len(rd.buf)

\* The two counts of genuser agree, and the inodes say where the bytes really
\* are: byte k of file i is in the sector, at the offset, that iread will look
\* at, whatever the lengths of the files packed before and after it.
Packed ==
  /\ TypeOK
  /\ Len(files) = file_num /\ curr_sect = FirstSect + Len(img)
  /\ \A i \in 0 .. (file_num - 1) :
       /\ inode[i].name = files[i + 1].name
       /\ inode[i].length = Len(files[i + 1].data)
       /\ \A k \in 0 .. (inode[i].length - 1) :
            Sector(inode[i].start + k \div SECTSIZE)[k % SECTSIZE]
              = files[i + 1].data[k + 1]

\* The bytes of the file an inode stands for; devices and unused inodes have
\* none.
Contents(ip) == IF ip < file_num THEN files[ip + 1].data ELSE <<>>

\* iread returns the bytes of the file it was asked for, from the offset on, and
\* stops at the length or at the end of the file, whichever comes first: also
\* when it starts inside a sector, crosses sectors, or starts past the end.
ReadsFile ==
  rd.ip # NULL =>
    LET c == Contents(rd.ip)
        n == IF rd.off0 >= Len(c) THEN 0 ELSE Len(c) - rd.off0
    IN  /\ rd.i <= n /\ rd.i <= rd.len
        /\ ~rd.on => rd.i = n \/ rd.i = rd.len
        /\ \A k \in 1 .. rd.i : rd.buf[k] = c[rd.off0 + k]

\* What iopen finds for a name other than "": the first file packed under the
\* name; or the device, with its own operations, once init_dev has run; and
\* NULL only when there is neither.
LookupFinds ==
  up \in {"fs", "dev"} =>
    /\ \A name \in Names :
         LET is == {i \in 0 .. (file_num - 1) : files[i + 1].name = name}
         IN  IF is = {} THEN Lookup(name) = NULL
             ELSE /\ Lookup(name) \in is /\ \A i \in is : Lookup(name) <= i
                  /\ itype(Lookup(name)) = "FILE" /\ idevid(Lookup(name)) = -1
                  /\ isize(Lookup(name)) = Len(Contents(Lookup(name)))
    /\ \A d \in DOMAIN DevNames :
         IF up = "fs" THEN Lookup(DevNames[d]) = NULL
         ELSE /\ Lookup(DevNames[d]) # NULL
              /\ itype(Lookup(DevNames[d])) = "DEV"
              /\ dev_get(idevid(Lookup(DevNames[d]))) = DevNames[d]

=============================================================================
