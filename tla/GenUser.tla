------------------------------ MODULE GenUser ------------------------------
(***************************************************************************)
(* utils/genuser.c: the host tool that packs the user programs into        *)
(* user.img, the image that starts at sector 256 of the disk.  The tool    *)
(* keeps two counts of the same thing: curr_sect, from which it fills in   *)
(* the inodes, and the position of the image file, where its writes really *)
(* go.  A file is a sequence of bytes with a basename; files is history.   *)
(***************************************************************************)
EXTENDS Integers, Sequences

CONSTANTS
  Names,     \* basenames of files
  NoName,    \* the empty string
  Byte,      \* includes 0
  SECTSIZE,
  MAX_FILE   \* inodes in a sector

ASSUME GenUserAssumption ==
  /\ SECTSIZE \in Nat \ {0} /\ MAX_FILE \in Nat \ {0}
  /\ 0 \in Byte /\ NoName \notin Names

FirstSect == 256
Slot == 0 .. (MAX_FILE - 1)

VARIABLES
  host,      \* "packing", "done" (the image is written) or "aborted"
  inode, file_num, curr_sect,
  img,       \* the sectors written so far; the first is for the inodes
  files      \* what was packed, in order

hostVars == <<host, inode, file_num, curr_sect, img, files>>

Zeros == [i \in 0 .. (SECTSIZE - 1) |-> 0]
NoInode == [start |-> 0, length |-> 0, name |-> NoName]

-----------------------------------------------------------------------------
(* Variants of the definitions below, each with one plausible mistake.     *)

\* curr_sect always moves one sector past the last full one.
SectsPlusOne(n) == n \div SECTSIZE + 1

-----------------------------------------------------------------------------

\* main, before its loop: a sector is kept for the inodes.
HostInit ==
  /\ host = "packing"
  /\ inode = [i \in Slot |-> NoInode]
  /\ file_num = 0 /\ curr_sect = FirstSect + 1
  /\ img = <<Zeros>>
  /\ files = <<>>

\* The sectors curr_sect is moved on by for a file of n bytes.
Sects(n) == (n + SECTSIZE - 1) \div SECTSIZE

\* The chunks that the loop of add_file reads and writes: full sectors, and
\* what is left padded with zeros.
Chunks(data) ==
  LET n == Len(data)
      count == n \div SECTSIZE + (IF n % SECTSIZE = 0 THEN 0 ELSE 1)
  IN  [c \in 1 .. count |->
         [i \in 0 .. (SECTSIZE - 1) |->
            IF (c - 1) * SECTSIZE + i < n THEN data[(c - 1) * SECTSIZE + i + 1] ELSE 0]]

HasRoom == file_num < MAX_FILE

add_file(name, data) ==
  /\ host = "packing" /\ HasRoom
  /\ inode' = [inode EXCEPT ![file_num] =
                 [start |-> curr_sect, length |-> Len(data), name |-> name]]
  /\ curr_sect' = curr_sect + Sects(Len(data))
  /\ file_num' = file_num + 1
  /\ img' = img \o Chunks(data)
  /\ files' = Append(files, [name |-> name, data |-> data])
  /\ UNCHANGED host

\* The assertion on the number of files.
add_file_aborts ==
  /\ host = "packing" /\ ~HasRoom
  /\ host' = "aborted"
  /\ UNCHANGED <<inode, file_num, curr_sect, img, files>>

\* The inodes go to the first sector (kept apart from the bytes in inode), and
\* the image is complete.
write_inode ==
  /\ host = "packing" /\ file_num > 0
  /\ host' = "done"
  /\ UNCHANGED <<inode, file_num, curr_sect, img, files>>

\* What the disk driver returns for a sector of the image; past its end the disk
\* is empty.
Sector(s) ==
  IF s - FirstSect + 1 \in 1 .. Len(img) THEN img[s - FirstSect + 1] ELSE Zeros

=============================================================================
