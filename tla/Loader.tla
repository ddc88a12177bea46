------------------------------- MODULE Loader -------------------------------
(***************************************************************************)
(* kernel/src/loader.c: load_elf, on top of the file system.  It never     *)
(* looks at what iread returns: when the file is shorter than the header   *)
(* or than the program header table, the rest of the local elf or ph is    *)
(* what the stack held.  A file is a sequence of words; its header is      *)
(* <<magic, e_phoff, e_phnum, e_entry>>, a program header <<p_type, rest>>.*)
(* The code for a PT_LOAD segment is TODO(), a panic.                      *)
(***************************************************************************)
EXTENDS EasyFS

CONSTANTS
  MAGIC, PT_LOAD,
  Stack      \* bound: the words an uninitialised local may hold

EhdrLen == 4   \* sizeof(elf), in words
PhdrLen == 2   \* sizeof(ph)

ASSUME LoaderAssumption ==
  /\ {MAGIC, PT_LOAD} \cup Stack \subseteq Byte /\ Byte \subseteq Nat
  /\ NULL \notin {"entry", "fail", "panic"} /\ NULL \notin [1 .. PhdrLen -> Byte]

VARIABLES
  pc,     \* "idle", "ehdr" and "phdr" (iread under way), "check", "loop", "done"
  elf, ph,
  k,      \* the loop's i
  ret,    \* "entry", "fail" (-1) or "panic"
  seen    \* history: the types of the program headers looked at

loaderVars == <<pc, elf, ph, k, ret, seen>>
vars == <<hostVars, fsVars, loaderVars>>

-----------------------------------------------------------------------------
(* Variants of the definitions below, each with one plausible mistake.     *)

\* The table is read as if it began at the start of the file.
PhOffFromStart == k * PhdrLen
\* The magic number is only warned about.
NotElfButGoOn == FALSE

-----------------------------------------------------------------------------

LoaderInit ==
  /\ pc = "idle" /\ elf = NULL /\ ph = NULL /\ k = 0 /\ ret = NULL /\ seen = <<>>

\* A local of n words after iread put buf at its start: the rest keeps its value,
\* and a local that has none yet holds any of Stack.
Filled(local, buf, n) ==
  {[i \in 1 .. n |-> IF i <= Len(buf) THEN buf[i] ELSE rest[i]] :
     rest \in IF Len(buf) = n THEN {buf}
              ELSE IF local = NULL THEN [1 .. n -> Stack] ELSE {local}}

\* iopen, and the first iread; or no such file.
load_elf(name) ==
  /\ pc = "idle" /\ up \in {"fs", "dev"} /\ ~rd.on
  /\ opened' = [path |-> name, ip |-> Lookup(name)]
  /\ IF Lookup(name) = NULL
     THEN pc' = "done" /\ ret' = "fail" /\ rd' = NoRead
     ELSE pc' = "ehdr" /\ ret' = ret /\ rd' = ReadCall(Lookup(name), 0, EhdrLen)
  /\ UNCHANGED <<inodes, up, hostVars, elf, ph, k, seen>>

ReadEhdr ==
  /\ pc = "ehdr" /\ ~rd.on
  /\ elf' \in Filled(NULL, rd.buf, EhdrLen)
  /\ pc' = "check"
  /\ UNCHANGED <<hostVars, fsVars, ph, k, ret, seen>>

NotElf == elf[1] # MAGIC
Check ==
  /\ pc = "check"
  /\ IF NotElf THEN pc' = "done" /\ ret' = "fail" ELSE pc' = "loop" /\ ret' = ret
  /\ UNCHANGED <<hostVars, fsVars, elf, ph, k, seen>>

PhOff == elf[2] + k * PhdrLen
ReadPhdr ==
  /\ pc = "loop" /\ k < elf[3]
  /\ rd' = ReadCall(opened.ip, PhOff, PhdrLen)
  /\ pc' = "phdr"
  /\ UNCHANGED <<hostVars, inodes, up, opened, elf, ph, k, ret, seen>>

Segment ==
  /\ pc = "phdr" /\ ~rd.on
  /\ ph' \in Filled(ph, rd.buf, PhdrLen)
  /\ seen' = Append(seen, ph'[1])
  /\ IF ph'[1] = PT_LOAD
     THEN pc' = "done" /\ ret' = "panic" /\ k' = k
     ELSE pc' = "loop" /\ ret' = ret /\ k' = k + 1
  /\ UNCHANGED <<hostVars, fsVars, elf>>

Entry ==
  /\ pc = "loop" /\ k >= elf[3]
  /\ pc' = "done" /\ ret' = "entry"
  /\ UNCHANGED <<hostVars, fsVars, elf, ph, k, seen>>

Step ==
  \/ ReadEhdr \/ Check \/ ReadPhdr \/ Segment \/ Entry
  \/ (iread_byte /\ UNCHANGED loaderVars)
  \/ (iread_return /\ UNCHANGED loaderVars)

LoaderNext ==
  \/ /\ UNCHANGED <<fsVars, loaderVars>>
     /\ \/ \E name \in Names, data \in FileData : add_file(name, data)
        \/ write_inode
  \/ init_fs /\ UNCHANGED loaderVars
  \/ \E name \in Names : load_elf(name)
  \/ Step

LoaderStart == HostInit /\ FSInit /\ LoaderInit
LoaderSpec == LoaderStart /\ [][LoaderNext]_vars

-----------------------------------------------------------------------------
(* Properties.                                                             *)

\* The file that was asked for.
File == Contents(opened.ip)

\* load_elf goes on with a file only when it begins with the magic number, and
\* fails only when it does not or when there is no file of that name.  This
\* holds for files that have a first word: of an empty one the test reads the
\* stack.
OnlyElfFiles ==
  pc = "done" =>
    IF opened.ip = NULL THEN ret = "fail"
    ELSE Len(File) > 0 => (ret = "fail" <=> File[1] # MAGIC)

\* The i-th program header looked at is the one at its place in the table; where
\* the file ends before it, iread leaves ph as it was and the one before it is
\* looked at again.
TypeAt(i) == elf[2] + (i - 1) * PhdrLen + 1
FollowsTable(i) ==
  IF TypeAt(i) <= Len(File) THEN seen[i] = File[TypeAt(i)]
  ELSE i > 1 => seen[i] = seen[i - 1]

\* The header is the file's as far as the file has one, and so are the program
\* headers, in the order of the table, also when the table is cut off: load_elf
\* returns the entry point after as many as the header says and none of them
\* PT_LOAD, and stops at the first PT_LOAD.  What the stack held decides only where
\* the file has no word, and of the program headers only for the first.
SeesItsSegments ==
  elf # NULL =>
    /\ \A i \in 1 .. EhdrLen : i <= Len(File) => elf[i] = File[i]
    /\ Len(seen) <= elf[3]
    /\ \A i \in DOMAIN seen : FollowsTable(i)
    /\ ret = "entry" => Len(seen) = elf[3] /\ \A i \in DOMAIN seen : seen[i] # PT_LOAD
    /\ ret = "panic" => seen # <<>> /\ \A i \in DOMAIN seen : seen[i] = PT_LOAD <=> i = Len(seen)

=============================================================================
