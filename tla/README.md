# A verification project for yj-oslab

`yj-oslab` is a teaching operating system for x86 (32 bit, one processor): a boot
loader, a kernel, a user library, user programs and the host tools that build the
disk image. It is handed to students in phases. At this commit a good part of the
kernel is still `TODO()`, which is a panic; the modules here model what *is*
written, and model a `TODO()` that the code can reach as the stop it is.
`EASY_FS` is defined (`kernel/include/fs.h`), so the file system of this build is
the read-only one.

The modules are translated from the source. `PROJECT.json` gives, for every
definition that models code, the lines it stands for; the comments in the modules
say what is abstracted. Definitions keep the names of the C functions.

- [1. The system and its parts](#1-the-system-and-its-parts)
- [2. Modules and the code they model](#2-modules-and-the-code-they-model)
- [3. Runs: what is model-checked, with which bounds](#3-runs-what-is-model-checked-with-which-bounds)
- [4. Fairness](#4-fairness)
- [5. Theorems](#5-theorems)
- [6. What is only model-checked](#6-what-is-only-model-checked)
- [7. What is not modelled](#7-what-is-not-modelled)
- [8. Plan](#8-plan)

## 1. The system and its parts

```
 host:    genuser ──────────────► disk image (sector 256 on)
                                     │
 kernel:  list.c   disk.c (bread/bwrite/bzero, cache)   serial.c (console)
             ▲        │ read_disk                            ▲      │
   (wait lists of     ▼                                      │ sys_read/sys_write
    sem.c)         fs.c EASY_FS ── dev.c                     │
                      │ iopen, iread                         │
                   loader.c load_elf                         │
 user:                                    scanf.c (getchar, getline, scanf)
                   stdlib.c (malloc)                  │
                                          sh.c: getcmd → parsecmd → runcmd
                                                      │ fork, exec, pipe
   lib: string/, stdlib/, stdio.c ◄── cat, wc, head, grep, xargs, early shells
                                      tests: producer, rmtest, readtest, dfstest,
                                             waittest, forkfork (fork, wait, sem_*)
```

| part | state | operations | what is hard | what makes it correct |
|---|---|---|---|---|
| list library, `kernel/klib/list.c` | a static pool of `LIST_NUM` cells, doubly linked rings with a sentinel each | `list_init`, `list_enqueue`, `list_dequeue`, `list_remove`, `list_empty` | cells move between rings and the pool for ever; the pool runs out | rings stay closed, complete and in order: the lists are FIFO queues over a shared pool |
| block cache, `kernel/src/disk.c` | `bcache[]` (direct mapped, write through), the disk | `bread`, `bwrite`, `bzero` | eviction; whole blocks rewritten for a few bytes; stops between sectors | the cache cannot be seen; no stale word reaches the disk |
| console, `kernel/src/serial.c` | ring buffer, `head`, `tail`, `clapboard` (end of the last complete line) | `serial_read`, `getchar`, `serial_handle`, `push_back`, `pop_back`, `pop_front` | bytes arrive at any time; a ring without a full test; escape sequences in pieces | echo, buffer and counters agree; each character read once, in order; a complete line is returned |
| image builder, `utils/genuser.c` | inode sector, `curr_sect`, the image file | `add_file`, `write_inode` | two ways of rounding up that must agree | an inode points at the bytes of its file |
| read-only file system, `kernel/src/fs.c`, `dev.c` | inode table in memory, device table | `init_fs`, `init_dev`, `iopen`, `iread`, `iadddev`, ... | the sector kept across the bytes of a read; ends of files and sectors | reads return the file, names find it |
| loader, `kernel/src/loader.c` | ELF header, program header on the stack | `load_elf` | short reads nobody looks at | only ELF files go on; the headers seen are the file's |
| allocator, `user/ulib/stdlib.c` | circular free list threaded through the heap, `freep`, the break | `malloc`, `free`, `morecore`, `sbrk` | in-place headers, joining, gaps in the arena, a refused `brk` | every unit has one owner; the list stays ordered and joined; calls return |
| standard input, `user/ulib/scanf.c` | `buf`, `head`, `tail` | `getchar`, `getline`, `scanf` | `read` cuts the input anywhere, ends it, or fails | what a call returns depends on the input, not on the chunks |
| shell parser, `user/src/phase6/sh.c` | a pointer into the line | `gettoken`, `peek`, `parsecmd`, ..., `nulterminate` | mutual recursion over a shared pointer; zeros written into the line | accepts exactly its grammar; words end where they were typed to end |
| shell, `user/src/phase6/sh.c` | the processes of a command line, their descriptors, pipes | `runcmd`, `main` | concurrent processes, who closes what when, failing forks, background commands | programs get the right descriptors; the prompt comes back, after the foreground has ended |
| early shells, `phase2/sh1.c`, `phase3/sh.c` | a line, `argv` on the stack | `main`'s loop | what an earlier line left in `argv`; the word too many | a command gets the words of its line |
| filters, `phase6/cat.c`, `wc.c`, `head.c` | a static buffer, counters | a loop over files, a loop over reads | cuts of `read` inside words and lines, stale bytes behind a short read | the output depends on the files, not on the cuts |
| `phase6/grep.c` | the buffer with the rest of a line carried over | `grep`, `match`, `matchhere`, `matchstar` | lines across reads, lines that do not fit | the lines that match are shown, the others are not |
| `phase6/xargs.c` | a growing buffer, `strtok`'s pointer | `main`, `run` | nested use of one static pointer, growth by copying, no terminating zero | one run per line with that line's words |
| strings, `lib/src/string/` | memory; `strtok`'s pointer | the 20-odd functions | overlap, padding, ends of strings | what the C standard says of them |
| numbers, `lib/src/stdlib/` | - | `strtol`, `strtoul`, `atoi`, `itoa`, `utoa` | the limits of the width | saturating parse; what is written reads back |
| formatted output, `lib/src/stdio.c` | position in format, arguments, output | `vsprintf`, `number`, `skip_atoi`, addresses | interplay of flags, width, precision; arguments taken | each directive prints its field |
| semaphore tests, `producer.c`, `rmtest.c`, `readtest.c` | semaphores, files, offsets, the processes | one per system call | every order of processes; forks that fail | bounds and mutual exclusion; assertions hold; nobody waits for ever |
| fork tests, `dfstest.c`, `waittest.c`, `forkfork.c` | process table, the children of each process | `fork`, `wait`, `exit` | a full process table; children that exit at any time | all children are accounted for; the verdict is right; the tests end |

The kernel runs with one processor; within it, concurrency is that of devices
against polling code (console, disk). User processes are concurrent. Nothing is
persisted but the disk; `disk.c` is the only code that a crash can interrupt
between two writes. The hazards of the code, each at its line and with the
properties that would catch it, are listed in `PROJECT.json`.

## 2. Modules and the code they model

**`KList`** (`list.c`). State: `next`, `prev`, `ptr` of every cell (pool cells and
the sentinels), `inited`, the last return value `ret`, and `aborted` for a failed
assertion. The actions `list_init`, `list_enqueue`, `list_dequeue`, `list_remove`
are whole calls; `AddNextN/P` and `UnlinkN/P` are the pointer updates of
`list_add_next` and of the removals. The history variables `owner`, `stamp`, `clock`
say which ring a cell was last added to and when; they guard nothing.
`MaxClock` bounds the number of calls. **`KQueue`** is the abstract specification:
one sequence of (cell, payload) per list and a pool, nothing else; `KList` refines
it with `Queued(l)` (the cells owned by `l`, by age) as the queue of `l`.

**`BlockCache`** (`disk.c`). State: `disk` by block, sector and word, `cache`
(`valid`, `no`, `buf`), and the call in progress: `pc`, `call`, the loop counter
`sect`. A call is `Begin` (the range assertion, and the tag test of `bgetcache`), one
`read_disk` per sector on a miss, `CopyOut` or `CopyIn`, one `write_disk` per sector.
`Crash` may come between any two: the disk stays, everything else is lost. `off + size` is
added as in the code, in a `uint32_t` of `UINT` values (`Sum32`), while the device without
a cache tests the exact sum; `PromiseAssumption` is what lets the two agree, and what the
comments of `bread` and `bwrite` ask of their callers.
**`BlockStore`** is the device without a cache: a read returns what the disk holds,
a write changes the disk sector by sector, a crash stops it anywhere.

**`Serial`** (`serial.c`). `Press` and `Arrive` are the user and the line: a key is one
byte, or two for a special key, that reach the UART's queue `rx` at any time.
`serial_read` starts a read; `Poll` and `pop_front` are the loop of `getchar`;
`HandleIgnore`, `HandleEscape`, `HandleBackspace`, `HandleChar`, `HandleDone` the passes
of `serial_handle`; `Drain` its loop after an escape. The counters are not wrapped
(the buffer index is), which is right up to 2^31 characters. `screen`, `got`, `high`,
`leaked` are history.

**`Malloc`** (`stdlib.c`). The heap is an array of `Header` units; addresses count
units, `Base` is the static header. One step is one block that a loop looks at
(`MallocExact`, `MallocSplit`, `MallocNext`, `FreeNext`, `FreeLink`), so that the
loops' termination is a property and not an assumption. A unit that is not a header
is `Poison`: the model gets stuck, or an invariant fails, if the code reads one.
The program may move the break itself (`sbrk_take`, `sbrk_give`), and `brk` may
refuse (`morecore_fails`, `sbrk_refused`). When it refuses even to tell where the break
is, the assertion of the very first `sbrk` fails and the program ends (`sbrk_aborts`).
Requests are in units, after the rounding.

**`GenUser`**, **`EasyFS`**, **`Loader`** are one chain: `add_file` and `write_inode`
build an image, `init_fs` and `init_dev` read it, `iopen` and `iread` use it, and
`load_elf` calls those two. `iread` is one step per byte with its cached sector, as
in the code. `EasyFS` and `Loader` have no abstract files of their own: they read the
bytes that `GenUser` wrote. `genuser.c` and `fs.c` each compute a `MAX_FILE` from their own
copy of the inode; the kernel's side uses its own (`KMAX_FILE`). The loader's local variables start with any value
(`Stack`), as they do in C. The branch for a `PT_LOAD` segment is `TODO()`.

**`Stdin`** (`scanf.c`). `pending` is what the kernel has not delivered, `buf`, `head`,
`tail` the buffer. A call is a list of loops (`todo`): skip white space, store up to a
delimiter (`gets`), one character, a literal. `refill(n)` is a `read` that returns `n`
bytes, any that fit; `refill_fails` is -1, after which `tail` is -1. One step is one
character. Numbers of `scanf` stay the strings that `strtol` is given.

**`ShellParse`** (parser of `sh.c`; `phase5/sh.c` has the same one). `type` writes a line
character by character, `scan` cuts it into tokens (`gettoken`), `parsecmd` runs the
parse functions, which are operators on the rest of the line and keep the names of
the C functions. The grammar that they are compared with is stated separately, as a
relation between token strings and commands.

**`ShellRun`** (`runcmd`, `fork1`, `main`). A process has a command, a place in
`runcmd`, a descriptor table, a parent. One step is a fork, a wait, or the descriptor
calls between two of them: they act on the process's own table, and other processes
see of them only whether an end of a pipe is still held. Forks, pipes and opens may
fail. The system calls are
external (their handlers are `TODO()` here): lowest free descriptor, inherited tables, a reader blocks while a pipe is
empty and has a writer, wait returns a dead child, orphans have no parent.
The programs are a writer and a filter.

**`UserTests`** puts the tests with several processes together, one of them running at
a time (`prog`): **`Producer`**, **`RmTest`**, **`ReadTest`** on the semaphores of **`Sem`**,
and **`DfsTest`**, **`WaitTest`**, **`ForkFork`**, which only fork, exit and wait. A step is
one system call with the assertions on its result, or one line printed. Semaphores,
files and the process table are external: `sem_p` and `sem_v` do what the comments in
`kernel/src/sem.c` ask for, a file without a name lives while it is open, a child
keeps its slot until it is waited for. Every fork may fail, and what the program then
does (abort, go on, count it all the same) is modelled. `DfsTest` names a process by
the moves that led to it; each has its own copy of the map, as after `fork`.

**`UserPrograms`** puts the sequential code of user space together in the same way. Its
parts:

- **`Strings`** holds the functions of `lib/src/string` as operators on a memory, written
  so that the direction of a copy and the stop of a loop are the code's; **`StringCalls`**
  calls each on every small memory, with arguments that keep to the contract.
- **`Numbers`**: `strtol`, `strtoul`, `atoi`, `itoa`, `utoa`, with a long of `WIDTH` bits and
  arithmetic that wraps there.
- **`Printf`**: `vsprintf` as a machine over the format; a directive is a record that
  `Spelled` writes out as characters, which the code's scanner then reads back.
- **`Filters`**: `cat`, `wc` (a step for each byte), `head` (a step for each line). The
  static buffer is never cleared; `out` is what comes out for each file.
- **`Grep`**: the line loop and the matcher; **`Xargs`**: the growing buffer, lines and
  words. In these, as in `Filters`, `read` gives any number of bytes it may
  give, or fails. Buffers keep what was in them; `Xargs` finds old bytes in its heap, which
  go on with the last line or make a line of their own.
- **`Shell1`**: the two early shells, over lines typed one after the other.

The string functions and the filters stand with their properties in `UserText`, which
`UserPrograms` extends: it reaches no recursive operator, so it can be proved about.

The parser (`ShellParse`) runs as one more part. `phase5` has the same `cat`, `wc`,
`head`, `grep`, `xargs` and parser as `phase6`; the map names the latter.

What the properties depend on is a `CONSTANT` of the component, so that a theorem can
speak of all its values: the files and devices (`FileData`, `DevNames`), the inputs and
storage sizes of `Stdin` (`Inputs`, `Sizes`), the command trees and their parts
(`Trees`, `Files`), the numbers of processes, slots and rounds and the maze (`Cells`, `Start`,
`Dest`) of `UserTests`. `MCBlockCache`, `MCSerial`, `MCEasyFS`, `MCLoader`, `MCStdin`,
`MCShellRun` and `MCUserTests` only give such constants their values for TLC. Walks along pointers (`After` in `Malloc`, the walk
of `RingsComplete` in `KList`) are recursive functions and not recursive operators, so
that they can be proved about.

## 3. Runs: what is model-checked, with which bounds

| run | bounds | properties |
|---|---|---|
| `klist` | 3 cells, 2 lists, 2 payloads, 6 additions after the pool is made | `TypeOK`; `RingsOK`, the inductive invariant; `RingsComplete`: following the pointers meets every cell of the ring and only those; `ImplementsKQueue` |
| `bcache` | 2 slots, 3 blocks (0 and 2 share a slot), 2 sectors of 2 words, ranges within a sector, across two, a whole block, one too long; a `uint32_t` of 8 values | `TypeOK`; `Coherent`; `DiskWrites`: a step changes only words of the write in progress; `ImplementsBlockStore` |
| `serial` | 3 slots, 5 keys out of 2 letters, newline, backspace, a special key; reads of 0, 1, 3 | `ScreenIsInput`: echo, buffer and counters agree; `ReadsWhatWasTyped`; `ReadReturns` |
| `serial_escape` | 2 keys | `SpecialKeysIgnored`, **violated** (see below) |
| `malloc` | 9 units of heap, `NALLOC` 4, requests up to 5 units | `ListOK`; `Partition`: every unit from `morecore` is in exactly one place; `NullMeansNoFit`; `CallsReturn` |
| `easyfs` | sectors of 2 bytes, 3 inodes, files of 0 to 5 bytes, reads of up to 4 bytes from any offset, 2 devices | `Packed`: inodes point at the bytes; `ReadsFile`; `LookupFinds` |
| `loader` | sectors of 3 words, complete and non-ELF files, files cut off in the header and in the table, 2 possible stack values | `OnlyElfFiles`; `SeesItsSegments` |
| `stdin` | buffer of 2, every input of up to 4 characters, sizes 1, 2, 3 | `ChunksDoNotMatter`: each loop returns and leaves what the stream alone determines; `CallsEnd` |
| `shell_run` | 11 command trees, 2 lines, 5 process slots, 3 pipes, descriptors 0 to 5 | `Plumbing`; `Foreground`; `PromptReturns` |
| `user_tests` | buffer of 2 with 3 producers and 2 consumers; the 4 readers of `rmtest` with halves of one block; the 4 children of `readtest`; the maze of `dfstest`; 7 slots and 3 rounds of `waittest`; `forkfork` with 2 children, 3 turns and 3 to 5 slots | `Producer_Buffer`: bounds and mutual exclusion; `Producer_NobodyStarves`; `Rm_OldFileLives`; `Read_NobodyAborts`; `Dfs_ShowsEveryWay`: the maps printed are exactly the ways, and the first process returns last; `Forks_Accounted`; `TestsEnd` |
| `rmtest_race` | 4 readers | `NobodyAborts`, **violated** (see below) |
| `user_programs` | parser: every line of up to 6 characters over 9, `MAXARGS` 3; memories of 5 bytes; numbers of 5 bits, strings of up to 4 characters, 6 bases; every conversion with up to two flags, 5 widths, 4 precisions; texts of up to 5 (`cat`, `wc`, `head`), 7 (`xargs`) and 10 (`grep`) characters over buffers of 3, 2 and 5; patterns of up to 3 | `Parse_Grammar`: exactly the grammar is accepted, and words end where they were typed to end; `Strings_KeepPromises`; `Numbers_RoundTrip`; `Printf_Fields`; `Filters_Cuts`; `Grep_Matches`; `Xargs_Lines`; `Shell1_Words` |

A module's `TypeOK` is a conjunct of its first invariant where it is not listed.

Why the bounds are enough for the cases to happen. `klist`: the pool runs empty, a
ring of three has a middle, and cells pass between both lists and the pool in every
order. `bcache`: one eviction partner, one border between sectors, a crash at every
point. `serial`: a line wraps, fills the ring and overruns it, which excuses the
overwritten characters in the properties and nothing else. `malloc`: the heap grows
twice, with or without a foreign region in between, and then `brk` refuses; blocks
are joined below, above and on both sides. `easyfs`: files that are empty, end on a
sector border or in the middle of one, reads that start inside a sector and cross
two borders, a full inode table. `stdin`: every loop meets the end of the buffer, of
the input and of its storage. The parser: a pipe or list in parentheses with
something after it, two redirections, `MAXARGS` reached; deeper nesting runs through
the same functions. `shell_run`: background processes of the first line meet those
of the second; forks fail at each place where there is one. `user_tests`: both sides of
the buffer wait several at a time; each fork of `forkfork` fails in some order of the
processes; `waittest` fills the table and finds it empty again. `user_programs`: both
limits of the width and the numbers next to them are read and written; lines run over
cuts, end on them, fill the buffer and do not fit it; `xargs` doubles its buffer twice
and has a word too many.

Deadlock is checked in `serial`. In the others the system really may stop: a failed
assertion or panic halts the kernel or the program, the host tool ends, the typed lines
are used up.

**The finding of `serial_escape`.** The comment at `kernel/src/serial.c:67` says of
an escape byte "special key (e.g. arrow key), ignore it". The loop below it throws
away what the UART holds *at that moment*. When the rest of the sequence arrives a
moment later, its bytes are echoed and become input.

**The finding of `rmtest_race`.** Each reader of `user/src/phase6/rmtest.c` opens the
file and asserts (line 27) that it is there. The parent unlinks it after *one*
`sem_v(sem1)`, the first reader's; a reader that was not scheduled until then finds
no file, or the new one. Its `abort()` spins, and the parent waits for ever.
`Rm_OldFileLives` says that this is the only way for the test to fail.

What the properties leave to the code, since nothing in the repository says otherwise:

- `load_elf` ignores what `iread` returns. `SeesItsSegments` says what it then looks at: the
  header as far as the file has one, the program headers of the table, and behind the end
  of the file the one before once more. Only the first has none before it; that, the
  missing part of the header, and the verdict on a file without a first word
  (`OnlyElfFiles`) are whatever the stack held.
- `ChunksDoNotMatter` and `CallsEnd` hold until `read` fails: after -1, `head` never equals
  `tail`.
- Nobody waits for the left side of a pipe whose second fork failed, so `Foreground` does
  not ask for its end before the prompt; `PromptReturns` asks that it ends.
- `LookupFinds` leaves out the empty name, which finds an unused inode because `init_fs`
  marks every slot valid.
- `Filters_Cuts` speaks of `head` only while no read is shorter than an earlier one: `head`
  looks for a terminator that `read` does not write, and takes old bytes for input.
- `grep` stops at the first line that does not fit its buffer as if the file had ended;
  `Grep_Matches` is about the lines in front of it.
- `xargs` takes a short read for the end: `Xargs_Lines` speaks of what was read by then.
  Old bytes of the heap may lie behind it in a buffer from `malloc`. They count as input;
  the lines that were read whole must be run as they are.
- `sh1` does not mark the end of `argv`. `Shell1_Words` says which pointer every place of
  `argv` then holds: behind the words of the line, the place of the word in the last line
  that had one there, and before there was one what the stack held.

## 4. Fairness

- `Serial`: `WF_vars(Kernel)`. `serial_read` polls with interrupts off on the only
  processor; nothing but it runs until it returns. The user and the line have no
  fairness: nobody has to type, and a byte may take for ever.
- `Malloc`: `WF_vars(Step)`, `Stdin`: `WF_vars(Step)`. A call that has begun runs on:
  it is sequential code. New calls, and in `Stdin` the failing `read`, are not in
  `Step`.
- `ShellRun`: `WF` for each process and for `wait` in `main`. A process that can go on
  is scheduled again, which is what a round-robin scheduler gives (the scheduler is
  `TODO()` at this commit; this is what user programs assume of it). Typing is not
  fair.

- `UserTests`: `WF` for each actor (the first process and each of the others). The timer
  interrupt lets every process that can run go on in its turn, as above. A fork that
  fails and one that succeeds are alternatives of one action: neither is forced. In
  `dfstest` the whole search is one actor, which assumes less: some process goes on.

The other modules have safety properties only.

## 5. Theorems

Proved by TLAPS for every value of the constants that satisfies the named assumptions.
The assumptions say that sizes are (positive) naturals, that markers such as `NULL`
differ from what they mark, and that inputs are made of characters; each is evaluated by
TLC on a run. Where they say more it is noted below. Eight modules hold proofs:

| module | theorems |
|---|---|
| `KListProofs` | `RingsAlwaysOK`, `FieldsAlwaysTyped`, `WalksAlwaysComplete`, `ListImplementsKQueue` |
| `BlockCacheProofs` | `CacheAlwaysCoherent`, `CacheAlwaysTyped`, `OnlyTargetWordsChange`, `CacheImplementsBlockStore` |
| `SerialProofs` | `ScreenAlwaysInput`, `ReadersGetWhatWasTyped` |
| `MallocProofs` | `ListAlwaysOK`, `HeapAlwaysTiled`, `MallocGivesUpRightly` |
| `ImageProofs` | `ImageAlwaysPacked`, `ReadsAlwaysRight`, `LookupAlwaysFinds` (`GenUser`, `EasyFS`); `OnlyElfFilesGoOn`, `SegmentsAlwaysSeen` (`Loader`) |
| `UserLibraryProofs` | `ChunksNeverMatter` (`Stdin`), `StringsKeepPromises`, `CutsNeverMatter` (`UserText`) |
| `ShellRunProofs` | `PlumbingAlwaysRight`, `ForegroundAlwaysEnds` |
| `UserTestsProofs` | `BufferAlwaysRight` (producer), `OldFileAlwaysLives` (rmtest), `ForksAlwaysAccounted` (waittest, forkfork), `NobodyEverAborts` (readtest), `EveryWayShown` (dfstest) |

**`KListProofs`.** Assumptions: `PoolAssumption` (`LIST_NUM` is a positive natural),
`CellAssumption` (pool cells, sentinels and `NULL` differ), `BoundAssumption`.

- `RingsAlwaysOK`: `Spec => [](TypeOK /\ RingsOK)`; `FieldsAlwaysTyped` is its first half.
- `WalksAlwaysComplete`: `Spec => []RingsComplete`, the walk along `next`.
- `ListImplementsKQueue`: `Spec => ImplementsKQueue`, the FIFO queues.

That a walk along `next` meets all cells of a ring is not local, and what can be said
locally (`next` and `prev` are inverse) does not exclude two rings where there should
be one. The history stamps make it local: going along `next` cells get older
(`RingOrder`), and between a cell and the next none of the same owner is missing
(`RingGapless`). With `RingLinks`, that is the inductive invariant `RingInv`, stated of an
arbitrary set of linked cells so that the lemmas about one unlink and one insertion
can be applied in the middle of a call, where the cell that moves belongs to no ring.
`list_enqueue` is an unlink from the pool's ring and an insertion into the list's,
`list_dequeue` and `list_remove` the other way round. The walk follows from it: the
stamps decrease, so the walk cannot come back to a cell before it has met the
sentinel; more cells than the pool has do not exist; and the youngest cell of the ring
that it missed would be the next of one that it met. For the refinement the proof
shows that the oldest cell is the one before the sentinel, and that the queues, sorted
by stamp, change as `KQueue` says.

**`BlockCacheProofs`.** Assumptions: `CacheAssumption`, `SizeAssumption` (at least one
slot, sector and word), `DataAssumption`, `CallAssumption`, and `PromiseAssumption`: `off + size`
does not wrap. It is needed (`NoWrap`): a sum that wraps passes the test of the code.

- `CacheAlwaysCoherent`: `Spec => [](TypeOK /\ Coherent)`; `CacheAlwaysTyped` is its first half.
- `OnlyTargetWordsChange`: `Spec => DiskWrites`.
- `CacheImplementsBlockStore`: `Spec => ImplementsBlockStore`.

"A valid slot equals its block" is false in the middle of a call and does not say
why `write_disk` is harmless. `Coherent` therefore says, for each stage of a call,
what the slot in use holds: while it is filled, the sectors read so far; while it is
written through, the new contents for the sectors written and, for the others, the
disk's words overlaid with the range of the call. The second theorem follows from
that last conjunct, and so does the refinement: a `write_disk` of the cached sector
is the abstract write of the range.

**`SerialProofs`.** Assumption: `SerialAssumption` (the keys, besides the sizes).
`ScreenAlwaysInput` is `Spec => []ScreenIsInput`, `ReadersGetWhatWasTyped` the action property
`Spec => ReadsWhatWasTyped`. `ScreenIsInput` is not inductive: `IInv` adds that `high`, the
highest `tail` so far, is at least `tail` (else `push_back` could overwrite a slot that
still counts), that a reader under way still wants a character, and how many were
handed out. Two counters less than a buffer apart have different slots; all else
is cases of the handler.

**`MallocProofs`.** Assumption: `MallocAssumption` (there is a heap). `ListAlwaysOK`,
`HeapAlwaysTiled` and `MallocGivesUpRightly` are `ListOK`, `Partition` and the action property
`NullMeansNoFit`. The invariant `MInv` describes the free list without walking it: the
headers with a pointer form a `Chain` in which each points to the next one above and the
last to `Base`, and these blocks, those in use and the one being freed tile `core`
(`Tiles`). In the middle of `malloc` it says of every block between the start of the
search and `p` that it is too small (`ScanOK`), which is what makes giving up right, and
in the middle of `free` that `p` is in the ring. Lemmas say what exact fit, split, link and
join do to a chain and to a tiling. That the recursive walk of `ListOK` meets the whole
chain follows by a least counterexample on the addresses.

**`ImageProofs`.** Assumptions: `GenUserAssumption`, `EasyFSAssumption` (devices have names of
their own and fit their table), `LoaderAssumption` (the magic number and the types are
words, `NULL` is no program header). `FSInv` says where each byte of each file is in the image (`FileAt`: sector and
remainder), that `init_fs` copied the inodes and `init_dev` the devices, and how far the
`iread` under way is: what it has copied are the file's bytes, and the cached sector is
the one that `curr` names. `add_file` needs that rounding up by arithmetic and rounding up
by writing sectors agree, for every length; `iread` that the sector changes exactly when
the quotient does. `LInv` puts `load_elf` on top: the local `elf` holds the words that the
file has, and of the `k` headers that the loop has seen each is the one of its place in
the table or, behind the end of the file, the one before (`Follows`): a `ph` that `iread` does
not fill still holds the type seen last.

**`UserLibraryProofs`.** Assumptions: `StdinAssumption` (a literal character is neither white
space nor the terminator), `StringsAssumption` (a memory has a byte, characters are naturals),
`FiltersAssumption` (`buf` has a byte, `head` shows a line, the argument lists are sequences of files, and
a file is there or not and has a sequence of naturals as its text).
`ChunksNeverMatter` is `Spec => []ChunksDoNotMatter`, for every input,
buffer size and cut. The property speaks of finished loops; the invariant `SInv` needs to
speak of the running one: for some `e` it has taken the first `e` characters of what
was there when it began, all of them characters that it goes on at, and stored those
that fit (`Progress`). That `e` is not a variable of the code: it is chosen anew in each
step. When a loop ends, the length of the run that it took is the one that the
property computes from the stream.

`StringsKeepPromises` is `StringsSpec => []Strings_KeepPromises`, for memories of any size and
any characters. `StringsSpec` is the strings part of `SpecAll`, with the same initial states
and steps. The functions are stated over addresses and the promises over strings as
sequences, so most of the work is between the two. A loop that looks for something is the
least place where it may stop. A memory `Holds` a string at a pointer; lemmas say what a
search, a comparison (the first place where two strings differ) and a search for
a substring mean for strings that are held. What a copy leaves is `Moved`: the
bytes `lo` to `hi - 1` come from the source, the others are as before. Forwards that
is so when the target lies before the source or apart from it, backwards when it lies behind;
`memmove` chooses rightly for every overlap. The functions that write strings follow from
`Moved` by what is then held (`Copied`, `CutTo`). The invariant `StringsInv` says that up to the
call the memory is as it was and ends with a 0, and after it that the promise is
kept.

`CutsNeverMatter` is `FiltersSpec => []Filters_Cuts`, for lists of any number of files of any
length, any size of `buf` and any number of lines of `head`; `FiltersSpec` is again a part of
`SpecAll`. `Filters_Cuts` only compares what is out with what is due. `FilterInv` says, for each
place a program can be at, how it got there (`Here`): `cat` has written the text up to
the offset (`AtRead`), `wc` has counted the bytes up to its place in the buffer (`AtBytes`),
`head` has written the text up to its place in the buffer and knows how many newlines
that is (`AtLines`), and the buffer holds the bytes in front of the offset (`InBuf`). What
`wc` knows behind `k` bytes is a number of places not above `k` (`Count`), which grows by at most
one with each byte, so no induction over the text is needed. What `head` should show
ends at the only newline with `LINES` newlines up to it, or at the end (`FirstLinesAt`); before
that there is always more to show (`FirstLinesUnder`), so a failed write leaves a beginning.
For `head` the invariant adds that the buffer is zero from the longest read on (`ZerosFrom`): as
long as no read is shorter than an earlier one, `strchr` and `strlen` stop at the end of this
read and not in an old one. That is where the condition of the property is used.

**`ShellRunProofs`.** Assumption: `ShellRunAssumption`: `Trees` holds command trees with their
parts, and the three standard descriptors exist. The trees may be of any size, and
there may be any number of them; the numbers of processes, pipes, descriptors and lines
are arbitrary. `PlumbingAlwaysRight` is `Spec => []Plumbing`, `ForegroundAlwaysEnds` is
`Spec => []Foreground`. The invariant `ShInv` has six parts. `Procs`: at each place of `runcmd`
a process has its first three descriptors as its place in the tree says, a pipe in 3
and 4 where it is about to hand one on, and nothing else (this is why `close` and then
`dup` hits the right descriptor: all below are taken). `Parents`: a parent is alive.
`Acyclic`: every nonempty set of processes has one whose parent is outside. `Families`: a
process has exactly the children that its place says, none, one or two, so that each
`wait` waits for its own. `ShellOK`: only the shell is in `main`. `Fore`: the parent of a
foreground process is the shell or in the foreground. `Foreground` is not inductive since
it says nothing of grandchildren: from `ShInv` it follows by applying `Acyclic` to the
foreground processes that are alive. Four lemmas say what a local step, a fork, a
reaped child and an exit do to `ShInv`, and each action is one of these.

**`UserTestsProofs`.** Assumptions: `ProducerAssumption`, `TestsAssumption` (`waittest` forks
more often than there are slots, which is what it tests). Producer: `Stocks` relates
the value of a semaphore, the processes between their `P` and their line, and the
number of items; `OneWithin` the value of `mutex` and who is inside; `WaitPlaces` says which
semaphore a process may be queued at. Rmtest: while the file has its name, no reader is
past its `P(sem2)` (`RNamed`). Waittest: used slots are running and dead children. Forkfork:
the history flag is the `exit1` of somebody (`FTrace`), and what a child did is told by
its place (`FChild`). The modules that are not running do not change, so each invariant is
proved of its own program.

Readtest has four children and no parameter; the proof says why no order of them makes
an assertion fail. The value and the wait list of each semaphore tell whether the child
before has given the turn on and whether the one behind has asked for it (`Turn`), so
at most one child is between its `P` and its `V`; the shared offset is where the answers
read so far end (`OffsetIs`), and the last child's `lseek`s move it to where the next
answer begins.

Dfstest is proved for every finite maze (`TestsAssumption`: `Cells` is a finite set of
places, `Start` and `Dest` are two of them). A path is a sequence of moves, and the place
it leads to is counted (`Cell`), so nothing recursive is needed. `MazeTree`: the paths of
the processes form a tree, and a process is past the move of each child it has. `Placed`: a
process stands where its path leads, the path visits no place twice, and the map is the one
with that path drawn in. `Counted`: no more children than forks counted, which is why `wait`
returns only after the last (`LastToLeave`). `MazeMaps`: a way that is *ahead* of some
process (its path leads there, and the next move is still to be tried) has not been printed;
a way that is ahead of none has been, unless a fork failed. A fork hands the ways that begin
with its move to the child, every other step leaves them where they are, `display`
takes its own way from ahead to printed. When the first process has returned there is no other, hence nothing
ahead; and since a map shows the way that was drawn into it (`MapShowsWay`, a least
difference of two paths), the printed maps and the set `Ways` of the property correspond
one to one (`AllShown`).

## 6. What is only model-checked

- Liveness: `ReadReturns`, `CallsReturn`, `CallsEnd`, `PromptReturns`, `Producer_NobodyStarves`,
  `TestsEnd`. It rests on fairness and `ENABLED`, which are outside the prover.
- The properties of `UserPrograms` other than `Strings_KeepPromises` and `Filters_Cuts`: they compare what recursive operators or folds compute
  with a reference, for every input; that is induction over data, which the installed
  provers cannot do (the library's induction theorems have an operator as a parameter).
  Nor is there an SMT backend in a module that reaches a recursive operator.

Where a theorem above speaks of a recursive function (the walks of `KList` and `Malloc`,
the end of a run in `Stdin`, the copies of `Strings`), induction is replaced by a least counterexample: a nonempty set of
naturals has a least element, which the library states without an operator parameter.

## 7. What is not modelled

- **The file system without `EASY_FS`, `mkfs`**: not in the build, and the functions that
  change a file or a directory are `TODO()`.
- **Processes, scheduler, virtual memory, semaphores, open files**: the functions that
  would make these components what they are (`proc_alloc`, `schedule`, `vm_map`,
  `kalloc`, `sem_p`, `sem_v`, `falloc`, `fread`, ...) are `TODO()`. The modules of user
  programs model them as external, from how the programs use them.
- **System calls, traps, timer, boot**: dispatch on a constant and straight-line code
  over hardware tables and ports.
- **Other user tests**: `philosopher.c` is `TODO()`; the rest fork one child or none, or
  are copies in `phase3` to `phase5` of programs that are modelled.
- **The grading scripts**: read for what the programs are expected to do.
- Within modelled parts: the 32-bit wrap of the byte count in `malloc`; the caller's
  buffer of `%s`; the line buffer of `getcmd` and the `cd` command; the 512-byte buffers
  of `printf`; `rand`; the constructors of the shell's parser (`execcmd` and the others),
  which use what `malloc` returns without a test, get their memory; the counters of
  `Serial` are naturals where `serial.c` has `int`, which differ from the 2^31st character on.

## 8. Plan

Every safety property of a module with parameters is proved, except those of
`UserPrograms` other than the string functions' and the filters'. What could be next:

1. `grep`'s carried line: an invariant like the one of the filters, once the matcher is
   written without recursive operators. The two early shells in the same way.
2. An abstract specification of the allocator (a set of disjoint extents) and of the shell
   (commands as a tree of abstract processes), with `Malloc` and `ShellRun` as
   refinements.
3. Of the code, the written parts of the real file system (`skipelem`, the reference
   counts, `diread`, `diwrite`), once `iget`, `iwalk` and `balloc` exist.
