# A TLA+ verification project for ibcs-us

ibcs-us runs old i386 Unix programs (SVR3, SVR4, SCO, Xenix, Wyse, ISC,
Solaris, UnixWare) as ordinary Linux processes. It is the linux-abi kernel
module turned into a user-space program: `ibcs/` holds what the kernel would
have provided (an allocator, a file table, the exec machinery, semaphores,
signals), `binfmt-*/` the loaders, `per-*/` the system calls of each
personality. The emulator is loaded into the same address space as the
program it runs, has no C library, and its calls are reached through a fault.

Everything here is written from the source. Each definition of a module that
models code is listed with its lines in `PROJECT.json` under `map`.

## 1. Inventory

| Part | State | Operations | Interacts with | What is hard |
|---|---|---|---|---|
| Inode map, `ibcs/short-inode.c` | table of entries, two families of rings, `short_inode_oldest` | `short_inode_map` | every stat and directory read of a 16 bit personality | lazily linked rings, reallocation, an unbounded walk |
| Allocator, `ibcs/ibcs-lib.c` | one ring of headers with a busy bit, a cursor, the break | `ibcs_malloc`, `ibcs_free` | file table, loaders, file map | merging while searching, growth, refusal by the kernel |
| File table and devices, `ibcs/linux26-compat.c`, `per-svr4/socksys.c` | `fdt->fd[]`, `max_fds`, reference counts; the kernel's own table | `fget`, `fput`, open, close, dup, dup2, F_DUPFD, read/write, the socksys device | all file calls | two tables that must stay in step |
| Trap and signals, `ibcs/sysent.c`, `per-svr4/signal.c` | kernel actions and mask, `_linux26_sigtab`, patched call sites, semaphores | the SIGSEGV trap, signal, sigset, sighold, sigrelse, sigignore, sigpause, sigaction, sigprocmask, sigsuspend | everything: a system call is a SIGSEGV | asynchronous signals, nested handlers, longjmp, one signal with two owners |
| Program break, `linux26-compat.c`, `per-svr4/misc.c`, `sysent.c` | `mm->brk`, `start_brk`, `ibcs_brk_mmap_*`; the kernel's mappings | `init_brk`, `do_brk`, `linux26_brk`, `abi_brk` | loaders, the program's mmap | kernel refusals, page boundaries, bounds that drift apart |
| Start-up and loaders, `ibcs/main.c`, `binfmt-*` | PATH position, open descriptors, buffers, image, personality, credentials | option parsing, PATH search, `load_binfmt`, COFF, ELF and x.out loaders, `set_credentials` | break, inode map, file map | many error exits, the point of no return, privileges |
| File name map, `ibcs/filemap.c` | the rules; one buffer per call | `filemap_parse`, `normalise_path`, `filemap_map` | all calls that take a name | in-place editing, buffer limits, order of rules |
| Personality tables and dispatch, `per-*/sysent.c`, `ibcs/sysent.c`, `ibcs/map.c` | registers and stack pointer of the program while its call is looked up | the `lcall7` handlers, their sub-tables, `lcall7_syscall`, `lcall7_dispatch` | trap, every handler | five calling conventions, calls nested in calls, errors renumbered by table |
| Signal numbers, `per-svr4/signal.c`, `ibcs/map.c` | none of its own; Linux's mask, pending set and handlers | `sigprocmask`, `sigaction`, `kill`, `sigpending`, `wait`, `waitid` | trap | two maps that are not inverse, and used the wrong way round |
| System V IPC, `per-svr4/ipc.c` | none of its own; Linux's objects, the program's structures | `semsys`, `shmsys`, `msgsys` in both formats | kernel | fields too narrow for their values, an answer that is an address or an error |
| Terminals, `per-svr4/termios.c`, `per-sco/termios.c`, `per-uw7/ioctl.c`, `per-svr4/ioctl.c` | none of its own; Linux's `struct termios` | nine structures, each read and written | file table | characters that share slots, bits that move, uninitialised fields |
| Sockets, `per-svr4/socket.c`, `socksys.c`, `per-solaris/socket.c`, `per-wyse/socket.c` | none of its own; the program's argument block | socket, options, messages, ioctls | file table | renumbering in place, equal bits with other meanings |
| Directories, `per-svr4/misc.c`, `per-svr4/open.c`, `linux26-compat.c`, `per-sco/misc.c`, `per-solaris/lfs.c` | position of the open directory | `abi_read_dir`, three `getdents`, `vfs_readdir` | inode map | the entry that no longer fits |
| Files and status, `per-svr4/fcntl.c`, `open.c`, `stat.c`, `ulimit.c`, `hrtsys.c`, `misc.c`, `per-*/stat.c` | none of its own; structures of the program that are translated in place | fcntl, locking, ulimit, setrlimit, hrtalarm, utime, mknod, stat | kernel, inode map | maps that are not inverse, waiting calls, numbers at a limit |
| Tracing, `ibcs/trace.c` | a log descriptor | printing | all | little |
| What is left of `per-sco`, `per-wyse`, `per-solaris`, `per-uw7`, `per-cxenix` | none | one kernel call each, arguments renumbered | `per-svr4` | little |
| XTI/TLI, `per-svr4/timod.c`, `stream.c`, `xti.c` | a per-socket record | getmsg, putmsg, T_* primitives | sockets | not reachable in this build, see section 8 |
| 286 emulator, `x286/` | LDT, segments | - | - | not built |

What makes each part correct:

- *Inode map*: an inode keeps its short number, two inodes never share one,
  every call returns, and entries are recycled least recently used first.
- *Allocator*: owners' blocks are disjoint, nothing leaks, the list stays a
  list, the break grows only when no free block will do, a search ends, also
  when a signal handler frees a block in the middle of one.
- *File table*: a `struct file` never outlives its descriptor, references are
  returned, a descriptor is routed to the device it stands for and no other.
- *Trap*: a system call never kills the process, what is reported about
  SIGSEGV is what happens, a real fault has its effect, a semaphore has one
  holder.
- *Break*: memory below a granted break exists; bss and data stay.
- *Start-up*: each loader leaves by the label that gives back what it took,
  nothing is retried after the
  point of no return, only a loaded program is started, without privileges,
  and the PATH search ends.
- *File names*: one spelling per file, within the buffer, rewritten by the
  first rule that applies.
- *Dispatch*: a handler reads the program's arguments and no other words,
  however it was reached; the program continues with its own stack; carry is
  set exactly when the call failed, with the number the personality gives
  that error.
- *Signal numbers*: a signal that is blocked, pending or sent is told under
  the number the program knows it by.
- *IPC*: refused is told refused, done is told done, and what was set is what
  the structure said.
- *Terminals*: settings that are saved and set again are the same.
- *Sockets*: an option that was set reads back; the same call asks for the
  same thing; a receive waits unless told not to.
- *Directories*: every entry is told once, with the inode stat reports.
- *Files*: changing one flag changes no other; a lock is the one that was
  meant; a limit, a time, an alarm is told as it was set.

## 2. Modules

| Module | Models | Used by |
|---|---|---|
| `ShortInode` | `short-inode.c` | `MCShortInode`, `ShortInodeProofs` |
| `ShortInodeHash` | `short_inode_hashval` at any word width | `MCShortInode` |
| `ShortInodeLru` | abstract: an LRU map without hash rings | `ShortInode` (refinement mapping) |
| `IbcsMalloc` | `ibcs_malloc`, `ibcs_free` | `MCMemory`, `MemoryProofs` |
| `Brk` | program break | `MCMemory`, `MemoryProofs` |
| `Lcall` | SIGSEGV trap, SVR4 signal calls, semaphores | `MCLcall`, `LcallProofs` |
| `Startup` | `main`, `load_binfmt`, three loaders | `MCStartup`, `StartupProofs` |
| `Filemap` | `filemap.c` | `MCFilemap`, `FilemapProofs` |
| `FdTable` | file table, character devices, socksys | `MCServices`, `FilesProofs` |
| `Personality` | tables of calls, errors and signals, `map.c` | `Dispatch`, `SigMask` |
| `Dispatch` | from the trapped call to its handler and back | `MCServices`, `CallsProofs` |
| `SigMask` | signals by number | `MCServices`, `CallsProofs` |
| `Ipc` | System V IPC | `MCServices`, `ServicesProofs` |
| `Terminal` | terminal settings and the switches of ioctl | `MCServices`, `CallsProofs` |
| `Sockets` | socket options, messages and ioctls | `MCServices`, `ServicesProofs` |
| `Directory` | reading directories | `MCServices`, `FilesProofs` |
| `Files` | flags, locks, limits, times, alarms, status | `MCServices`, `FilesProofs` |

The `...Proofs` modules hold theorems and proofs only (section 5).

**ShortInode.** `table` is `short_inode_table`, with the zero-filled start
and the lazy linking of the code; `oldest` is `short_inode_oldest`. One call is
one step, as the code holds `short_inode_sem`, except that the walk along
a hash ring takes a step per iteration (`walk`), since its loop is what may
not end. `given` is a history variable: the last answer for each inode. The
hash function is a constant of the module; `ShortInodeHash` is the program's.

**IbcsMalloc.** Memory is counted in headers. `hdr[a]` is the word at `a`, a
link and a busy bit, and `first`, `last`, `cursor` the three static pointers.
An iteration of the search is the look at a block, merging included, and the
test whether it was the last (`ScanTest`); `Grow` moves the break.
`ibcs_malloc` takes a semaphore and `ibcs_free` none, so with `Handlers` a free
may come between any two of these steps; `call.freed` remembers that one did.
`live` remembers what owners were promised.

**Brk.** `mm` has the emulator's bounds, `vm` what the kernel really maps.
`mremap` is external and modelled from its documented behaviour without
`MREMAP_MAYMOVE`.

**FdTable.** `tab.kern` is the kernel's view of each descriptor, `tab.file`
the emulator's; each `linux26_` call updates both the way the code does.
`wild` is raised where the code indexes one beyond its table. `socketpair` on a
socksys descriptor never succeeds: it is refused, or it closes both
descriptors and then faults in `SOCKET_I`.

**Lcall.** `kact` and `mask` are the kernel's, `sigtab` is
`_linux26_sigtab[SIGSEGV]`, `patched` the call sites already rewritten.
`frames` is the stack of interrupted places. The trap runs with all signals
blocked and is one step; every other place can be interrupted. `prog` is the
program: which calls it and its handlers make, which signals it blocks, which
of them its parent may have left blocked, and the actions of SIGSEGV it may
inherit.

**Startup.** A file is a record of what the loaders' tests can tell about it;
`ld` holds what they have taken, mapped and decided, one action per phase.
The labels a loader leaves by (`out_free_buf`, `out_free_file`, `elf_out`, ...)
are what each frees and closes; `Leave` by a label that frees a buffer nobody
allocated is a fault, as `kfree(NULL)` is. Any kernel call may fail. The
descriptor of `--log=FILE` is open from the command line on. `search[0]` is the file, if any, that is found
under the name `load_binary` builds once it has lost its place in PATH.

**Filemap.** Names are sequences of characters here, because the code edits
one buffer in place and everything that can go wrong is about characters.
`dst` is the buffer up to `d`, `s` the rest of the source. A line of the map
file is already split into its two paths. What a name means is defined apart
from that code: `Reading` goes through its characters once and keeps the
components so far, `Meaning` is what it ends with, `Spell` the one normal
spelling of a list of components.

**Personality.** A table is a set of triples of number, handler and calling
convention; the tables of the personalities are given by what they change in
ISC's, as the sources are copies of each other. The maps of errors and
signals are functions, and `map_value`'s default and pass-through are part of
the look-up.

**Dispatch.** `regs.sp` counts words from the program's own stack pointer, so
that `regs.sp + off` is where a handler believes the first argument to be.
`lcall7_syscall` is entered again for every nested call and `pending` counts
those that have yet to put the stack pointer back.

**SigMask.** `kmask`, `kpend` and `khand` are Linux's, in Linux's numbers;
`asked` and `sent` are what the program did, in its own. `told` is the last
answer next to what it should have been.

**Ipc.** One object of one kind. The halfwords of a `struct ibcs2_semid_ds`
are modelled because SETALL and GETALL pass an array of values through the
conversion of that structure. Values from `Limit` on do not fit in 16 bits.

**Terminal.** A flag word is the set of its bits, a control character the slot
it came from. The converters are functions from structure to structure, in
both directions; where the code converts what it never initialised, the value
is one of `Junk`. The save, going raw and the restore are separate calls, with
further saves in any structure and TIOCEXCL at any time between them.
TIOCHPCL, which changes what is to be kept, comes before the first save only.

**Sockets.** `block` is the argument block in the program's memory, which
socksys renumbers; `Again` repeats a call with the block as it is by then.
`request` is what Linux was asked. `queue` holds the messages at the socket,
`due` those that would be there by the flags the program gave. The message
calls are send, sendto, recv and recvfrom (section 8).

**Directory.** `pos` is the kernel's position. The loops of `abi_read_dir` and
`vfs_readdir` take a step for each entry, since each is a system call that
moves it. `skipped` remembers entries too long for the program's buffer.

**Files.** A behaviour is about one task: flags, SVR4's or Xenix's locks, limits,
attributes of files (times, device numbers, sizes) or alarms. `flock` and `hcmd` are structures in the program's
memory that the calls rewrite, and F_SETLKW is two steps, since the process
waits between them.

**MCServices, MCMemory.** The components put together there share no state,
so a behaviour works with one of them (`part`, `heap`) and the rest keeps a
fixed state: the number of states is a sum and not a product.

## 3. Runs

| Run | Shows | Bounds, and why they are enough |
|---|---|---|
| `short_inode_fits` | type, ring and hash invariants, injective and stable answers, every walk returns, refinement of `ShortInodeLru` | the program's hash for a 3 bit word gives 5 slots; 5 inodes that are mapped, chosen to share home slots and to displace each other, and one that is not; every slot is used |
| `memory` | the block list ascends (`ChainAscends`), its busy blocks are exactly those handed out (`OwnersExact`), growth only when full (a search into which a free came excepted); bss kept, heap mapped | allocator: 10 headers of memory (addresses 0 to `BrkLimit` = 9), blocks of 2 to 4 headers with theirs: splits, merges on both sides, growth with and without a free last block, refusal, frees before, during and after a search. Break: pages of two words give breaks at, below and above a boundary; COFF and ELF layouts; no mapping close enough to refuse |
| `malloc_loop` (violation) | the search need not end | the allocator of `memory`, without handlers: it takes none |
| `brk_refused` (violation) | a refused break is granted | other mappings in the way of the heap |
| `lcall` | no call kills, one holder per semaphore, answers about handlers are true, the trap stays, faults end | two programs, see below |
| `startup` | the label of every exit returns exactly the buffers and descriptors taken on the way to it, no retry past the point of no return, a started program is loaded and unprivileged | every kind of file the tests distinguish, alone, or behind a PATH element without it; all registration orders; all credentials |
| `startup_path` (violation) | the PATH search does not end | a program that is in the second directory of PATH |
| `filemap` | normal spelling, buffer limits, first applicable rule | all names of up to 5 characters over `/`, `.` and a letter: `/../a`, `a//..`, `../..`; buffers of 4, 8 and 16; files, directories, overlapping rules |
| `filemap_root` (violation) | a relative name in `/` gets two slashes | the same with the root as working directory |
| `services` | fifteen properties of the components behind the calls, see below | see below |
| `getdents` (violation) | SVR4's getdents loses entries | up to 3 entries, of which 2 fit in a chunk |
| `read_dir_inode` (violation) | read() of a directory tells another inode than stat | inodes below and above 256, clean and used buffers |

`lcall` runs two programs because its promises are conditional. The careful
one never masks SIGSEGV or faults, its handlers only call sigset, and two of
them may be nested: no call kills it. The careless one faults, holds and
releases SIGSEGV, takes the semaphore in its handlers and jumps out of them; it
may be started with SIGSEGV blocked, and with it ignored.
If a program blocks SIGSEGV its next unpatched call does kill it, and a
handler that makes a call which takes the semaphore its victim holds does
hang; section 7 lists both. What either may rely on is checked of both, under
the condition the property names.

`services`, by part:

| Part | Properties | Bounds |
|---|---|---|
| descriptors | `FilesAtRest`, `RoutingKept` | 3 descriptors: two that are duplicated or closed together and the device they came from |
| calls | `StackKept`, `ErrorReported` | six personalities with their whole tables; a sub-table's numbers are those at its ends and of every convention; syscall(2) nested twice; errors that are equal, renumbered, without a number, of restarted calls |
| signals | `SignalsKeepTheirNumber` | the maps of all personalities, whole; the program uses 3 signals, among them SIGEMT, which shares its Linux signal in every personality, and SIGUSR1, which is renumbered; masks of two |
| ipc | `AnswersTruthful`, `SetallReadBack` | `Limit` 4 stands for 2^16, with ids on either side; 10 semaphores, of which the rotation spares 8; addresses on either side of -255 |
| terminals | `TerminalRestored` | every structure; terminals cooked and raw, with and without job control, two speeds; settings saved again at any time |
| options, messages | `OptionReadBack`, `RepeatAsksTheSame`, `ReceivesAsAsked` | three ways in; options that are renumbered, the same, shared and answered here; two set at a time; two messages; every flag that means something else |
| directory | `ListedOnce` | every directory of up to 3 entries with names that fit in one, two and three records; buffers of one record, two and a byte, four |
| files | `SetflKeeps`, `LocksAsMeant`, `SetIsTold` | files opened with each of the flags that are renumbered, three bits to set or clear; two processes on one lock; limits at and around whole blocks of 4 bytes, set with and without privilege; times around the leap day, day 5; minor numbers with one, two and three bits |

The properties name the exceptions that the code makes: `RoutingKept` two
calls, `StackKept` two handlers with the wrong convention, `TerminalRestored`
the characters and flags each structure has no room for, `OptionReadBack` the
options that share one of Linux's, and so on. The exceptions are as narrow as
TLC lets them be, and are a description of the emulator in their own right.

Every property has a mutant in `PROJECT.json`: an operator next to the
definition it replaces, marked `Mutant:` in its comment, that TLC must find
to violate the property.

## 4. Fairness

The emulated program is one thread, and the kernel runs it as long as it can
run. So fairness is always weak and only of steps that are already under way:
the walk of a hash ring (`ShortInode`), the search for a block (`IbcsMalloc`),
the re-execution of a faulting instruction (`Lcall`), the steps of `main`
(`Startup`). No program is assumed to make any call, and no signal to arrive.

## 5. Proofs

A run shows a property on the instance of section 3, a theorem for every value
of the constants that satisfies the ASSUMEs of the component's module. Those
say what the constants are (a page size is positive, a hash function maps into
the table) and are evaluated by TLC on every run. Some theorems need more, and
say so in their statement:

- `Fits`: the program meets no more inodes than the table has slots. Section 7
  says what becomes of others.
- `RoomToGrow`: nothing is mapped where a break may reach; `brk_refused` is
  the other case.
- `NormalCwds`: working directories are spelt the way getcwd gives them, and
  are not the root, which is `filemap_root`.
- `NormalRules`: the left-hand paths of a map file are in normal spelling, with
  or without a final slash. `filemap_parse` takes them as they are and
  `filemap_map` compares text, so that a rule in another spelling matches
  nothing.

`MCFilemap` assumes the last two of its constants, so that TLC evaluates them
on the instance it checks.

Each proof has the same shape: an inductive invariant, checked by TLC first, that
`Init` establishes and every action keeps, one lemma or step per action; the
property follows from it. What the invariants add to the properties is the
explanation of why the code works.

| Module | Theorems | The invariant and why it is needed |
|---|---|---|
| `ShortInodeProofs` | `TypeCorrect`, `LruRing`, `FreeFirst`, `RingInvariant` | `IInv`: types, inverse LRU links, free entries oldest. Unlinking an entry keeps links inverse only if they were; that the entry put at the recent end leaves the free ones in front needs the ring. The links are those an entry *stands for*, so that entries not yet linked are treated alike. For any number of inodes |
| | `HashRing`, `NumbersDiffer`, `NumbersStay` (if `Fits`) | `FInv` adds: the LRU links form one ring; the hash links of used entries form rings, and every closed set of slots with an inode's home slot has its entry, so a walk finds it; answers given are still true. By counting, an unknown inode finds a free entry, so that no entry changes hands |
| | `ImplementsLru` (if `Fits`) | the table is an LRU map (`ShortInodeLru`), step by step. `FInv` gives one ring of all slots; `Ordered` makes a list of it, the order the mapping reads. The unlinking and linking of an entry is then the removal from that list and the append at its end, and a step of a walk is a stutter |
| `MemoryProofs` | `BssStays`, `HeapIsThere` (if `RoomToGrow`) | the emulator's bounds are ordered and on page boundaries, though `min` and `max` drift apart; the pages between them are the kernel's heap, and the reachable ones above are free |
| | `ListInOrder`, `OwnersKept`, `GrowsWhenFull` | `MallocInv`: there is a set of headers, each pointing to the next higher one; the busy ones are the owners'; the blocks a search has passed are too small, unless the block it began with was merged away or a free came in between. The walk of the property is a recursive function; the proof shows it exists and that the set bounds it |
| `LcallProofs` | `TypeCorrect`, `TrapKept`, `LcallsSurvive`, `OldactReported`, `OneHolder` | the kernel's handler for SIGSEGV is the trap and `_linux26_sigtab` has the program's; the saved masks on the stack of frames are those a careful program can have; along that stack at most one frame holds the semaphore. For any set of programs and any depth of handlers |
| `StartupProofs` | `TypeCorrect`, `PhaseInvariant`, `Released`, `LoadedWhenStarted`, `Unprivileged`, `PointOfNoReturn` | `IInv`: for each phase of each loader what it holds, what is committed, what is in memory, which answers are still possible, and the personality: that asked for or guessed, or for an ELF file after another one the guessed one |
| `FilesProofs` | `LocksKept`, `FlagsKept`, `ToldWhatWasSet` | a translated structure has the program's numbers, or Linux's while a call waits; Linux has what was set last, in Linux's form; two locks never conflict |
| | `EntriesListed` | entries told and skipped are exactly those before the kernel's position, in order; a `read()` that stored nothing has no record length left over, which is why answer 0 means the end |
| | `FilesRest`, `RoutesKept` | a struct file is inside the array, of an open descriptor and at rest; each operation changes one descriptor, and a call is a short sequence of such changes |
| `CallsProofs` | `CallInvariant`, `StackIsKept`, `ErrorsReported` | `CallInv`: the stack pointer is off by the number of nested calls in progress; the entry in hand is one of the tables', which the prover evaluates whole. Errors above 122 are excepted in some personalities, whose `err_map` ends there |
| | `NumbersKept` | a signal with a Linux signal of its own is in the kernel's set exactly if it is in the program's |
| | `SettingsComeBack` | `TermInv`: the program holds the structure of the saved settings, and the terminal agrees with them in the characters and flags that writing the structure leaves alone, which differ for each of the nine; saving again keeps both (`NearAgain`); one lemma per structure shows that writing it brings back the others and that going raw keeps the agreement |
| `ServicesProofs` | `AnswersKept`, `ArraysReadBack` | Linux's object and the program's copy have their types; the values of the first eight semaphores are in the slots where the rotated array put them |
| | `OptionsReadBack`, `RepeatsAskTheSame`, `ReceivedAsAsked` | what the program believes of an option is what Linux has where the option goes, and no two options that are not excepted go to the same place; the block holds a call of the option that was meant; the messages at the socket are those that are due by the program's own flags |
| `FilemapProofs` | `BufferKept` | accepted rules are non-empty and end alike; as long as a name is worked on it is not refused and leaves room for its NUL. A rule for a directory looks at the room only if it makes the name longer, so the proof needs the room that was there before |
| | `NormalisedAlways` (if `NormalCwds`) | `NormalInv`: at each turn of the loop the buffer is the components read so far, each followed by a slash, but for the last one of the name (`InLoop`). Taking a component off in place is right because the slash before it is the last one left in the buffer, which needs that no component contains one |
| | `RewrittenAlways` (if also `NormalRules`) | `ParsedInv`: the rules in memory are those of the lines read, in their order (`Copied`), and acceptable; `NormalInv` says that the rules see the normal name. That a path is a prefix of the text exactly when its components begin those of the name is shown by reading both along (`Along`) |

Trying to prove them corrected the models in several places. Arms of CASE
expressions that could hold together, of which TLC takes the first and TLA+
does not say which, were made disjoint (`Ipc`, `Files`, `Sockets`). The
exceptions of `OptionReadBack` lacked the options of Solaris numbered 32 to
36, which are the numbers its others are given, and those of `ErrorReported`
the errors above 122: no value of the bounded runs had met them. The words of
flags of a terminal had to be those of Linux: with a bit set that Linux does
not use, `linux_to_svr4_termios` tells CRTSCTS and `linux_to_bsd_termios`
TOSTOP. UnixWare's structure loses one character less than was thought. The
reference for file names was restated as a recursive function over the
characters, in place of a fold over the parts between slashes, because the code
and a reader then go through the name in the same order.

The properties that are about data of any length (the order of the slots, the
reading of a name) rest on recursive functions over an initial segment of the
naturals. The provers have no induction over data, so these proofs take the
least number at which a claim fails, which exists in every nonempty set of
naturals, and show that it fails earlier. The same argument shows once
(`Recursion`) that the functions the definitions choose exist.

Only model-checked:

- liveness (`WalkReturns`, `FaultEnds`) and the six violations: fairness is
  beyond this prover, and a counterexample is an execution. Every invariant,
  every action property and the refinement are proved;
- `ShortInodeHash`, which uses `Bitwise`; the proofs need only that the hash
  is a slot.

## 6. Plan

Done in this order: inode map and its proofs, allocator, file table, trap and
signals, break, start-up and loaders, file names; then the tables and the
dispatching of calls, signal numbers, System V IPC, terminals, sockets,
directories, files; then the proofs of section 5.

Left to model: a composition of `Startup`, `Brk` and `Filemap`, from the command
line to the first break.

## 7. Where code and comments part

Six of these are runs that TLC violates; the rest was met while translating.
The models contain the code's behaviour in each case, except where section 8
says otherwise.

*Inode map.* Once more inodes have been met than there are slots,
`short_inode_map` may take an entry off a ring and splice another ring in two:
an inode can then own two entries, and a later walk can go round a ring that
does not contain the entry it waits for.

*Allocator.* The search remembers the block it began with; if that block is
merged into its neighbour on the way, the end is never recognised
(`malloc_loop`). The first call does not notice a kernel that refuses memory.
`ibcs_free` takes no semaphore (`ibcs-lib.c:888-893`): called from a handler in
the middle of a search it moves `ibcs_malloc_p`, where that search ends, and may
free a block already passed, so that the break grows although a free block
would do.

*File table.* `fcntl(F_DUPFD)` duplicates behind the table's back. `dup2` of
a plain file over an emulated device keeps the device's operations
(`linux26-compat.c:1672`). The comparisons with `max_fds` at lines 1569, 1591,
1672 and 1756 let a descriptor equal to it pass, the one at 1630 does not.
`socksys_socketpair` closes both descriptors and then follows `i_dentry`, which
`fget` never sets (`socksys.c:760-768`, `linux26-compat.c:1456`), so that no
socketpair is ever made.

*Signals.* `sighold(SIGSEGV)` followed by a call that has not been made
before kills the process. A one-shot SIGSEGV handler is not reset, and runs
with all signals blocked. `sigpause` passes a mask where a pointer is expected
(`signal.c:386`). A process started with SIGSEGV ignored repeats a real fault
forever (`sysent.c:471`), which `FaultEnds` excepts. A handler
that interrupts a call holding a semaphore and makes such a call itself waits for ever; one that longjmps out leaves it taken.

*Break.* `do_brk` tests the wrong variable, so a refusal by `mremap` is taken
for success (`brk_refused`). `abi_brk` reports the break it asked for
(`misc.c:139`). The ELF loader calls `set_brk` before `init_brk` has made
a mapping (`binfmt_elf.c:84`), so the bss beyond the last file page is not
mapped by it, against the comment at line 628. A break may shrink over pages
that belong to another mapping.

*Start-up.* The PATH search continues in the name it has just built
(`startup_path`). `-h` and `--help` are compared with `-h=` and `--help=`
and never print the help. In a list of flags `-` never subtracts, and a value
of 0 is taken for an error. The setuid bit decides about the group too. The
descriptor of an ELF interpreter stays open, and so does that of `--log=FILE`
(`main.c:387-388`). `elf_set_personality` ignores the personality asked for when
it is already set (`binfmt_elf.c:136`), so an ELF file tried after another one
whose interpreter could not be mapped is started under the guessed one. An ELF error without an
interpreter frees a null pointer. An ELF interpreter that the kernel will not
map for `ENODEV` or `EACCES` lets the search go on after the point of no
return. The result of mapping a COFF bss is not looked at; COFF sections that
are not aligned are read with the wrong sizes. COFF libraries go to Linux's
`uselib`, although the comment says the call "will eventually recurse to our
code". Segments of an aligned x.out file are mapped without the file and
never read; one without data segment counts as loaded, and if the search
reached it after an ELF file whose interpreter could not be mapped, it is even
started, under the personality of that file. With SIGSEGV ignored,
a loader that failed reports success. `get_unused_fd` does not check its open
(`linux26-compat.c:1054-1060`).

*File names.* In `/` a relative name becomes `//name` (`filemap_root`). Errors
of `normalise_path` are turned into 0 and callers use what was copied so far.
A rule for one file is copied without looking at the room there is.

*Calls.* `getpmsg` and `putpmsg` are listed with their arguments counted but
want the registers. A `sigsuspend` through `sysisc` reads sysisc's own number
as its mask. Some entries of the table of redirected calls
(`linux26-compat.c:1818`) carry the wrong number.

*Signal numbers.* `abi_wait` (`misc.c:323`, `328`) and Wyse's `wait3`
(`per-wyse/socket.c:100`, `104`) translate the signal in a status with the map
for the other direction; `waitid` does not translate that of a killed child.
SVR4's `sigpending` answers -EINVAL (`svr4.c:276-279`). Handlers are called with
Linux's number. The `how` of `sigprocmask` indexes a
table of four unchecked (`signal.c:544`).

*IPC.* SETALL and GETALL rotate the array by two halfwords, which both
together undo for the first eight values of sets of eight or more; of larger
sets the others are lost (`ipc.c:130-133`, `141-144`), smaller ones are read and
written beyond their end. An error of `msgctl(IPC_SET)` is not returned.

*Terminals.* With ECHOCTL on, TOSTOP is not kept. CBAUDEX is lost, so that speeds
above 38400 become others, and one above 115200 indexes beyond `speed_map`.
Fields of `svr4_cc` that have no equivalent are not initialised. FIOCLEX and
FIONCLEX test the result of the lookup the wrong way round (`filio.c:47`,
`60`). `svr4_stream_ioctl` keeps a reference on one path (`sockio.c:173`).

*Sockets.* socksys renumbers in the program's block: repeated with the same
block, an option of level 0 or a socket type becomes another. Solaris's `sendmsg` and
`recvmsg` go through `sockfd_lookup`, which follows the `i_dentry` nobody sets
(`linux26-compat.c:1456`); `sock_recvmsg` ignores its flags (`1494-1497`).
`spx_connect` gives `readlink` the wrong size (`socksys.c:223`). The fallback
of open() for sockets cannot be reached.

*Directories.* `vfs_readdir` fetches as many entries as fit and tells the
first (`getdents`). `abi_read_dir` writes one byte of the folded inode
(`read_dir_inode`). Solaris's `getdents64` asks Linux to fill a
buffer of one byte and so always fails with EINVAL.

*Files.* `svr4_setrlimit` calls `getrlimit` (`ulimit.c:183`).
`uw7_setrlimit64` tests for 0 instead of infinity, uses the resource before
it is mapped, and its check of the range is off by one (`lfs.c:235`, `276`).
F_GETFL maps a negative error as if it were flags. Clearing O_NONBLOCK does
not clear it. A struct flock holds Linux's lock types as long as F_SETLKW
waits. `SVR4_MINOR` masks with a number of bits (`types.h:44`, `60`), so few
minor numbers survive. utime() without times faults. Solaris's `mmap64` tests
the alignment the wrong way round. `sco_fcntl` duplicates descriptor 1 in
a loop (`per-sco/misc.c:76`). Reading an hrtalarm overwrites the word with its
resolution (`hrtsys.c:132`). `uw7_access` passes a structure in place of the
name.

*Elsewhere.* `vprintk`'s test for a level (`fmt[1] == '\0'`) never matches.
The names of host and domain are read once and stay when they change
(`linux26-compat.c:1420-1434`). The first table `fget` allocates is not
cleared, and is empty because fresh break memory is zero.

## 8. What is not modelled

- XTI/TLI: `Makefile.defs` builds with `_KSL_IBCS_US`, which makes
  `Priv(file)` a null pointer, and every emulated socket has the mode of a
  character device, so `getmsg` and `putmsg` fail before they do anything.
- `x286/` and the loaders' library entries: not built, or never called.
- Calls that only renumber an argument of one kernel call, or copy the fields
  of one answer, and keep nothing: system information, the console of SCO
  (`vtkbd.c`, `consio.c`), ptrace, sysconf, the security calls of SCO,
  interface ioctls, contexts of UnixWare 7. There is no second step, no state
  and no inverse that a property could relate them to.
- The inode and device maps of `abi_map`: both tables are null, which makes it
  the identity; the inode map of 16 bits is `ShortInode`.
- Threads: the emulator supports one. Semaphores matter because of signals.
- The peer of a socket, the contents of files and of memory: kernel state
  that no decision of this code depends on.
- `fdt->fd[]` beyond its end: `FdTable` notes that it happens (`wild`) and
  stops there.
- What cannot be reached or does not return: `sendmsg` and `recvmsg` of Solaris
  (section 7) and what `socksys_socketpair` does after `SOCKET_I`.
- Failures at start-up that leave nothing to say: `init_brk` whose `MAP_FIXED`
  mapping is refused (`linux26-compat.c:235-237`), `short_inode_map` without a
  table (`short-inode.c:196-198`).
- Both ids in the long format of an IPC structure are taken as they are: they
  come from Linux's 16 bits and go back to them.
- `svr4_stream_ioctl` on the spx device, which keeps a reference (section 7):
  `UseFile` stands for the calls whose `fget` and `fput` match.
- Core dumps, tracing, printing, the text of options.
