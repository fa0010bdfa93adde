-------------------------------- MODULE Files --------------------------------
(***************************************************************************)
(* What the emulated fcntl, locking, ulimit, setrlimit, hrtsys, utime,     *)
(* mknod and stat do to the numbers a program gives and is given: open     *)
(* flags, lock types, limits, times and device numbers are renumbered,     *)
(* some of them in the program's own structures.                           *)
(*                                                                         *)
(* A program works on one of these at a time (task).  Flag words are sets  *)
(* of bit numbers.  BLOCK stands for the 512 bytes ulimit counts in, times *)
(* of files are days, FEB29 being that of the year 2000, and alarms are in *)
(* seconds.                                                                *)
(***************************************************************************)
EXTENDS Integers

CONSTANTS
    BLOCK,          \* bytes in a block of ulimit
    ULIM_MAX,       \* blocks that ulimit accepts
    Limits,         \* limits in bytes that Linux may have
    FEB29,          \* 29 February 2000
    Times,          \* times of files
    Minors,         \* minor numbers of devices
    MAX_NON_LFS,    \* the largest size the old stat structures can tell
    Sizes           \* sizes of files

ASSUME FilesAssumption ==
    /\ BLOCK \in Nat \ {0} /\ ULIM_MAX \in Nat /\ Limits \subseteq Nat
    /\ FEB29 \in Nat /\ Times \subseteq Nat /\ Minors \subseteq 0 .. 255
    /\ MAX_NON_LFS \in Nat /\ Sizes \subseteq Nat

VARIABLES
    task,       \* what the program works on, one of Tasks
    kflags,     \* Linux's flags of the open file
    word,       \* the flag word the program works with
    stale,      \* the bits of it that are not what F_GETFL told last
    flock,      \* the type in the program's struct flock
    wants,      \* the lock the program means by it
    waiting,    \* is an F_SETLKW blocked on it
    klock,      \* Linux's lock of this process
    other,      \* and of another
    holds,      \* the lock this process was told it holds
    klimit,     \* Linux's limit on file sizes: cur, max
    y2kbug,     \* has the personality ABI_Y2K_BUG
    node,       \* the file: mtime, minor, size
    timers,     \* Linux's interval timers: seconds left, interval
    hcmd,       \* the program's struct hrtcmd: words 2, 4, 5 and 7
    gave,       \* what the program set last: a time, a minor, blocks ...
    seen        \* what it was told when it asked for it

Tasks == {"flags", "svr4 locks", "xenix locks", "limits", "attributes", "alarms"}
NoGift == [what |-> "none", value |-> 0]

flagVars == <<kflags, word, stale>>
lockVars == <<flock, wants, waiting, klock, other, holds>>
limitVars == <<klimit>>
nodeVars == <<y2kbug, node, timers, hcmd>>
answerVars == <<gave, seen>>
fileVars == <<task, flagVars, lockVars, limitVars, nodeVars, answerVars>>
-----------------------------------------------------------------------------
(* fl_svr4_to_linux and fl_linux_to_svr4, with map_flags.                  *)
Bits == 0 .. 15
FlSvr4ToLinux == [b \in Bits |->
    CASE b \in {0, 1} -> {b} [] b \in {2, 7} -> {11} [] b = 3 -> {10}
      [] b = 4 -> {12} [] b = 8 -> {6} [] b = 9 -> {6, 9} [] b = 10 -> {7}
      [] b = 11 -> {8} [] OTHER -> {}]
FlLinuxToSvr4 == [b \in Bits |->
    CASE b \in {0, 1} -> {b} [] b = 6 -> {8} [] b = 7 -> {10} [] b = 8 -> {11}
      [] b = 9 -> {9} [] b = 10 -> {3} [] b = 11 -> {2} [] b = 12 -> {4}
      [] OTHER -> {}]
MapFlags(f, map) == UNION {map[b] : b \in f}

(* Linux drops the flags that only matter to open, and F_SETFL changes     *)
(* APPEND, NONBLOCK, ASYNC and DIRECT.                                     *)
LinuxOpen(f) == f \ {6, 7, 8, 9}
Settable == {10, 11, 13, 14}

(* svr4_open: Linux opens no socket, so what is done for one never is.     *)
(* sol_open64 and uw7_creat64 add O_LARGEFILE (bit 15).                    *)
Opened(f, linux) ==
    /\ task = "flags"
    /\ kflags' = LinuxOpen(linux)
    /\ word' = f /\ stale' = Bits
    /\ UNCHANGED <<task, lockVars, limitVars, nodeVars, answerVars>>

Svr4Open(f) == Opened(f, MapFlags(f, FlSvr4ToLinux))
SolOpen64(f) == Opened(f, MapFlags(f, FlSvr4ToLinux) \cup {15})
Uw7Creat64 == Opened({0, 8, 9}, {0, 6, 9, 15})

Getfl ==
    /\ task = "flags"
    /\ word' = MapFlags(kflags, FlLinuxToSvr4) /\ stale' = {}
    /\ UNCHANGED <<task, kflags, lockVars, limitVars, nodeVars, answerVars>>

(* The program sets or clears a flag of its word: NDELAY, APPEND or        *)
(* NONBLOCK.                                                               *)
Edit(b) ==
    /\ task = "flags" /\ stale = {}
    /\ word' \in {word \ {b}, word \cup {b}}
    /\ stale' = {b}
    /\ UNCHANGED <<task, kflags, lockVars, limitVars, nodeVars, answerVars>>

(* Mutant: the flags that F_SETFL does not name are taken for cleared.     *)
SetflUnmapped ==
    /\ task = "flags"
    /\ kflags' = (kflags \ Settable) \cup (word \cap Settable)
    /\ UNCHANGED <<task, word, stale, lockVars, limitVars, nodeVars, answerVars>>

(* svr4_fcntl with F_SETFL.                                                *)
Setfl ==
    /\ task = "flags"
    /\ kflags' = (kflags \ Settable)
                   \cup (MapFlags(word, FlSvr4ToLinux) \cap Settable)
    /\ UNCHANGED <<task, word, stale, lockVars, limitVars, nodeVars, answerVars>>

(* svr4_fil_ioctl: FIOASYNC and FIONBIO are Linux's; FIOCLEX and FIONCLEX  *)
(* look at the result the wrong way round and only say that all is well.   *)
SvrFilIoctl(cmd, on) ==
    LET bit == CASE cmd = "FIOASYNC" -> {13} [] cmd = "FIONBIO" -> {11}
                 [] cmd \in {"FIOCLEX", "FIONCLEX"} -> {}
    IN  /\ task = "flags"
        /\ kflags' = IF on THEN kflags \cup bit ELSE kflags \ bit
        /\ stale' = IF cmd = "FIONBIO" THEN Bits ELSE stale
        /\ UNCHANGED <<task, word, lockVars, limitVars, nodeVars, answerVars>>
-----------------------------------------------------------------------------
(* Types of lock: Linux's, SVR4's are one more, and Xenix's.               *)
LockTypes == {"rd", "wr", "un"}
LinuxType(t) == CASE t = "rd" -> 0 [] t = "wr" -> 1 [] t = "un" -> 2
XenixType(t) == CASE t = "rd" -> 3 [] t = "wr" -> 1 [] t = "un" -> 0
Program(t) == IF task = "svr4 locks" THEN LinuxType(t) + 1 ELSE XenixType(t)
OfLinux(n) == IF n \in 0 .. 2 THEN CHOOSE t \in LockTypes : LinuxType(t) = n ELSE "bad"

(* What is put into the struct for Linux, and back.  Xenix's refuses a     *)
(* type it does not know.                                                  *)
TypeToLinux(n) ==
    IF task = "svr4 locks" THEN n - 1
    ELSE CASE n = 0 -> 2 [] n = 1 -> 1 [] n = 3 -> 0 [] OTHER -> -1
TypeFromLinux(n) == IF n \in 0 .. 2 THEN Program(OfLinux(n)) ELSE n

Locking == task \in {"svr4 locks", "xenix locks"}
Conflict(t) == (t = "wr" /\ other # "un") \/ (t = "rd" /\ other = "wr")

(* The program fills in the struct.                                        *)
Fill(t) ==
    /\ Locking /\ ~waiting /\ wants' = t /\ flock' = Program(t)
    /\ UNCHANGED <<task, flagVars, waiting, klock, other, holds, limitVars, nodeVars,
                   answerVars>>

(* svr4_fcntl_flock and xnx_locking in modes 6 and 7: F_SETLK and F_SETLKW *)
(* that succeed at once or after waiting.                                  *)
Granted ==
    LET n == IF waiting THEN flock ELSE TypeToLinux(flock)
    IN  /\ Locking /\ n \in 0 .. 2 /\ ~Conflict(OfLinux(n))
        /\ klock' = OfLinux(n) /\ holds' = wants
        /\ flock' = TypeFromLinux(n) /\ waiting' = FALSE
        /\ UNCHANGED <<task, flagVars, wants, other, limitVars, nodeVars, answerVars>>

(* F_SETLKW waits: meanwhile the struct has Linux's type.                  *)
Blocked ==
    LET n == TypeToLinux(flock)
    IN  /\ Locking /\ ~waiting /\ n \in 0 .. 2 /\ Conflict(OfLinux(n))
        /\ flock' = n /\ waiting' = TRUE
        /\ UNCHANGED <<task, flagVars, wants, klock, other, holds, limitVars, nodeVars,
                       answerVars>>

(* Mutant: the struct is left as Linux has it.                             *)
InterruptedAsIs ==
    /\ Locking /\ waiting /\ waiting' = FALSE /\ flock' = flock
    /\ UNCHANGED <<task, flagVars, wants, klock, other, holds, limitVars, nodeVars,
                   answerVars>>

(* A signal ends the wait, with an error: the struct is put back.          *)
Interrupted ==
    /\ Locking /\ waiting /\ waiting' = FALSE /\ flock' = TypeFromLinux(flock)
    /\ UNCHANGED <<task, flagVars, wants, klock, other, holds, limitVars, nodeVars,
                   answerVars>>

(* F_SETLK is refused: the struct is put back, or was not touched.         *)
Refuse ==
    LET n == TypeToLinux(flock)
    IN  /\ Locking /\ ~waiting
        /\ n \notin 0 .. 2 \/ Conflict(OfLinux(n))
        /\ flock' = IF n \in 0 .. 2 THEN TypeFromLinux(n) ELSE flock
        /\ UNCHANGED <<task, flagVars, wants, waiting, klock, other, holds, limitVars,
                       nodeVars, answerVars>>

(* F_GETLK: the struct becomes the lock that is in the way, or "un".       *)
Getlk ==
    LET n == TypeToLinux(flock)
        blocker == IF Conflict(OfLinux(n)) THEN other ELSE "un"
    IN  /\ Locking /\ ~waiting /\ n \in {0, 1}
        /\ flock' = TypeFromLinux(LinuxType(blocker)) /\ wants' = blocker
        /\ UNCHANGED <<task, flagVars, waiting, klock, other, holds, limitVars,
                       nodeVars, answerVars>>

(* xnx_locking in modes 0 to 4 and 20, with a struct of its own; odd modes *)
(* wait until the lock is free.                                            *)
XnxLocking(mode) ==
    LET t == CASE mode = 0 -> "un" [] mode \in {1, 2, 20} -> "wr" [] OTHER -> "rd"
    IN  /\ task = "xenix locks" /\ ~waiting /\ ~Conflict(t)
        /\ klock' = t /\ holds' = t
        /\ UNCHANGED <<task, flagVars, flock, wants, waiting, other, limitVars,
                       nodeVars, answerVars>>

(* The other process takes or drops its lock.                              *)
OtherLocks(t) ==
    /\ Locking /\ other' = t
    /\ t = "wr" => klock = "un"
    /\ t = "rd" => klock # "wr"
    /\ UNCHANGED <<task, flagVars, flock, wants, waiting, klock, holds, limitVars,
                   nodeVars, answerVars>>
-----------------------------------------------------------------------------
(* svr4_ulimit: the limit on file sizes, in blocks.                        *)
UlimitGet ==
    /\ task = "limits" /\ seen' = klimit.cur \div BLOCK
    /\ UNCHANGED <<task, flagVars, lockVars, limitVars, nodeVars, gave>>

(* Only with CAP_SYS_RESOURCE above rlim_max, which then goes up with it.  *)
UlimitSet(val, capable) ==
    LET lim == val * BLOCK
    IN  /\ task = "limits" /\ val \in 0 .. ULIM_MAX
        /\ lim <= klimit.max \/ capable
        /\ klimit' = [cur |-> lim, max |-> IF lim > klimit.max THEN lim ELSE klimit.max]
        /\ gave' = [what |-> "limit", value |-> val] /\ seen' = -1
        /\ UNCHANGED <<task, flagVars, lockVars, nodeVars>>

(* -ERANGE and, without CAP_SYS_RESOURCE, -EPERM.                          *)
UlimitRefused(val, capable) ==
    /\ task = "limits"
    /\ val \notin 0 .. ULIM_MAX \/ (val * BLOCK > klimit.max /\ ~capable)
    /\ seen' = -1 /\ UNCHANGED <<task, flagVars, lockVars, limitVars, nodeVars, gave>>

(* svr4_getrlimit; the limit is compared in blocks.                        *)
Svr4Getrlimit ==
    /\ task = "limits" /\ seen' = klimit.cur \div BLOCK
    /\ UNCHANGED <<task, flagVars, lockVars, limitVars, nodeVars, gave>>

(* svr4_setrlimit calls getrlimit: nothing is set, the caller's structure  *)
(* is overwritten, and it is told that all is well.                        *)
Svr4Setrlimit(lim) ==
    /\ task = "limits" /\ lim <= klimit.max /\ seen' = -1
    /\ UNCHANGED <<task, flagVars, lockVars, limitVars, nodeVars, gave>>

(* uw7_check_rlimit64 is given limits of 0 to compare with in place of     *)
(* Linux's, so without privilege only 0 can be set.                        *)
Uw7CheckRlimit64(lim) == lim = 0

(* uw7_setrlimit64.                                                        *)
Uw7Setrlimit64(lim) ==
    /\ task = "limits" /\ seen' = -1
    /\ IF Uw7CheckRlimit64(lim)
       THEN /\ klimit' = [cur |-> lim, max |-> lim]
            /\ gave' = [what |-> "limit", value |-> lim]
       ELSE UNCHANGED <<limitVars, gave>>
    /\ UNCHANGED <<task, flagVars, lockVars, nodeVars>>
-----------------------------------------------------------------------------
(* svr4_y2k_send and svr4_y2k_recv.                                        *)
Y2kSend(t) == IF y2kbug /\ t > FEB29 THEN t - 1 ELSE t

(* Mutant: the shift moves the bound the wrong way.                        *)
Y2kRecvLate(t) == IF y2kbug /\ t > FEB29 + 1 THEN t + 1 ELSE t

Y2kRecv(t) == IF y2kbug /\ t > FEB29 - 1 THEN t + 1 ELSE t

(* SVR4_O_MINOR and SVR4_MINOR, by which svr4_mknod and svr4_do_xmknod     *)
(* take a device number apart, mask with the number of bits of a minor, 8  *)
(* and 18, instead of with that many bits.  The latter goes on to the      *)
(* former, so that nothing is left.                                        *)
Svr4Minor(minor, x) == IF ~x /\ (minor \div 8) % 2 = 1 THEN 8 ELSE 0

(* abi_utime; abi_stime and abi_settime do the same to the clock.          *)
AbiUtime(t) ==
    /\ task = "attributes"
    /\ node' = [node EXCEPT !.mtime = Y2kRecv(t)]
    /\ gave' = [what |-> "time", value |-> t] /\ seen' = -1
    /\ UNCHANGED <<task, flagVars, lockVars, limitVars, y2kbug, timers, hcmd>>

(* svr4_mknod and svr4_xmknod.                                             *)
Svr4Mknod(minor, x) ==
    /\ task = "attributes"
    /\ node' = [node EXCEPT !.minor = Svr4Minor(minor, x)]
    /\ gave' = [what |-> IF x THEN "xminor" ELSE "minor", value |-> minor]
    /\ seen' = -1
    /\ UNCHANGED <<task, flagVars, lockVars, limitVars, y2kbug, timers, hcmd>>

(* Another process writes to the file.                                     *)
Grows(size) ==
    /\ task = "attributes" /\ node.size # size
    /\ node' = [node EXCEPT !.size = size] /\ seen' = -1
    /\ UNCHANGED <<task, flagVars, lockVars, limitVars, y2kbug, timers, hcmd, gave>>

(* The stat calls.  The program looks at what it set last.  A structure    *)
(* too small for the size of the file is refused altogether, -EOVERFLOW.   *)
Tells(large) ==
    /\ task = "attributes" /\ gave # NoGift
    /\ seen' = CASE ~large /\ node.size > MAX_NON_LFS -> -1
                 [] (large \/ node.size <= MAX_NON_LFS) /\ gave.what = "time" ->
                      Y2kSend(node.mtime)
                 [] OTHER -> node.minor
    /\ UNCHANGED <<task, flagVars, lockVars, limitVars, nodeVars, gave>>

ReportSvr4Stat == Tells(FALSE)          \* and report_svr4_xstat
ReportScoXstat == Tells(FALSE)
ReportUw7Stat64 == Tells(TRUE)
ReportSolStat64 == Tells(TRUE)
-----------------------------------------------------------------------------
(* ibcs_hrtalarm.  A clock is 1, 2 or 4; the times are in words 2 and 5,   *)
(* and in words 4 and 7 what they are fractions of, which has to be OK.    *)
OK == 1000000
Clocks == {"real", "virtual", "prof"}
Which(clk) == CASE clk = 4 -> "prof" [] clk = 2 -> "virtual" [] clk = 1 -> "real"

(* The program fills its struct in.                                        *)
FillHrtcmd(w2, w5) ==
    /\ task = "alarms" /\ hcmd' = [w2 |-> w2, w4 |-> OK, w5 |-> w5, w7 |-> OK]
    /\ UNCHANGED <<task, flagVars, lockVars, limitVars, y2kbug, node, timers,
                   answerVars>>

SetItimer(clk, left, every) ==
    /\ timers' = [timers EXCEPT ![Which(clk)] = [left |-> left, every |-> every]]
    /\ gave' = [what |-> Which(clk), value |-> every] /\ seen' = -1
    /\ UNCHANGED <<task, flagVars, lockVars, limitVars, y2kbug, node, hcmd>>

(* Commands 0xc, 0xf and 0x10.                                             *)
HrtAlarm(clk) == task = "alarms" /\ hcmd.w4 = OK /\ SetItimer(clk, hcmd.w2, 0)
HrtInterval(clk) ==
    /\ task = "alarms" /\ hcmd.w4 = OK /\ hcmd.w7 = OK
    /\ SetItimer(clk, hcmd.w5, hcmd.w2)
HrtCancel(clk) == task = "alarms" /\ SetItimer(clk, 0, 0)

(* Command 0xd.  The two struct timevals are copied over words 2 to 5, the *)
(* fractions (0) to word 3 and 5: the time left is where the resolution    *)
(* just was, and the struct is no good for another alarm.                  *)
HrtLeft(clk) ==
    LET t == timers[Which(clk)]
    IN  /\ task = "alarms"
        /\ hcmd' = [hcmd EXCEPT !.w2 = t.every, !.w4 = t.left, !.w5 = 0]
        /\ seen' = IF gave.what = Which(clk) THEN hcmd'.w2 ELSE -1
        /\ UNCHANGED <<task, flagVars, lockVars, limitVars, y2kbug, node, timers,
                       gave>>
-----------------------------------------------------------------------------
FilesInit ==
    /\ task \in Tasks
    /\ kflags = {} /\ word = {} /\ stale = Bits
    /\ wants = "un" /\ flock = Program("un") /\ waiting = FALSE
    /\ klock = "un" /\ other = "un" /\ holds = "un"
    /\ klimit \in IF task = "limits"
                  THEN {l \in [cur : Limits, max : Limits] : l.cur <= l.max}
                  ELSE {[cur |-> 0, max |-> 0]}
    /\ y2kbug \in BOOLEAN /\ (task # "attributes" => ~y2kbug)
    /\ node = [mtime |-> FEB29, minor |-> 0, size |-> 0]
    /\ timers = [w \in Clocks |-> [left |-> 0, every |-> 0]]
    /\ hcmd = [w2 |-> 0, w4 |-> 0, w5 |-> 0, w7 |-> 0]
    /\ gave = NoGift /\ seen = -1

FlagsNext ==
    \/ \E f \in {{}, {1}, {0, 3, 8}, {1, 2, 4}, {1, 7, 9}} :
          Svr4Open(f) \/ SolOpen64(f)
    \/ Uw7Creat64 \/ Getfl \/ Setfl
    \/ \E cmd \in {"FIOASYNC", "FIONBIO", "FIOCLEX"}, on \in BOOLEAN :
          SvrFilIoctl(cmd, on)
    \/ \E b \in {2, 3, 7} : Edit(b)

LocksNext ==
    \/ \E t \in LockTypes : Fill(t) \/ OtherLocks(t)
    \/ Granted \/ Blocked \/ Interrupted \/ Refuse \/ Getlk
    \/ \E mode \in {0, 1, 2, 3, 4, 20} : XnxLocking(mode)

LimitsNext ==
    \/ UlimitGet \/ Svr4Getrlimit
    \/ \E val \in {lim \div BLOCK : lim \in Limits} \cup {-1}, capable \in BOOLEAN :
          UlimitSet(val, capable) \/ UlimitRefused(val, capable)
    \/ \E lim \in Limits : Svr4Setrlimit(lim) \/ Uw7Setrlimit64(lim)

AttributesNext ==
    \/ \E t \in Times : AbiUtime(t)
    \/ \E minor \in Minors, x \in BOOLEAN : Svr4Mknod(minor, x)
    \/ \E size \in Sizes : Grows(size)
    \/ ReportSvr4Stat \/ ReportScoXstat \/ ReportUw7Stat64 \/ ReportSolStat64

AlarmsNext ==
    \/ \E w2, w5 \in {1, 2} : FillHrtcmd(w2, w5)
    \/ \E clk \in {1, 2, 4} : \/ HrtAlarm(clk) \/ HrtInterval(clk)
                             \/ HrtCancel(clk) \/ HrtLeft(clk)

FilesNext == FlagsNext \/ LocksNext \/ LimitsNext \/ AttributesNext \/ AlarmsNext

FilesSpec == FilesInit /\ [][FilesNext]_fileVars
-----------------------------------------------------------------------------
(* A program that reads the flags of a file, changes one and writes them   *)
(* back changes no other, though the word goes through two tables that are *)
(* not each other's inverse: SVR4's NDELAY and NONBLOCK are one flag of    *)
(* Linux's, told as NDELAY, so that clearing NONBLOCK alone has no effect. *)
(* ASYNC and DIRECT, which are not told, are cleared.                      *)
SetflKeeps ==
    [][Setfl /\ stale # Bits =>
         \A k \in {0, 1, 10, 11, 12} :
            (\A b \in stale : k \notin FlSvr4ToLinux[b]) => (k \in kflags' <=> k \in kflags)
      ]_fileVars

(* A struct flock that is not in use by a waiting call says what the       *)
(* program meant by it, through refusals, interrupted waits and F_GETLK,   *)
(* so that a retry asks for the same lock; and the lock the program was    *)
(* told it has is the one that Linux gave it, and no conflicting one is    *)
(* another's.                                                              *)
LocksAsMeant ==
    Locking =>
        /\ ~waiting => flock = Program(wants)
        /\ holds = klock
        /\ klock = "wr" => other = "un"
        /\ klock = "rd" => other # "wr"

(* What a program set it is told when it asks, whatever else it called in  *)
(* between: the limit that ulimit or uw7_setrlimit64 set last, raised or   *)
(* lowered; the interval of the clock it set last, through a struct that   *)
(* the asking spoils; and the time of a file, on either side of the leap   *)
(* day and with the bug or without.  Of minor numbers this holds for 0     *)
(* and, from mknod, for 8: the others are lost.  It does not hold for      *)
(* svr4_setrlimit, which sets nothing, and is not said of it.              *)
SetIsTold ==
    (seen # -1 /\ gave # NoGift) =>
        CASE gave.what \in {"limit", "time"} \cup Clocks -> seen = gave.value
          [] gave.what = "minor" -> gave.value \in {0, 8} => seen = gave.value
          [] OTHER -> gave.value = 0 => seen = 0
=============================================================================
