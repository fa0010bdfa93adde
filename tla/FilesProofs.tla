---------------------------- MODULE FilesProofs ----------------------------
(***************************************************************************)
(* Proofs about Files, Directory and FdTable, for every block size, limit, *)
(* time, directory, buffer and size of the file table.                     *)
(***************************************************************************)
EXTENDS FdTable, Files, Directory, SequenceTheorems, WellFoundedInduction,
        NaturalsInduction, TLAPS

(* Locks: the struct flock has the type the program means in the           *)
(* program's numbers, or in Linux's while an F_SETLKW waits.               *)
LockTypesOK ==
    /\ wants \in LockTypes /\ klock \in LockTypes /\ other \in LockTypes
    /\ holds \in LockTypes /\ waiting \in BOOLEAN
StructMeant == Locking => flock = IF waiting THEN LinuxType(wants) ELSE Program(wants)
NoConflict ==
    Locking => /\ holds = klock
               /\ klock = "wr" => other = "un"
               /\ klock = "rd" => other # "wr"
LockInv == LockTypesOK /\ StructMeant /\ NoConflict

(* Flags: where the program's word is not stale it has the two flags that  *)
(* F_SETFL can change and F_GETFL tells as Linux has them.                 *)
FlagInv ==
    \A k \in {10, 11} : (\A b \in stale : k \notin FlSvr4ToLinux[b]) =>
        (k \in kflags <=> \E b \in word : k \in FlSvr4ToLinux[b])

(* What is set: Linux has what the program set last, in Linux's form.      *)
Gifts == CASE task = "limits" -> {"limit"} [] task = "alarms" -> Clocks
           [] task = "attributes" -> {"time", "minor", "xminor"} [] OTHER -> {}
Kept ==
    /\ gave.what = "limit" => klimit.cur = gave.value * BLOCK
    /\ gave.what = "time" => node.mtime = Y2kRecv(gave.value)
    /\ gave.what = "minor" => node.minor = Svr4Minor(gave.value, FALSE)
    /\ gave.what = "xminor" => node.minor = 0
    /\ gave.what \in Clocks => timers[gave.what].every = gave.value
SetTypesOK ==
    /\ gave \in [what : {"none", "limit", "time", "minor", "xminor"} \cup Clocks,
                 value : Nat]
    /\ seen \in Int /\ klimit \in [cur : Nat, max : Nat]
    /\ node \in [mtime : Nat, minor : Nat, size : Nat]
    /\ timers \in [Clocks -> [left : Nat, every : Nat]]
    /\ hcmd \in [w2 : Nat, w4 : Nat, w5 : Nat, w7 : Nat]
GiftOfTask == gave = NoGift \/ gave.what \in Gifts
SetInv == SetTypesOK /\ GiftOfTask /\ Kept /\ SetIsTold
-----------------------------------------------------------------------------
(* The parts do not touch each other's variables.                          *)
LEMMA FlagFrame ==
    ASSUME LocksNext \/ LimitsNext \/ AttributesNext \/ AlarmsNext
    PROVE  task' = task /\ UNCHANGED flagVars
BY DEF LocksNext, LimitsNext, AttributesNext, AlarmsNext, flagVars, Fill, OtherLocks,
       Granted, Blocked, Interrupted, Refuse, Getlk, XnxLocking, UlimitGet,
       Svr4Getrlimit, UlimitSet, UlimitRefused, Svr4Setrlimit, Uw7Setrlimit64,
       AbiUtime, Svr4Mknod, Grows, ReportSvr4Stat, ReportScoXstat, ReportUw7Stat64,
       ReportSolStat64, Tells, FillHrtcmd, HrtAlarm, HrtInterval, HrtCancel, HrtLeft,
       SetItimer

(* Nothing but the lock calls touches the locks.                           *)
LEMMA LockFrame ==
    ASSUME FlagsNext \/ LimitsNext \/ AttributesNext \/ AlarmsNext
    PROVE  task' = task /\ UNCHANGED lockVars
BY DEF FlagsNext, LimitsNext, AttributesNext, AlarmsNext, lockVars, Svr4Open,
       SolOpen64, Uw7Creat64, Opened, Getfl, Setfl, SvrFilIoctl, Edit, UlimitGet,
       Svr4Getrlimit, UlimitSet, UlimitRefused, Svr4Setrlimit, Uw7Setrlimit64,
       AbiUtime, Svr4Mknod, Grows, ReportSvr4Stat, ReportScoXstat, ReportUw7Stat64,
       ReportSolStat64, Tells, FillHrtcmd, HrtAlarm, HrtInterval, HrtCancel, HrtLeft,
       SetItimer

(* Flags and locks are no concern of limits, attributes and alarms.        *)
LEMMA SetFrame ==
    ASSUME FlagsNext \/ LocksNext
    PROVE  task' = task /\ UNCHANGED <<limitVars, nodeVars, answerVars>>
BY DEF FlagsNext, LocksNext, limitVars, nodeVars, answerVars, Svr4Open,
       SolOpen64, Uw7Creat64, Opened, Getfl, Setfl, SvrFilIoctl, Edit, Fill,
       OtherLocks, Granted, Blocked, Interrupted, Refuse, Getlk, XnxLocking
-----------------------------------------------------------------------------
(* Linux's types of lock have names, and the program's are turned into     *)
(* them and back.                                                          *)
LEMMA TypeNames ==
    ASSUME NEW t \in LockTypes
    PROVE  LinuxType(t) \in 0 .. 2 /\ OfLinux(LinuxType(t)) = t
<1>1. \A u \in LockTypes : LinuxType(u) \in 0 .. 2
                           /\ (LinuxType(u) = LinuxType(t) => u = t)
  BY DEF LockTypes, LinuxType
<1>2. PICK c : c = CHOOSE u \in LockTypes : LinuxType(u) = LinuxType(t)
  OBVIOUS
<1>3. c \in LockTypes /\ LinuxType(c) = LinuxType(t)
  BY <1>2
<1>4. c = t
  BY <1>1, <1>3
<1> QED
  BY <1>1, <1>2, <1>4 DEF OfLinux

(* Every number Linux knows is that of a type.                             *)
LEMMA NamedTypes ==
    ASSUME NEW n \in 0 .. 2
    PROVE  OfLinux(n) \in LockTypes /\ LinuxType(OfLinux(n)) = n
<1>1. PICK t \in LockTypes : LinuxType(t) = n
  BY DEF LockTypes, LinuxType
<1> QED
  BY <1>1, TypeNames

(* For both numberings the translations are each other's inverse.          *)
LEMMA Translated ==
    ASSUME Locking, NEW t \in LockTypes
    PROVE  /\ TypeToLinux(Program(t)) = LinuxType(t)
           /\ TypeFromLinux(LinuxType(t)) = Program(t)
<1>1. TypeToLinux(Program(t)) = LinuxType(t)
  <2>1. CASE task = "svr4 locks"
    <3>1. LinuxType(t) \in Int
      BY TypeNames
    <3>2. Program(t) = LinuxType(t) + 1
      BY <2>1 DEF Program
    <3>3. \A n : TypeToLinux(n) = n - 1
      BY <2>1 DEF TypeToLinux
    <3> QED
      BY <3>1, <3>2, <3>3
  <2>2. CASE task = "xenix locks"
    <3>1. Program(t) = XenixType(t)
      BY <2>2 DEF Program
    <3>2. \A n : TypeToLinux(n) = CASE n = 0 -> 2 [] n = 1 -> 1 [] n = 3 -> 0 [] OTHER -> -1
      BY <2>2 DEF TypeToLinux
    <3>3. CASE t = "rd"
      BY <3>1, <3>2, <3>3 DEF LinuxType, XenixType
    <3>4. CASE t = "wr"
      BY <3>1, <3>2, <3>4 DEF LinuxType, XenixType
    <3>5. CASE t = "un"
      BY <3>1, <3>2, <3>5 DEF LinuxType, XenixType
    <3> QED
      BY <3>3, <3>4, <3>5 DEF LockTypes
  <2> QED
    BY <2>1, <2>2 DEF Locking
<1> QED
  BY <1>1, TypeNames DEF TypeFromLinux

(* The conflict of a lock with the other process's.                        *)
LEMMA NoConflictMeans ==
    ASSUME NEW t \in LockTypes, other \in LockTypes, ~Conflict(t)
    PROVE  (t = "wr" => other = "un") /\ (t = "rd" => other # "wr")
BY DEF Conflict

(* The invariant of the locks.                                             *)
LEMMA LockInit == FilesInit => LockInv
BY DEF FilesInit, LockInv, LockTypesOK, LockTypes, StructMeant, NoConflict

(* Every lock call keeps it.                                               *)
LEMMA LockNext ==
    ASSUME LockInv, [FilesNext]_fileVars
    PROVE  LockInv'
<1>0. LockTypesOK /\ StructMeant /\ NoConflict
  BY DEF LockInv
<1>1. CASE UNCHANGED fileVars
  BY <1>0, <1>1 DEF LockInv, LockTypesOK, StructMeant, NoConflict, fileVars, lockVars,
                    Locking, Program
<1>2. CASE FlagsNext \/ LimitsNext \/ AttributesNext \/ AlarmsNext
  <2>1. task' = task /\ UNCHANGED lockVars
    BY <1>2, LockFrame
  <2> QED
    BY <1>0, <2>1 DEF LockInv, LockTypesOK, StructMeant, NoConflict, lockVars, Locking,
                      Program
<1>3. CASE LocksNext
  <2>0. task' = task /\ Locking
    BY <1>3 DEF LocksNext, Fill, OtherLocks, Granted, Blocked, Interrupted, Refuse,
                Getlk, XnxLocking, Locking
  <2>1. Locking' /\ \A t : Program(t)' = Program(t)
    BY <2>0 DEF Locking, Program
  <2>2. flock = IF waiting THEN LinuxType(wants) ELSE Program(wants)
    BY <1>0, <2>0 DEF StructMeant
  <2>3. /\ holds = klock /\ (klock = "wr" => other = "un")
        /\ (klock = "rd" => other # "wr")
    BY <1>0, <2>0 DEF NoConflict
  <2>4. wants \in LockTypes /\ klock \in LockTypes /\ other \in LockTypes
        /\ holds \in LockTypes /\ waiting \in BOOLEAN
    BY <1>0 DEF LockTypesOK
  <2>5. /\ LinuxType(wants) \in 0 .. 2 /\ OfLinux(LinuxType(wants)) = wants
        /\ TypeToLinux(Program(wants)) = LinuxType(wants)
        /\ TypeFromLinux(LinuxType(wants)) = Program(wants)
    BY <2>0, <2>4, TypeNames, Translated
  <2>6. ASSUME NEW t \in LockTypes, Fill(t) PROVE LockInv'
    BY <2>1, <2>3, <2>4, <2>6 DEF Fill, LockInv, LockTypesOK, StructMeant, NoConflict
  <2>7. ASSUME NEW t \in LockTypes, OtherLocks(t) PROVE LockInv'
    BY <2>1, <2>2, <2>3, <2>4, <2>7
    DEF OtherLocks, LockInv, LockTypesOK, LockTypes, StructMeant, NoConflict
  <2>8. CASE Granted
    <3>1. PICK n : n = IF waiting THEN flock ELSE TypeToLinux(flock)
      OBVIOUS
    <3>2. n = LinuxType(wants)
      BY <2>2, <2>5, <3>1
    <3>3. /\ ~Conflict(wants) /\ klock' = wants /\ holds' = wants
          /\ flock' = Program(wants) /\ waiting' = FALSE
          /\ wants' = wants /\ other' = other
      BY <2>5, <2>8, <3>1, <3>2 DEF Granted
    <3>4. (wants = "wr" => other = "un") /\ (wants = "rd" => other # "wr")
      BY <2>4, <3>3, NoConflictMeans
    <3> QED
      BY <2>1, <2>4, <3>3, <3>4 DEF LockInv, LockTypesOK, StructMeant, NoConflict
  <2>9. CASE Blocked
    BY <2>1, <2>2, <2>3, <2>4, <2>5, <2>9
    DEF Blocked, LockInv, LockTypesOK, StructMeant, NoConflict
  <2>10. CASE Interrupted
    BY <2>1, <2>2, <2>3, <2>4, <2>5, <2>10
    DEF Interrupted, LockInv, LockTypesOK, StructMeant, NoConflict
  <2>11. CASE Refuse
    BY <2>1, <2>2, <2>3, <2>4, <2>5, <2>11
    DEF Refuse, LockInv, LockTypesOK, StructMeant, NoConflict
  <2>12. CASE Getlk
    <3>1. PICK b \in LockTypes : flock' = TypeFromLinux(LinuxType(b)) /\ wants' = b
      BY <2>4, <2>12 DEF Getlk, LockTypes
    <3>2. flock' = Program(b)
      BY <2>0, <3>1, Translated
    <3> QED
      BY <2>1, <2>3, <2>4, <2>12, <3>1, <3>2
      DEF Getlk, LockInv, LockTypesOK, StructMeant, NoConflict
  <2>13. ASSUME NEW mode \in {0, 1, 2, 3, 4, 20}, XnxLocking(mode) PROVE LockInv'
    <3>0. PICK t : t = CASE mode = 0 -> "un" [] mode \in {1, 2, 20} -> "wr" [] OTHER -> "rd"
      OBVIOUS
    <3>1. /\ ~Conflict(t) /\ klock' = t /\ holds' = t
          /\ UNCHANGED <<flock, wants, waiting, other>> /\ t \in LockTypes
      BY <2>13, <3>0 DEF XnxLocking, LockTypes
    <3>2. (t = "wr" => other = "un") /\ (t = "rd" => other # "wr")
      BY <2>4, <3>1, NoConflictMeans
    <3> QED
      BY <2>1, <2>2, <2>4, <3>1, <3>2 DEF LockInv, LockTypesOK, StructMeant, NoConflict
  <2> QED
    BY <1>3, <2>6, <2>7, <2>8, <2>9, <2>10, <2>11, <2>12, <2>13 DEF LocksNext
<1> QED
  BY <1>1, <1>2, <1>3 DEF FilesNext

(* A struct flock means what the program put there whenever no call waits  *)
(* on it, in SVR4's numbering and in Xenix's, and the lock the program was *)
(* told of is Linux's: for every order of grants, waits, signals, refusals *)
(* and the other process's locks.                                          *)
THEOREM LocksKept == FilesSpec => []LocksAsMeant
<1>1. FilesInit => LockInv
  BY LockInit
<1>2. LockInv /\ [FilesNext]_fileVars => LockInv'
  BY LockNext
<1>3. LockInv => LocksAsMeant
  BY DEF LockInv, StructMeant, NoConflict, LocksAsMeant
<1> QED
  BY <1>1, <1>2, <1>3, PTL DEF FilesSpec
-----------------------------------------------------------------------------
(* The settable flags that are told, and the program's bits for them.      *)
LEMMA FlagTables ==
    /\ \A b \in Bits : 10 \in FlSvr4ToLinux[b] <=> b = 3
    /\ \A b \in Bits : 11 \in FlSvr4ToLinux[b] <=> b \in {2, 7}
    /\ \A k \in Bits : /\ 3 \in FlLinuxToSvr4[k] <=> k = 10
                       /\ 2 \in FlLinuxToSvr4[k] <=> k = 11
                       /\ 7 \notin FlLinuxToSvr4[k]
BY DEF Bits, FlSvr4ToLinux, FlLinuxToSvr4

(* The invariant of the flags.                                             *)
FInv == FlagInv /\ kflags \subseteq Bits /\ word \subseteq Bits /\ stale \subseteq Bits

(* A bit that is or is not in the program's word, for each of the flags.   *)
LEMMA FlagsOfWord ==
    ASSUME word \subseteq Bits, stale \subseteq Bits
    PROVE  /\ (\E b \in word : 10 \in FlSvr4ToLinux[b]) <=> 3 \in word
           /\ (\E b \in word : 11 \in FlSvr4ToLinux[b]) <=> (2 \in word \/ 7 \in word)
           /\ (\A b \in stale : 10 \notin FlSvr4ToLinux[b]) <=> 3 \notin stale
           /\ (\A b \in stale : 11 \notin FlSvr4ToLinux[b])
                 <=> (2 \notin stale /\ 7 \notin stale)
<1>1. 2 \in Bits /\ 3 \in Bits /\ 7 \in Bits
  BY DEF Bits
<1> QED
  BY <1>1, FlagTables

(* Nothing is known of a word that is stale altogether.                    *)
LEMMA FlagInit == FilesInit => FInv
<1> SUFFICES ASSUME FilesInit PROVE FInv
  OBVIOUS
<1>1. kflags = {} /\ word = {} /\ stale = Bits
  BY DEF FilesInit
<1>2. 2 \in stale /\ 3 \in stale
  BY <1>1 DEF Bits
<1>3. FlagInv
  BY <1>1, <1>2, FlagsOfWord DEF FlagInv
<1> QED
  BY <1>1, <1>3 DEF FInv

(* The tables map bits to bits.                                            *)
LEMMA MapsBits ==
    ASSUME NEW f \in SUBSET Bits
    PROVE  MapFlags(f, FlSvr4ToLinux) \subseteq Bits /\ MapFlags(f, FlLinuxToSvr4) \subseteq Bits
<1>1. \A b \in Bits : FlSvr4ToLinux[b] \subseteq Bits /\ FlLinuxToSvr4[b] \subseteq Bits
  BY DEF Bits, FlSvr4ToLinux, FlLinuxToSvr4
<1> QED
  BY <1>1 DEF MapFlags

(* open and creat begin with a word that is stale.                         *)
LEMMA OpenedInv ==
    ASSUME NEW f \in SUBSET Bits, NEW linux \in SUBSET Bits, Opened(f, linux)
    PROVE  FInv'
<1>1. kflags' \subseteq Bits /\ word' \subseteq Bits /\ stale' = Bits
  BY DEF Opened, LinuxOpen
<1>2. 2 \in stale' /\ 3 \in stale'
  BY <1>1 DEF Bits
<1>3. 10 \in FlSvr4ToLinux[3] /\ 11 \in FlSvr4ToLinux[2]
  BY FlagTables DEF Bits
<1>4. FlagInv'
  BY <1>2, <1>3 DEF FlagInv
<1> QED
  BY <1>1, <1>4 DEF FInv

(* Every call on flags keeps the invariant.                                *)
LEMMA FlagNext ==
    ASSUME FInv, [FilesNext]_fileVars
    PROVE  FInv'
<1>0. FlagInv /\ kflags \subseteq Bits /\ word \subseteq Bits /\ stale \subseteq Bits
  BY DEF FInv
<1>1. CASE UNCHANGED flagVars
  BY <1>0, <1>1 DEF FInv, FlagInv, flagVars
<1>2. CASE LocksNext \/ LimitsNext \/ AttributesNext \/ AlarmsNext
  BY <1>1, <1>2, FlagFrame
<1>3. ASSUME NEW f \in {{}, {1}, {0, 3, 8}, {1, 2, 4}, {1, 7, 9}},
             Svr4Open(f) \/ SolOpen64(f)
      PROVE  FInv'
  <2>1. f \in SUBSET Bits /\ 15 \in Bits
    BY DEF Bits
  <2> QED
    BY <1>3, <2>1, MapsBits, OpenedInv DEF Svr4Open, SolOpen64
<1>4. CASE Uw7Creat64
  <2>1. {0, 8, 9} \in SUBSET Bits /\ {0, 6, 9, 15} \in SUBSET Bits
    BY DEF Bits
  <2> QED
    BY <1>4, <2>1, OpenedInv DEF Uw7Creat64
<1>5. 3 \in stale \/ (10 \in kflags <=> 3 \in word)
  BY <1>0, FlagsOfWord DEF FlagInv
<1>6. 2 \in stale \/ 7 \in stale \/ (11 \in kflags <=> 2 \in word \/ 7 \in word)
  BY <1>0, FlagsOfWord DEF FlagInv
<1>7. ASSUME /\ kflags' \subseteq Bits /\ word' \subseteq Bits /\ stale' \subseteq Bits
             /\ 3 \in stale' \/ (10 \in kflags' <=> 3 \in word')
             /\ \/ 2 \in stale' \/ 7 \in stale'
                \/ 11 \in kflags' <=> 2 \in word' \/ 7 \in word'
      PROVE  FInv'
  <2>1. 2 \in Bits /\ 3 \in Bits /\ 7 \in Bits
    BY DEF Bits
  <2>2. (\E b \in word' : 10 \in FlSvr4ToLinux[b]) <=> 3 \in word'
    BY <1>7, <2>1, FlagTables
  <2>3. (\E b \in word' : 11 \in FlSvr4ToLinux[b]) <=> (2 \in word' \/ 7 \in word')
    BY <1>7, <2>1, FlagTables
  <2>4. FlagInv'
    BY <1>7, <2>1, <2>2, <2>3, FlagTables DEF FlagInv
  <2> QED
    BY <1>7, <2>4 DEF FInv
<1>8. CASE Getfl
  <2>1. word' = MapFlags(kflags, FlLinuxToSvr4) /\ stale' = {} /\ kflags' = kflags
    BY <1>8 DEF Getfl
  <2>2. word' \subseteq Bits
    BY <1>0, <2>1, MapsBits
  <2>3. (3 \in word' <=> 10 \in kflags) /\ (2 \in word' <=> 11 \in kflags) /\ 7 \notin word'
    <3>1. \A b : b \in word' <=> \E k \in kflags : b \in FlLinuxToSvr4[k]
      BY <2>1 DEF MapFlags
    <3> QED
      BY <1>0, <3>1, FlagTables
  <2> QED
    BY <1>0, <1>7, <2>1, <2>2, <2>3
<1>9. CASE Setfl
  <2>1. /\ kflags' = (kflags \ Settable) \cup (MapFlags(word, FlSvr4ToLinux) \cap Settable)
        /\ word' = word /\ stale' = stale
    BY <1>9 DEF Setfl
  <2>2. \A k : k \in MapFlags(word, FlSvr4ToLinux) <=> \E b \in word : k \in FlSvr4ToLinux[b]
    BY DEF MapFlags
  <2>3. (10 \in kflags' <=> 3 \in word) /\ (11 \in kflags' <=> 2 \in word \/ 7 \in word)
    BY <1>0, <2>1, <2>2, FlagsOfWord DEF Settable
  <2>4. kflags' \subseteq Bits
    BY <1>0, <2>1, MapsBits
  <2> QED
    BY <1>0, <1>7, <2>1, <2>3, <2>4
<1>10. ASSUME NEW cmd \in {"FIOASYNC", "FIONBIO", "FIOCLEX"}, NEW on \in BOOLEAN,
              SvrFilIoctl(cmd, on)
       PROVE  FInv'
  <2>0. PICK bit : bit = CASE cmd = "FIOASYNC" -> {13} [] cmd = "FIONBIO" -> {11}
                           [] cmd \in {"FIOCLEX", "FIONCLEX"} -> {}
    OBVIOUS
  <2>1. /\ kflags' = IF on THEN kflags \cup bit ELSE kflags \ bit
        /\ stale' = IF cmd = "FIONBIO" THEN Bits ELSE stale
        /\ word' = word
    BY <1>10, <2>0 DEF SvrFilIoctl
  <2>2. bit \subseteq {11, 13} /\ (cmd # "FIONBIO" => 11 \notin bit)
    BY <2>0
  <2>3. 2 \in Bits /\ 3 \in Bits /\ 11 \in Bits /\ 13 \in Bits
    BY DEF Bits
  <2>4. kflags' \subseteq Bits /\ stale' \subseteq Bits
    BY <1>0, <2>1, <2>2, <2>3
  <2>5. cmd # "FIONBIO" => (10 \in kflags' <=> 10 \in kflags) /\ (11 \in kflags' <=> 11 \in kflags)
    BY <2>1, <2>2
  <2> QED
    BY <1>0, <1>5, <1>6, <1>7, <2>1, <2>3, <2>4, <2>5
<1>11. ASSUME NEW b \in {2, 3, 7}, Edit(b)
       PROVE  FInv'
  <2>1. /\ stale = {} /\ stale' = {b} /\ kflags' = kflags
        /\ word' \in {word \ {b}, word \cup {b}}
    BY <1>11 DEF Edit
  <2>2. b \in Bits
    BY DEF Bits
  <2>3. word' \subseteq Bits /\ stale' \subseteq Bits
    BY <1>0, <2>1, <2>2
  <2> QED
    BY <1>0, <1>5, <1>6, <1>7, <2>1, <2>3
<1> QED
  BY <1>1, <1>2, <1>3, <1>4, <1>8, <1>9, <1>10, <1>11
  DEF FilesNext, FlagsNext, fileVars

(* Reading the flags of a file, changing one and writing them back leaves  *)
(* the others that F_GETFL tells as they were, though the two tables of    *)
(* svr4_fcntl are not each other's inverse.                                *)
THEOREM FlagsKept == FilesSpec => SetflKeeps
<1> DEFINE Step ==
       Setfl /\ stale # Bits =>
         \A k \in {0, 1, 10, 11, 12} :
            (\A b \in stale : k \notin FlSvr4ToLinux[b]) => (k \in kflags' <=> k \in kflags)
<1>1. FilesInit => FInv
  BY FlagInit
<1>2. FInv /\ [FilesNext]_fileVars => FInv'
  BY FlagNext
<1>3. FInv /\ [FilesNext]_fileVars => [Step]_fileVars
  <2> SUFFICES ASSUME FInv, Setfl, NEW k \in {0, 1, 10, 11, 12},
                      \A b \in stale : k \notin FlSvr4ToLinux[b]
               PROVE  k \in kflags' <=> k \in kflags
    OBVIOUS
  <2>1. kflags' = (kflags \ Settable) \cup (MapFlags(word, FlSvr4ToLinux) \cap Settable)
    BY DEF Setfl
  <2>2. CASE k \in {0, 1, 12}
    BY <2>1, <2>2 DEF Settable
  <2>3. CASE k \in {10, 11}
    <3>1. k \in kflags <=> \E b \in word : k \in FlSvr4ToLinux[b]
      BY <2>3 DEF FInv, FlagInv
    <3>2. k \in MapFlags(word, FlSvr4ToLinux) <=> \E b \in word : k \in FlSvr4ToLinux[b]
      BY DEF MapFlags
    <3> QED
      BY <2>1, <2>3, <3>1, <3>2 DEF Settable
  <2> QED
    BY <2>2, <2>3
<1> QED
  BY <1>1, <1>2, <1>3, PTL DEF FilesSpec, SetflKeeps
-----------------------------------------------------------------------------
(* At the start nothing has been given.                                    *)
LEMMA SetInit == FilesInit => SetInv
<1> SUFFICES ASSUME FilesInit PROVE SetInv
  OBVIOUS
<1>1. gave = NoGift /\ gave.what = "none" /\ gave.value = 0 /\ seen = -1
  BY DEF FilesInit, NoGift
<1>2. klimit \in [cur : Nat, max : Nat]
  <2>1. CASE task = "limits"
    BY <2>1, FilesAssumption DEF FilesInit
  <2>2. CASE task # "limits"
    BY <2>2 DEF FilesInit
  <2> QED
    BY <2>1, <2>2
<1>3. SetTypesOK
  BY <1>1, <1>2, FilesAssumption DEF FilesInit, SetTypesOK, Clocks, NoGift
<1>4. Kept
  BY <1>1 DEF Kept, Clocks
<1> QED
  BY <1>1, <1>3, <1>4 DEF SetInv, GiftOfTask, SetIsTold

(* A limit in blocks survives being kept in bytes.                         *)
LEMMA BlocksKept ==
    ASSUME NEW v \in Nat
    PROVE  (v * BLOCK) \div BLOCK = v
BY FilesAssumption

(* The time of a file survives both shifts.                                *)
LEMMA TimeKept ==
    ASSUME NEW t \in Nat
    PROVE  Y2kRecv(t) \in Nat /\ Y2kSend(Y2kRecv(t)) = t
<1>1. FEB29 \in Nat
  BY FilesAssumption
<1> QED
  BY <1>1 DEF Y2kRecv, Y2kSend

(* Which minor numbers do.                                                 *)
LEMMA MinorsKept ==
    /\ \A m \in Nat, x \in BOOLEAN : Svr4Minor(m, x) \in Nat
    /\ Svr4Minor(0, FALSE) = 0 /\ Svr4Minor(8, FALSE) = 8
    /\ \A m \in Nat : Svr4Minor(m, TRUE) = 0
BY DEF Svr4Minor

(* The limits.                                                             *)
LEMMA LimitsInv ==
    ASSUME SetInv, LimitsNext
    PROVE  SetInv'
<1>0. /\ task = "limits" /\ task' = task /\ nodeVars' = nodeVars
  BY DEF LimitsNext, UlimitGet, Svr4Getrlimit, UlimitSet, UlimitRefused, Svr4Setrlimit,
         Uw7Setrlimit64
<1>1. SetTypesOK /\ GiftOfTask /\ Kept /\ SetIsTold
  BY DEF SetInv
<1>2. gave = NoGift \/ gave.what = "limit"
  BY <1>0, <1>1 DEF GiftOfTask, Gifts
<1>3. /\ gave.value \in Nat /\ klimit.cur \in Nat /\ klimit.max \in Nat
      /\ klimit \in [cur : Nat, max : Nat]
  BY <1>1 DEF SetTypesOK
<1>4. BLOCK \in Nat \ {0}
  BY FilesAssumption
<1>5. ASSUME gave' = gave, klimit' = klimit, seen' \in {-1, klimit.cur \div BLOCK}
      PROVE  SetInv'
  <2>1. seen' \in Int
    BY <1>3, <1>4, <1>5
  <2>2. SetTypesOK'
    BY <1>0, <1>1, <1>5, <2>1 DEF SetTypesOK, nodeVars
  <2>3. GiftOfTask' /\ Kept'
    <3>1. UNCHANGED <<y2kbug, node, timers>>
      BY <1>0 DEF nodeVars
    <3>2. \A t : Y2kRecv(t)' = Y2kRecv(t)
      BY <3>1 DEF Y2kRecv
    <3> QED
      BY <1>0, <1>1, <1>5, <3>1, <3>2 DEF GiftOfTask, Gifts, Kept
  <2>4. gave.what = "limit" => klimit.cur \div BLOCK = gave.value
    BY <1>1, <1>3, BlocksKept DEF Kept
  <2>5. SetIsTold'
    BY <1>2, <1>5, <2>4 DEF SetIsTold
  <2> QED
    BY <2>2, <2>3, <2>5 DEF SetInv
<1>6. ASSUME NEW val \in Nat, klimit' \in [cur : Nat, max : Nat], seen' = -1,
             klimit'.cur = val * BLOCK, gave' = [what |-> "limit", value |-> val]
      PROVE  SetInv'
  <2>1. SetTypesOK'
    BY <1>0, <1>1, <1>6 DEF SetTypesOK, nodeVars
  <2>2. GiftOfTask'
    BY <1>0, <1>6 DEF GiftOfTask, Gifts
  <2>3. Kept'
    BY <1>6 DEF Kept, Clocks
  <2>4. SetIsTold'
    BY <1>6 DEF SetIsTold
  <2> QED
    BY <2>1, <2>2, <2>3, <2>4 DEF SetInv
<1>7. CASE UlimitGet \/ Svr4Getrlimit
  BY <1>5, <1>7 DEF UlimitGet, Svr4Getrlimit, limitVars
<1>8. ASSUME NEW val, NEW capable, UlimitRefused(val, capable)
      PROVE  SetInv'
  BY <1>5, <1>8 DEF UlimitRefused, limitVars
<1>11. ASSUME NEW lim, Svr4Setrlimit(lim)
       PROVE  SetInv'
  BY <1>5, <1>11 DEF Svr4Setrlimit, limitVars
<1>9. ASSUME NEW val, NEW capable, UlimitSet(val, capable)
      PROVE  SetInv'
  <2>1. val \in Nat
    BY <1>9, FilesAssumption DEF UlimitSet
  <2>2. PICK lim \in Nat : lim = val * BLOCK
    BY <1>4, <2>1
  <2>3. PICK max \in Nat : max = IF lim > klimit.max THEN lim ELSE klimit.max
    BY <1>3, <2>2
  <2>4. /\ klimit' = [cur |-> lim, max |-> max]
        /\ gave' = [what |-> "limit", value |-> val] /\ seen' = -1
    BY <1>9, <2>2, <2>3 DEF UlimitSet
  <2>5. klimit' \in [cur : Nat, max : Nat] /\ klimit'.cur = val * BLOCK
    BY <2>2, <2>4
  <2> QED
    BY <1>6, <2>1, <2>4, <2>5
<1>10. ASSUME NEW lim \in Limits, Uw7Setrlimit64(lim)
       PROVE  SetInv'
  <2>1. CASE lim = 0
    <3>1. /\ klimit' = [cur |-> lim, max |-> lim] /\ seen' = -1
          /\ gave' = [what |-> "limit", value |-> lim]
      BY <1>10, <2>1 DEF Uw7Setrlimit64, Uw7CheckRlimit64
    <3>2. 0 * BLOCK = 0
      BY <1>4
    <3> QED
      BY <1>6, <2>1, <3>1, <3>2
  <2>2. CASE lim # 0
    BY <1>5, <1>10, <2>2 DEF Uw7Setrlimit64, Uw7CheckRlimit64, limitVars
  <2> QED
    BY <2>1, <2>2
<1> QED
  BY <1>7, <1>8, <1>9, <1>10, <1>11 DEF LimitsNext

(* The attributes of the file.                                             *)
LEMMA AttributesInv ==
    ASSUME SetInv, AttributesNext
    PROVE  SetInv'
<1>0. /\ task = "attributes" /\ task' = task
      /\ UNCHANGED <<klimit, y2kbug, timers, hcmd>>
  BY DEF AttributesNext, AbiUtime, Svr4Mknod, Grows, ReportSvr4Stat, ReportScoXstat,
         ReportUw7Stat64, ReportSolStat64, Tells, limitVars, nodeVars
<1>1. SetTypesOK /\ GiftOfTask /\ Kept /\ SetIsTold
  BY DEF SetInv
<1>2. gave = NoGift \/ gave.what \in {"time", "minor", "xminor"}
  BY <1>0, <1>1 DEF GiftOfTask, Gifts
<1>3. node \in [mtime : Nat, minor : Nat, size : Nat] /\ gave.value \in Nat
  BY <1>1 DEF SetTypesOK
<1>4. \A t : Y2kRecv(t)' = Y2kRecv(t)
  BY <1>0 DEF Y2kRecv
<1>5. ASSUME NEW t \in Times, AbiUtime(t)
      PROVE  SetInv'
  <2>1. /\ node' = [node EXCEPT !.mtime = Y2kRecv(t)] /\ seen' = -1
        /\ gave' = [what |-> "time", value |-> t]
    BY <1>5 DEF AbiUtime
  <2>2. t \in Nat /\ Y2kRecv(t) \in Nat
    BY FilesAssumption, TimeKept
  <2>3. SetTypesOK'
    BY <1>0, <1>1, <1>3, <2>1, <2>2 DEF SetTypesOK
  <2>4. GiftOfTask' /\ Kept'
    BY <1>0, <1>3, <1>4, <2>1 DEF GiftOfTask, Gifts, Kept, Clocks
  <2> QED
    BY <2>1, <2>3, <2>4 DEF SetInv, SetIsTold
<1>6. ASSUME NEW minor \in Minors, NEW x \in BOOLEAN, Svr4Mknod(minor, x)
      PROVE  SetInv'
  <2>0. PICK m : m = Svr4Minor(minor, x)
    OBVIOUS
  <2>1. /\ node' = [node EXCEPT !.minor = m] /\ seen' = -1
        /\ gave' = [what |-> IF x THEN "xminor" ELSE "minor", value |-> minor]
    BY <1>6, <2>0 DEF Svr4Mknod
  <2>2. minor \in Nat /\ m \in Nat
    BY <2>0, FilesAssumption, MinorsKept
  <2>3. SetTypesOK'
    BY <1>0, <1>1, <1>3, <2>1, <2>2 DEF SetTypesOK
  <2>4. GiftOfTask'
    BY <1>0, <2>1 DEF GiftOfTask, Gifts
  <2>5. Kept'
    <3>1. CASE x = TRUE
      <4>1. m = 0
        BY <2>0, <2>2, <3>1, MinorsKept
      <4> QED
        BY <1>3, <2>1, <3>1, <4>1 DEF Kept, Clocks
    <3>2. CASE x = FALSE
      BY <1>3, <2>0, <2>1, <3>2 DEF Kept, Clocks
    <3> QED
      BY <3>1, <3>2
  <2> QED
    BY <2>1, <2>3, <2>4, <2>5 DEF SetInv, SetIsTold
<1>7. ASSUME NEW size \in Sizes, Grows(size)
      PROVE  SetInv'
  <2>1. node' = [node EXCEPT !.size = size] /\ seen' = -1 /\ gave' = gave
    BY <1>7 DEF Grows
  <2>2. size \in Nat
    BY FilesAssumption
  <2>3. SetTypesOK'
    BY <1>0, <1>1, <1>3, <2>1, <2>2 DEF SetTypesOK
  <2>4. node'.mtime = node.mtime /\ node'.minor = node.minor
    BY <1>3, <2>1
  <2>5. GiftOfTask' /\ Kept'
    BY <1>0, <1>1, <1>4, <2>1, <2>4 DEF GiftOfTask, Gifts, Kept
  <2> QED
    BY <2>1, <2>3, <2>5 DEF SetInv, SetIsTold
<1>8. ASSUME NEW large \in BOOLEAN, Tells(large)
      PROVE  SetInv'
  <2>1. /\ gave # NoGift /\ gave' = gave /\ node' = node
        /\ seen' \in {-1, Y2kSend(node.mtime), node.minor}
        /\ gave.what = "time" => seen' \in {-1, Y2kSend(node.mtime)}
        /\ gave.what # "time" => seen' \in {-1, node.minor}
    <3>1. gave # NoGift /\ gave' = gave /\ node' = node
      BY <1>8 DEF Tells, nodeVars
    <3>2. PICK told : told = CASE ~large /\ node.size > MAX_NON_LFS -> -1
                               [] (large \/ node.size <= MAX_NON_LFS) /\ gave.what = "time" ->
                                     Y2kSend(node.mtime)
                               [] OTHER -> node.minor
      OBVIOUS
    <3>3. seen' = told
      BY <1>8, <3>2 DEF Tells
    <3>4. node.size > MAX_NON_LFS <=> ~(node.size <= MAX_NON_LFS)
      BY <1>3, FilesAssumption
    <3>5. CASE ~large /\ node.size > MAX_NON_LFS
      <4>1. told = -1
        BY <3>2, <3>4, <3>5
      <4> QED
        BY <3>1, <3>3, <4>1
    <3>6. CASE ~(~large /\ node.size > MAX_NON_LFS) /\ gave.what = "time"
      <4>1. told = Y2kSend(node.mtime)
        BY <3>2, <3>4, <3>6
      <4> QED
        BY <3>1, <3>3, <3>6, <4>1
    <3>7. CASE ~(~large /\ node.size > MAX_NON_LFS) /\ gave.what # "time"
      <4>1. told = node.minor
        BY <3>2, <3>7
      <4> QED
        BY <3>1, <3>3, <3>7, <4>1
    <3> QED
      BY <3>5, <3>6, <3>7
  <2>2. gave.what = "time" => seen' \in {-1, gave.value}
    BY <1>1, <1>3, <2>1, TimeKept DEF Kept
  <2>3. seen' \in Int
    BY <1>3, <2>1, <2>2
  <2>4. SetTypesOK'
    BY <1>0, <1>1, <2>1, <2>3 DEF SetTypesOK
  <2>5. GiftOfTask' /\ Kept'
    BY <1>0, <1>1, <1>4, <2>1 DEF GiftOfTask, Gifts, Kept
  <2>6. gave.what = "minor" /\ gave.value \in {0, 8} => seen' \in {-1, gave.value}
    BY <1>1, <2>1, MinorsKept DEF Kept
  <2>7. gave.what = "xminor" => seen' \in {-1, 0}
    BY <1>1, <2>1 DEF Kept
  <2>8. SetIsTold'
    <3>1. CASE gave.what = "time"
      BY <2>1, <2>2, <3>1 DEF SetIsTold
    <3>2. CASE gave.what = "minor"
      BY <2>1, <2>6, <3>2 DEF SetIsTold, Clocks
    <3>3. CASE gave.what = "xminor"
      BY <2>1, <2>7, <3>3 DEF SetIsTold, Clocks
    <3> QED
      BY <1>2, <2>1, <3>1, <3>2, <3>3
  <2> QED
    BY <2>4, <2>5, <2>8 DEF SetInv
<1> QED
  BY <1>5, <1>6, <1>7, <1>8
  DEF AttributesNext, ReportSvr4Stat, ReportScoXstat, ReportUw7Stat64, ReportSolStat64

(* The alarms.                                                             *)
LEMMA AlarmsInv ==
    ASSUME SetInv, AlarmsNext
    PROVE  SetInv'
<1>0. /\ task = "alarms" /\ task' = task
      /\ UNCHANGED <<klimit, y2kbug, node>>
  BY DEF AlarmsNext, FillHrtcmd, HrtAlarm, HrtInterval, HrtCancel, HrtLeft, SetItimer,
         limitVars
<1>1. SetTypesOK /\ GiftOfTask /\ Kept /\ SetIsTold
  BY DEF SetInv
<1>2. gave = NoGift \/ gave.what \in Clocks
  BY <1>0, <1>1 DEF GiftOfTask, Gifts
<1>3. /\ timers \in [Clocks -> [left : Nat, every : Nat]]
      /\ hcmd \in [w2 : Nat, w4 : Nat, w5 : Nat, w7 : Nat] /\ gave.value \in Nat
  BY <1>1 DEF SetTypesOK
<1>4. \A clk \in {1, 2, 4} : Which(clk) \in Clocks
  BY DEF Which, Clocks
<1>5. ASSUME NEW w2 \in {1, 2}, NEW w5 \in {1, 2}, FillHrtcmd(w2, w5)
      PROVE  SetInv'
  <2>1. /\ hcmd' = [w2 |-> w2, w4 |-> OK, w5 |-> w5, w7 |-> OK]
        /\ UNCHANGED <<gave, seen, timers>>
    BY <1>5 DEF FillHrtcmd, answerVars
  <2>2. SetTypesOK'
    BY <1>0, <1>1, <2>1 DEF SetTypesOK, OK
  <2>3. GiftOfTask' /\ Kept' /\ SetIsTold'
    BY <1>0, <1>1, <2>1 DEF GiftOfTask, Gifts, Kept, SetIsTold, Y2kRecv
  <2> QED
    BY <2>2, <2>3 DEF SetInv
<1>6. ASSUME NEW clk \in {1, 2, 4}, NEW left \in Nat, NEW every \in Nat,
             SetItimer(clk, left, every)
      PROVE  SetInv'
  <2>0. PICK w \in Clocks : w = Which(clk)
    BY <1>4
  <2>1. /\ timers' = [timers EXCEPT ![w] = [left |-> left, every |-> every]]
        /\ gave' = [what |-> w, value |-> every] /\ seen' = -1 /\ hcmd' = hcmd
    BY <1>6, <2>0 DEF SetItimer
  <2>2. /\ timers' \in [Clocks -> [left : Nat, every : Nat]]
        /\ timers'[w].every = every
    BY <1>3, <2>1
  <2>3. SetTypesOK'
    BY <1>0, <1>1, <2>1, <2>2 DEF SetTypesOK
  <2>4. GiftOfTask' /\ Kept'
    BY <1>0, <2>1, <2>2 DEF GiftOfTask, Gifts, Kept, Clocks
  <2> QED
    BY <2>1, <2>3, <2>4 DEF SetInv, SetIsTold
<1>7. ASSUME NEW clk \in {1, 2, 4}, HrtAlarm(clk) \/ HrtInterval(clk) \/ HrtCancel(clk)
      PROVE  SetInv'
  <2>1. hcmd.w2 \in Nat /\ hcmd.w5 \in Nat
    BY <1>3
  <2> QED
    BY <1>6, <1>7, <2>1 DEF HrtAlarm, HrtInterval, HrtCancel
<1>8. ASSUME NEW clk \in {1, 2, 4}, HrtLeft(clk)
      PROVE  SetInv'
  <2>0. PICK t : t = timers[Which(clk)]
    OBVIOUS
  <2>9. PICK w \in Clocks : w = Which(clk)
    BY <1>4
  <2>1. /\ hcmd' = [hcmd EXCEPT !.w2 = t.every, !.w4 = t.left, !.w5 = 0]
        /\ seen' = IF gave.what = w THEN hcmd'.w2 ELSE -1
        /\ UNCHANGED <<timers, gave>>
    BY <1>8, <2>0, <2>9 DEF HrtLeft
  <2>2. t.every \in Nat /\ t.left \in Nat
    BY <1>3, <2>0, <2>9
  <2>3. hcmd' \in [w2 : Nat, w4 : Nat, w5 : Nat, w7 : Nat] /\ hcmd'.w2 = t.every
    BY <1>3, <2>1, <2>2
  <2>4. SetTypesOK'
    BY <1>0, <1>1, <2>1, <2>2, <2>3 DEF SetTypesOK
  <2>5. GiftOfTask' /\ Kept'
    BY <1>0, <1>1, <2>1 DEF GiftOfTask, Gifts, Kept, Y2kRecv
  <2>6. gave.what = w => seen' = gave.value
    BY <1>1, <2>0, <2>1, <2>3, <2>9 DEF Kept
  <2>7. SetIsTold'
    BY <1>2, <2>1, <2>6 DEF SetIsTold
  <2> QED
    BY <2>4, <2>5, <2>7 DEF SetInv
<1> QED
  BY <1>5, <1>7, <1>8 DEF AlarmsNext

(* For every limit, block size and time, and whatever calls come between:  *)
(* the limit that ulimit or uw7_setrlimit64 set, the interval of the clock *)
(* that was set last and the time of a file are told as they were set; and *)
(* of minor numbers 0, and 8 given to mknod.  svr4_setrlimit sets nothing, *)
(* and every other minor number is lost: about these nothing is said.      *)
THEOREM ToldWhatWasSet == FilesSpec => []SetIsTold
<1>1. FilesInit => SetInv
  BY SetInit
<1>2. SetInv /\ [FilesNext]_fileVars => SetInv'
  <2> SUFFICES ASSUME SetInv, [FilesNext]_fileVars PROVE SetInv'
    OBVIOUS
  <2>1. CASE UNCHANGED <<task, limitVars, nodeVars, answerVars>>
    BY <2>1 DEF limitVars, nodeVars, answerVars, SetInv, SetTypesOK, GiftOfTask, Gifts,
                Kept, SetIsTold, Y2kRecv
  <2>2. CASE FlagsNext \/ LocksNext
    BY <2>1, <2>2, SetFrame
  <2> QED
    BY <2>1, <2>2, LimitsInv, AttributesInv, AlarmsInv DEF FilesNext, fileVars
<1>3. SetInv => SetIsTold
  BY DEF SetInv
<1> QED
  BY <1>1, <1>2, <1>3, PTL DEF FilesSpec
-----------------------------------------------------------------------------
(* Listings of a directory: the places told by a sequence of records, and  *)
(* that they ascend.                                                       *)
Records == [at : Nat, ino : Int]
Entries == [len : Nat \ {0}, ino : Nat]
At(s) == {s[i].at : i \in DOMAIN s}
Ascends(s) == \A i \in 1 .. Len(s) - 1 : s[i].at < s[i + 1].at

(* Records appended to others.                                             *)
LEMMA Joined ==
    ASSUME NEW s \in Seq(Records), NEW r \in Seq(Records), NEW u, u = s \o r,
           Ascends(s), Ascends(r), \A a \in At(s), b \in At(r) : a < b
    PROVE  u \in Seq(Records) /\ At(u) = At(s) \cup At(r) /\ Ascends(u)
<1>0. Len(s) \in Nat /\ Len(r) \in Nat /\ DOMAIN s = 1 .. Len(s) /\ DOMAIN r = 1 .. Len(r)
  OBVIOUS
<1>1. /\ u \in Seq(Records) /\ Len(u) = Len(s) + Len(r) /\ DOMAIN u = 1 .. Len(u)
      /\ \A i \in 1 .. Len(u) : u[i] = IF i <= Len(s) THEN s[i] ELSE r[i - Len(s)]
  BY ConcatProperties
<1>2. At(u) \subseteq At(s) \cup At(r)
  <2> SUFFICES ASSUME NEW i \in 1 .. Len(u) PROVE u[i].at \in At(s) \cup At(r)
    BY <1>1 DEF At
  <2>1. CASE i <= Len(s)
    BY <1>0, <1>1, <2>1 DEF At
  <2>2. CASE ~(i <= Len(s))
    <3>1. i - Len(s) \in 1 .. Len(r)
      BY <1>0, <1>1, <2>2
    <3> QED
      BY <1>0, <1>1, <2>2, <3>1 DEF At
  <2> QED
    BY <2>1, <2>2
<1>3. At(s) \subseteq At(u)
  <2> SUFFICES ASSUME NEW i \in 1 .. Len(s) PROVE s[i].at \in At(u)
    BY <1>0 DEF At
  <2>1. i \in 1 .. Len(u) /\ u[i] = s[i]
    BY <1>0, <1>1
  <2> QED
    BY <1>1, <2>1 DEF At
<1>4. At(r) \subseteq At(u)
  <2> SUFFICES ASSUME NEW i \in 1 .. Len(r) PROVE r[i].at \in At(u)
    BY <1>0 DEF At
  <2>1. PICK j : j = i + Len(s)
    OBVIOUS
  <2>2. j \in 1 .. Len(u) /\ ~(j <= Len(s)) /\ j - Len(s) = i
    BY <1>0, <1>1, <2>1
  <2> QED
    BY <1>1, <2>2 DEF At
<1>5. Ascends(u)
  <2> SUFFICES ASSUME NEW i \in 1 .. Len(u) - 1 PROVE u[i].at < u[i + 1].at
    BY DEF Ascends
  <2>1. i \in 1 .. Len(u) /\ i + 1 \in 1 .. Len(u)
    BY <1>0, <1>1
  <2>2. CASE i + 1 <= Len(s)
    <3>1. i \in 1 .. Len(s) - 1 /\ i <= Len(s)
      BY <1>0, <2>1, <2>2
    <3> QED
      BY <1>1, <2>1, <2>2, <3>1 DEF Ascends
  <2>3. CASE i = Len(s)
    <3>1. i <= Len(s) /\ ~(i + 1 <= Len(s)) /\ (i + 1) - Len(s) = 1 /\ 1 \in 1 .. Len(r)
          /\ i \in 1 .. Len(s)
      BY <1>0, <1>1, <2>1, <2>3
    <3>2. u[i] = s[i] /\ u[i + 1] = r[1]
      BY <1>1, <2>1, <3>1
    <3>3. s[i].at \in At(s) /\ r[1].at \in At(r)
      BY <1>0, <3>1 DEF At
    <3> QED
      BY <3>2, <3>3
  <2>4. CASE i > Len(s)
    <3>1. PICK j : j = i - Len(s)
      OBVIOUS
    <3>2. /\ j \in 1 .. Len(r) - 1 /\ (i + 1) - Len(s) = j + 1
          /\ ~(i <= Len(s)) /\ ~(i + 1 <= Len(s))
      BY <1>0, <1>1, <2>1, <2>4, <3>1
    <3>3. u[i] = r[j] /\ u[i + 1] = r[j + 1]
      BY <1>1, <2>1, <3>1, <3>2
    <3> QED
      BY <3>2, <3>3 DEF Ascends
  <2>5. i + 1 <= Len(s) \/ i = Len(s) \/ i > Len(s)
    <3>1. Len(u) \in Nat
      BY <1>0, <1>1
    <3>2. i \in Int
      BY <3>1
    <3>3. \A a \in Int, b \in Nat : a + 1 <= b \/ a = b \/ a > b
      OBVIOUS
    <3> QED
      BY <1>0, <3>2, <3>3
  <2> QED
    BY <2>2, <2>3, <2>4, <2>5
<1> QED
  BY <1>1, <1>2, <1>3, <1>4, <1>5

(* Natural numbers of which there are some have a least, and bounded ones  *)
(* a greatest.                                                             *)
LEMMA LeastOf ==
    ASSUME NEW S \in SUBSET Nat, S # {}
    PROVE  \E x \in S : \A y \in S : x <= y
<1>1. IsWellFoundedOn(OpToRel(<, Nat), Nat)
  BY NatLessThanWellFounded
<1>2. PICK x \in S : \A y \in S : ~(<<y, x>> \in OpToRel(<, Nat))
  BY <1>1, WFMin
<1>3. \A y \in S : ~(y < x)
  BY <1>2 DEF OpToRel
<1> QED
  BY <1>3

(* The greatest is the one with the least distance from the bound.         *)
LEMMA GreatestOf ==
    ASSUME NEW m \in Nat, NEW S \in SUBSET (0 .. m), S # {}
    PROVE  \E x \in S : \A y \in S : y <= x
<1>0. PICK T : T = {m - x : x \in S}
  OBVIOUS
<1>1. T \in SUBSET Nat /\ T # {}
  <2>1. \A x \in S : m - x \in Nat
    OBVIOUS
  <2> QED
    BY <1>0, <2>1
<1>2. PICK t \in T : \A u \in T : t <= u
  BY <1>1, LeastOf
<1>3. PICK x \in S : t = m - x
  BY <1>0, <1>2
<1>4. \A y \in S : m - x <= m - y
  BY <1>0, <1>2, <1>3
<1> QED
  BY <1>4

(* Sizes add up: the recursive function by which Linux fills a buffer      *)
(* exists, for there would be a least number of entries for which it does  *)
(* not.                                                                    *)
IsSum(f, g, m) ==
    /\ f \in [0 .. m -> Nat] /\ f[0] = 0
    /\ \A n \in 1 .. m : f[n] = f[n - 1] + g[n]

(* There is such a function.                                               *)
LEMMA SumExists ==
    ASSUME NEW m \in Nat, NEW g \in [1 .. m -> Nat]
    PROVE  \E f : IsSum(f, g, m)
<1>0. PICK Bad : Bad = {n \in 0 .. m : ~\E f : IsSum(f, g, n)}
  OBVIOUS
<1> SUFFICES ASSUME Bad # {} PROVE FALSE
  <2>1. m \in 0 .. m
    OBVIOUS
  <2> QED
    BY <1>0, <2>1
<1>12. Bad \in SUBSET Nat
  BY <1>0
<1>1. PICK n \in Bad : \A k \in Bad : n <= k
  BY <1>12, LeastOf
<1>2. n \in 0 .. m /\ ~\E f : IsSum(f, g, n)
  BY <1>0, <1>1
<1>3. n # 0
  <2>1. IsSum([k \in 0 .. 0 |-> 0], g, 0)
    BY DEF IsSum
  <2> QED
    BY <1>2, <2>1
<1>4. n - 1 \in 0 .. m /\ ~(n <= n - 1) /\ n \in 1 .. m
  BY <1>2, <1>3
<1>5. PICK f : IsSum(f, g, n - 1)
  BY <1>0, <1>1, <1>4
<1>6. PICK h : h = [k \in 0 .. n |-> IF k = n THEN f[n - 1] + g[n] ELSE f[k]]
  OBVIOUS
<1>7. f \in [0 .. n - 1 -> Nat] /\ f[0] = 0 /\ \A k \in 1 .. n - 1 : f[k] = f[k - 1] + g[k]
  BY <1>5 DEF IsSum
<1>8. h \in [0 .. n -> Nat]
  <2>1. f[n - 1] \in Nat /\ g[n] \in Nat
    BY <1>4, <1>7
  <2>2. ASSUME NEW k \in 0 .. n, k # n PROVE f[k] \in Nat
    BY <1>4, <1>7, <2>2
  <2> QED
    BY <1>6, <2>1, <2>2
<1>9. h[0] = 0
  BY <1>4, <1>6, <1>7
<1>10. ASSUME NEW k \in 1 .. n PROVE h[k] = h[k - 1] + g[k]
  <2>1. k - 1 \in 0 .. n /\ k - 1 # n /\ k \in 0 .. n
    BY <1>4
  <2>2. h[k - 1] = f[k - 1]
    BY <1>6, <2>1
  <2>3. CASE k = n
    BY <1>6, <2>1, <2>2, <2>3
  <2>4. CASE k # n
    <3>1. k \in 1 .. n - 1
      BY <1>4, <2>4
    <3> QED
      BY <1>6, <1>7, <2>1, <2>2, <2>4, <3>1
  <2> QED
    BY <2>3, <2>4
<1>11. IsSum(h, g, n)
  BY <1>8, <1>9, <1>10 DEF IsSum
<1> QED
  BY <1>2, <1>11

(* An entry takes room.                                                    *)
LEMMA ScoSizePositive ==
    ASSUME NEW len \in Nat \ {0}
    PROVE  ScoSize(len) \in Nat \ {0}
BY DEF ScoSize

(* Linux's getdents: as many entries as there are, or fewer, and none that *)
(* take no room; it is told that nothing is left only at the end.          *)
LEMMA Filled ==
    ASSUME dir \in Seq(Entries), pos \in 0 .. Len(dir), NEW count \in Nat,
           NEW fill, fill = LinuxFill(count)
    PROVE  /\ fill.n \in 0 .. Len(dir) - pos
           /\ fill.bytes = 0 => pos + fill.n = Len(dir)
<1>0. PICK m : m = Len(dir) - pos
  OBVIOUS
<1>1. m \in Nat /\ Len(dir) \in Nat /\ pos \in Nat /\ Len(dir) = pos + m
  BY <1>0
<1>2. PICK g : g = [n \in 1 .. m |-> ScoSize(dir[pos + n].len)]
  OBVIOUS
<1>3. \A n \in 1 .. m : g[n] = ScoSize(dir[pos + n].len) /\ g[n] \in Nat \ {0}
  <2> SUFFICES ASSUME NEW n \in 1 .. m PROVE ScoSize(dir[pos + n].len) \in Nat \ {0}
    BY <1>2
  <2>1. pos + n \in 1 .. Len(dir)
    BY <1>1
  <2>2. dir[pos + n] \in Entries
    BY <2>1
  <2> QED
    BY <2>2, ScoSizePositive DEF Entries
<1>4. PICK f : IsSum(f, g, m)
  <2>1. g \in [1 .. m -> Nat]
    BY <1>2, <1>3
  <2> QED
    BY <1>1, <2>1, SumExists
<1> DEFINE Sum(size) == [n \in 0 .. m |-> IF n = 0 THEN 0
                                         ELSE size[n - 1] + ScoSize(dir[pos + n].len)]
<1>5. f = Sum(f)
  <2>1. f \in [0 .. m -> Nat]
    BY <1>4 DEF IsSum
  <2>2. ASSUME NEW n \in 0 .. m
        PROVE  f[n] = IF n = 0 THEN 0 ELSE f[n - 1] + ScoSize(dir[pos + n].len)
    <3>1. CASE n = 0
      BY <1>4, <3>1 DEF IsSum
    <3>2. CASE n # 0
      <4>1. n \in 1 .. m
        BY <3>2
      <4> QED
        BY <1>3, <1>4, <3>2, <4>1 DEF IsSum
    <3> QED
      BY <3>1, <3>2
  <2> QED
    BY <2>1, <2>2
<1>6. PICK size : size = CHOOSE h : h = Sum(h)
  OBVIOUS
<1>7. size = Sum(size)
  BY <1>5, <1>6
<1>8. \A n \in 0 .. m : size[n] = IF n = 0 THEN 0
                                  ELSE size[n - 1] + ScoSize(dir[pos + n].len)
  BY <1>7
<1>9. PICK fit : fit = {n \in 0 .. m : size[n] <= count}
  OBVIOUS
<1>10. PICK n : n = CHOOSE k \in fit : \A j \in fit : j <= k
  OBVIOUS
<1>11. fill = [n |-> n, bytes |-> IF n = 0 /\ pos < Len(dir) THEN -1 ELSE size[n]]
  BY <1>0, <1>6, <1>9, <1>10 DEF LinuxFill
<1> HIDE DEF Sum
<1>12. 0 \in fit /\ size[0] = 0
  <2>1. 0 \in 0 .. m
    BY <1>1
  <2> QED
    BY <1>8, <1>9, <2>1
<1>13. n \in fit
  <2>1. fit \in SUBSET (0 .. m) /\ fit # {}
    BY <1>9, <1>12
  <2>2. \E k \in fit : \A j \in fit : j <= k
    BY <1>1, <2>1, GreatestOf
  <2> QED
    BY <1>10, <2>2
<1>14. \A k \in 0 .. m : size[k] \in Nat
  <2>0. PICK Bad : Bad = {k \in 0 .. m : size[k] \notin Nat}
    OBVIOUS
  <2> SUFFICES ASSUME Bad # {} PROVE FALSE
    BY <2>0
  <2>1. Bad \in SUBSET Nat
    BY <2>0
  <2>2. PICK k \in Bad : \A j \in Bad : k <= j
    BY <2>1, LeastOf
  <2>3. k \in 0 .. m /\ size[k] \notin Nat
    BY <2>0, <2>2
  <2>4. k # 0
    BY <1>12, <2>3
  <2>5. k \in 1 .. m /\ k - 1 \in 0 .. m /\ ~(k <= k - 1)
    BY <1>1, <2>3, <2>4
  <2>6. size[k - 1] \in Nat
    BY <2>0, <2>2, <2>5
  <2>7. size[k] = size[k - 1] + g[k] /\ g[k] \in Nat
    BY <1>3, <1>8, <2>3, <2>4, <2>5
  <2> QED
    BY <2>3, <2>6, <2>7
<1>15. n \in 0 .. m /\ n \in Nat
  BY <1>9, <1>13
<1>16. CASE n = 0
  BY <1>0, <1>1, <1>11, <1>12, <1>15, <1>16
<1>17. CASE n # 0
  <2>1. n \in 1 .. m /\ n - 1 \in 0 .. m
    BY <1>1, <1>15, <1>17
  <2>2. size[n] = size[n - 1] + g[n] /\ g[n] \in Nat \ {0} /\ size[n - 1] \in Nat
    BY <1>3, <1>8, <1>14, <1>15, <1>17, <2>1
  <2>3. size[n] # 0
    BY <2>2
  <2> QED
    BY <1>0, <1>11, <1>15, <1>17, <2>3
<1> QED
  BY <1>16, <1>17

(* The invariant of a listing by read() or SCO's getdents.  During a       *)
(* read() that has stored nothing no record length is left over from an    *)
(* earlier entry, so that such a call goes on to the end.                  *)
DirTypes ==
    /\ dir \in Seq(Entries) /\ pos \in 0 .. Len(dir) /\ got \in Seq(Records)
    /\ listing.posn \in Nat /\ listing.reclen \in Nat /\ listing.count \in Nat
    /\ listing \in [posn : Nat, reclen : Nat, count : Nat, filled : {<<>>}]
InOrder ==
    /\ At(got) \cup skipped = 1 .. pos /\ At(got) \cap skipped = {}
    /\ Ascends(got)
EndIsEnd ==
    IF Idle THEN answer = 0 /\ pos > 0 => pos = Len(dir)
    ELSE /\ method = "read" /\ listing.count > 0
         /\ listing.posn = 0 => listing.reclen = 0
DirInv == method \in {"read", "sco"} => DirTypes /\ InOrder /\ EndIsEnd

(* The empty listing.                                                      *)
LEMMA NothingYet ==
    <<>> \in Seq(Records) /\ At(<<>>) = {} /\ Ascends(<<>>)
BY DEF At, Ascends

(* A directory is a sequence of entries.                                   *)
LEMMA WholeIsSeq == Whole \subseteq Seq(Entries)
<1> SUFFICES ASSUME NEW d \in Whole PROVE d \in Seq(Entries)
  OBVIOUS
<1>1. PICK n \in 0 .. MaxEntries : d \in [1 .. n -> [len : NameLens, ino : Inos]]
  BY DEF Whole
<1>2. n \in Nat
  BY DirectoryAssumption
<1>3. \A i \in 1 .. n : d[i] \in Entries
  <2>1. NameLens \subseteq Nat \ {0} /\ Inos \subseteq 1 .. USHRT_MAX
    BY DirectoryAssumption
  <2>2. USHRT_MAX \in Nat
    BY DEF USHRT_MAX
  <2>3. Inos \subseteq Nat
    BY <2>1, <2>2
  <2> QED
    BY <1>1, <2>1, <2>3 DEF Entries
<1>4. d \in [1 .. n -> Entries]
  BY <1>1, <1>3
<1> QED
  BY <1>2, <1>4, SeqDef

(* It holds before the first call.                                         *)
LEMMA DirInit == DirectoryInit => DirInv
<1> SUFFICES ASSUME DirectoryInit PROVE DirTypes /\ InOrder /\ EndIsEnd
  BY DEF DirInv
<1>1. /\ dir \in Seq(Entries) /\ pos = 0 /\ listing = NoListing /\ got = <<>>
      /\ skipped = {} /\ answer = 1
  BY WholeIsSeq DEF DirectoryInit
<1>2. DirTypes
  <2>1. Len(dir) \in Nat
    BY <1>1
  <2> QED
    BY <1>1, <2>1, NothingYet DEF DirTypes, NoListing
<1>3. InOrder
  BY <1>1, NothingYet DEF InOrder
<1> QED
  BY <1>1, <1>2, <1>3 DEF EndIsEnd, Idle

(* Every step of a call keeps it.                                          *)
LEMMA DirNext ==
    ASSUME DirInv, [DirectoryNext]_directoryVars
    PROVE  DirInv'
<1>0. method' = method /\ dir' = dir
  BY DEF DirectoryNext, AbiRead, Svr4Getdents, ScoGetdents, SolGetdents64, ReadStore,
         ReadBackOff, ReadSkip, ReadReturn, Svr4Filldir, Svr4FilldirFull,
         Svr4GetdentsReturn, Rewind, directoryVars
<1> SUFFICES ASSUME method \in {"read", "sco"} PROVE DirTypes' /\ InOrder' /\ EndIsEnd'
  BY <1>0 DEF DirInv
<1>1. DirTypes /\ InOrder /\ EndIsEnd
  BY DEF DirInv
<1>2. /\ dir \in Seq(Entries) /\ pos \in 0 .. Len(dir) /\ got \in Seq(Records)
      /\ listing.posn \in Nat /\ listing.reclen \in Nat /\ listing.count \in Nat
      /\ listing \in [posn : Nat, reclen : Nat, count : Nat, filled : {<<>>}]
      /\ Len(dir) \in Nat /\ pos \in Nat
  BY <1>1 DEF DirTypes
<1>3. At(got) \cup skipped = 1 .. pos /\ At(got) \cap skipped = {} /\ Ascends(got)
  BY <1>1 DEF InOrder
<1>4. CASE UNCHANGED directoryVars
  BY <1>1, <1>4 DEF directoryVars, DirTypes, InOrder, EndIsEnd, Idle
<1>5. ASSUME NEW count \in Counts, AbiRead(count)
      PROVE  DirTypes' /\ InOrder' /\ EndIsEnd'
  <2>1. /\ method = "read" /\ count > 0 /\ count \in Nat
        /\ listing' = [posn |-> 0, reclen |-> 0, count |-> count, filled |-> <<>>]
        /\ UNCHANGED <<pos, got, skipped>>
    BY <1>5, DirectoryAssumption DEF AbiRead, Listing, NoListing
  <2>2. listing' # NoListing
    <3>1. listing'.count # NoListing.count
      BY <2>1 DEF NoListing
    <3> QED
      BY <3>1
  <2>3. DirTypes' /\ InOrder'
    BY <1>0, <1>2, <1>3, <2>1 DEF DirTypes, InOrder
  <2> QED
    BY <1>0, <2>1, <2>2, <2>3 DEF EndIsEnd, Idle
<1>6. ASSUME Looping
      PROVE  method = "read" /\ ~Idle /\ listing.count > 0
             /\ (listing.posn = 0 => listing.reclen = 0)
  BY <1>1, <1>6 DEF Looping, EndIsEnd
<1>7. ASSUME NEW e, listing' = e, e \in [posn : Nat, reclen : Nat, count : Nat, filled : {<<>>}],
             Looping, e.count = listing.count, e.posn = 0 => e.reclen = 0
      PROVE  EndIsEnd'
  <2>1. listing' # NoListing
    <3>1. e.count # NoListing.count
      BY <1>2, <1>6, <1>7 DEF NoListing
    <3> QED
      BY <1>7, <3>1
  <2> QED
    BY <1>0, <1>6, <1>7, <2>1 DEF EndIsEnd, Idle
<1>8. ASSUME NEW stale_ \in Stale, ReadStore(stale_)
      PROVE  DirTypes' /\ InOrder' /\ EndIsEnd'
  <2>0. PICK reclen, r : /\ reclen = ReadSize(NextEntry.len)
                         /\ r = [at |-> pos + 1, ino |-> InoStored(NextEntry.ino, stale_)]
    OBVIOUS
  <2>1. /\ Looping /\ pos < Len(dir) /\ pos' = pos + 1
        /\ listing' = [listing EXCEPT !.posn = @ + reclen, !.reclen = reclen]
        /\ got' = Append(got, r) /\ skipped' = skipped
    BY <1>8, <2>0 DEF ReadStore
  <2>2. NextEntry \in Entries
    BY <1>2, <2>1 DEF NextEntry
  <2>3. reclen \in Nat \ {0}
    BY <2>0, <2>2 DEF Entries, ReadSize
  <2>4. r \in Records /\ r.at = pos + 1
    <3>1. NextEntry.ino \in Nat
      BY <2>2 DEF Entries
    <3>3. stale_ \in Nat
      BY DirectoryAssumption
    <3>2. InoStored(NextEntry.ino, stale_) \in Int
      BY <3>1, <3>3 DEF InoStored
    <3> QED
      BY <1>2, <2>0, <3>2 DEF Records
  <2>5. PICK one : one = <<r>>
    OBVIOUS
  <2>6. one \in Seq(Records) /\ At(one) = {pos + 1} /\ Ascends(one)
    BY <2>4, <2>5 DEF At, Ascends
  <2>7. got' = got \o one
    BY <1>2, <2>1, <2>4, <2>5
  <2>8. \A a \in At(got), b \in At(one) : a < b
    BY <1>2, <1>3, <2>6
  <2>9. got' \in Seq(Records) /\ At(got') = At(got) \cup {pos + 1} /\ Ascends(got')
    <3>1. got \in Seq(Records) /\ one \in Seq(Records) /\ Ascends(got) /\ Ascends(one)
      BY <1>2, <1>3, <2>6
    <3>2. got' \in Seq(Records) /\ At(got') = At(got) \cup At(one) /\ Ascends(got')
      BY <2>7, <2>8, <3>1, Joined
    <3> QED
      BY <2>6, <3>2
  <2>10. InOrder'
    <3>1. 1 .. pos + 1 = (1 .. pos) \cup {pos + 1} /\ pos + 1 \notin skipped
      BY <1>2, <1>3
    <3> QED
      BY <1>3, <2>1, <2>9, <3>1 DEF InOrder
  <2>11. /\ listing' \in [posn : Nat, reclen : Nat, count : Nat, filled : {<<>>}]
         /\ listing'.count = listing.count /\ listing'.posn # 0
    <3>1. PICK q : q = listing.posn + reclen
      OBVIOUS
    <3>2. q \in Nat /\ q # 0
      BY <1>2, <2>3, <3>1
    <3>3. listing' = [listing EXCEPT !.posn = q, !.reclen = reclen]
      BY <2>1, <3>1
    <3>4. PICK c \in Nat : c = listing.count
      BY <1>2
    <3>5. listing' = [posn |-> q, reclen |-> reclen, count |-> c, filled |-> <<>>]
      BY <1>2, <3>3, <3>4
    <3>6. reclen \in Nat
      BY <2>3
    <3> QED
      BY <3>2, <3>4, <3>5, <3>6
  <2>12. DirTypes'
    <3>1. pos' \in 0 .. Len(dir)
      BY <1>2, <2>1
    <3> QED
      BY <1>0, <1>2, <2>9, <2>11, <3>1 DEF DirTypes
  <2>13. EndIsEnd'
    BY <1>7, <2>1, <2>11
  <2> QED
    BY <2>10, <2>12, <2>13
<1>9. CASE ReadBackOff
  <2>0. PICK reclen : reclen = ReadSize(NextEntry.len)
    OBVIOUS
  <2>1. /\ Looping /\ pos < Len(dir) /\ listing.posn > 0
        /\ listing' = [listing EXCEPT !.reclen = reclen]
        /\ UNCHANGED <<pos, got, skipped>>
    BY <1>9, <2>0 DEF ReadBackOff
  <2>2. NextEntry \in Entries
    BY <1>2, <2>1 DEF NextEntry
  <2>3. reclen \in Nat
    BY <2>0, <2>2 DEF Entries, ReadSize
  <2>4. /\ listing' \in [posn : Nat, reclen : Nat, count : Nat, filled : {<<>>}]
        /\ listing'.count = listing.count /\ listing'.posn # 0
    BY <1>2, <2>1, <2>3
  <2>5. DirTypes' /\ InOrder'
    BY <1>0, <1>2, <1>3, <2>1, <2>4 DEF DirTypes, InOrder
  <2>6. EndIsEnd'
    BY <1>7, <2>1, <2>4
  <2> QED
    BY <2>5, <2>6
<1>10. CASE ReadSkip
  <2>1. /\ Looping /\ pos < Len(dir) /\ pos' = pos + 1 /\ skipped' = skipped \cup {pos + 1}
        /\ listing' = [listing EXCEPT !.reclen = 0] /\ got' = got
    BY <1>10 DEF ReadSkip
  <2>2. /\ listing' \in [posn : Nat, reclen : Nat, count : Nat, filled : {<<>>}]
        /\ listing'.count = listing.count /\ listing'.reclen = 0
    BY <1>2, <2>1
  <2>3. DirTypes'
    BY <1>0, <1>2, <2>1, <2>2 DEF DirTypes
  <2>4. InOrder'
    <3>1. 1 .. pos + 1 = (1 .. pos) \cup {pos + 1} /\ pos + 1 \notin At(got)
      BY <1>2, <1>3
    <3> QED
      BY <1>3, <2>1, <3>1 DEF InOrder
  <2>5. EndIsEnd'
    BY <1>7, <2>1, <2>2
  <2> QED
    BY <2>3, <2>4, <2>5
<1>11. CASE ReadReturn
  <2>1. /\ method = "read" /\ ~Idle /\ (~Looping \/ pos = Len(dir))
        /\ answer' = listing.posn /\ listing' = NoListing
        /\ UNCHANGED <<pos, got, skipped>>
    BY <1>11 DEF ReadReturn, Return
  <2>2. DirTypes' /\ InOrder'
    BY <1>0, <1>2, <1>3, <2>1 DEF DirTypes, InOrder, NoListing
  <2>3. listing.count > 0 /\ (listing.posn = 0 => listing.reclen = 0)
    BY <1>1, <2>1 DEF EndIsEnd
  <2>4. listing.posn = 0 => pos = Len(dir)
    BY <1>2, <2>1, <2>3 DEF Looping
  <2> QED
    BY <1>0, <2>1, <2>2, <2>4 DEF EndIsEnd, Idle
<1>12. ASSUME NEW count \in Counts, ScoGetdents(count)
       PROVE  DirTypes' /\ InOrder' /\ EndIsEnd'
  <2>0. PICK fill, r, n : /\ fill = LinuxFill(count) /\ n = fill.n
                          /\ r = [i \in 1 .. n |-> [at |-> pos + i, ino |-> dir[pos + i].ino]]
    OBVIOUS
  <2>1. /\ Idle /\ pos' = pos + n /\ got' = got \o r /\ answer' = fill.bytes
        /\ UNCHANGED <<listing, skipped>>
    BY <1>12, <2>0 DEF ScoGetdents
  <2>2. n \in 0 .. Len(dir) - pos /\ (fill.bytes = 0 => pos + n = Len(dir))
    <3>1. count \in Nat
      BY DirectoryAssumption
    <3> QED
      BY <1>2, <2>0, <3>1, Filled
  <2>3. n \in Nat /\ pos + n \in 0 .. Len(dir)
    BY <1>2, <2>2
  <2>4. \A i \in 1 .. n : r[i] \in Records /\ r[i].at = pos + i
    <3> SUFFICES ASSUME NEW i \in 1 .. n PROVE r[i] \in Records /\ r[i].at = pos + i
      OBVIOUS
    <3>1. pos + i \in 1 .. Len(dir)
      BY <1>2, <2>3
    <3>2. dir[pos + i] \in Entries
      BY <1>2, <3>1
    <3> QED
      BY <1>2, <2>0, <3>2 DEF Records, Entries
  <2>5. r \in Seq(Records) /\ Len(r) = n /\ DOMAIN r = 1 .. n
    <3>1. r \in [1 .. n -> Records]
      BY <2>0, <2>4
    <3> QED
      BY <2>3, <3>1, SeqDef
  <2>6. Ascends(r)
    <3> SUFFICES ASSUME NEW i \in 1 .. n - 1 PROVE r[i].at < r[i + 1].at
      BY <2>5 DEF Ascends
    <3>1. i \in 1 .. n /\ i + 1 \in 1 .. n
      BY <2>3
    <3>2. r[i].at = pos + i /\ r[i + 1].at = pos + (i + 1)
      BY <2>4, <3>1
    <3> QED
      BY <1>2, <3>1, <3>2
  <2>7. At(r) = pos + 1 .. pos + n
    <3>1. At(r) \subseteq pos + 1 .. pos + n
      BY <1>2, <2>3, <2>4, <2>5 DEF At
    <3>2. ASSUME NEW x \in pos + 1 .. pos + n PROVE x \in At(r)
      <4>1. x - pos \in 1 .. n /\ pos + (x - pos) = x
        BY <1>2, <2>3
      <4> QED
        BY <2>4, <2>5, <4>1 DEF At
    <3> QED
      BY <3>1, <3>2
  <2>8. \A a \in At(got), b \in At(r) : a < b
    BY <1>2, <1>3, <2>3, <2>7
  <2>9. got' \in Seq(Records) /\ At(got') = At(got) \cup At(r) /\ Ascends(got')
    BY <1>2, <1>3, <2>1, <2>5, <2>6, <2>8, Joined
  <2>10. InOrder'
    <3>1. /\ 1 .. pos + n = (1 .. pos) \cup (pos + 1 .. pos + n)
          /\ (1 .. pos) \cap (pos + 1 .. pos + n) = {}
      BY <1>2, <2>3
    <3> QED
      BY <1>3, <2>1, <2>7, <2>9, <3>1 DEF InOrder
  <2>11. DirTypes'
    BY <1>0, <1>2, <2>1, <2>3, <2>9 DEF DirTypes
  <2>12. EndIsEnd'
    BY <1>0, <2>1, <2>2 DEF EndIsEnd, Idle
  <2> QED
    BY <2>10, <2>11, <2>12
<1>13. CASE Rewind
  <2>1. /\ Idle /\ pos' = 0 /\ got' = <<>> /\ skipped' = {} /\ listing' = listing
    BY <1>13 DEF Rewind
  <2>2. DirTypes'
    BY <1>0, <1>2, <2>1, NothingYet DEF DirTypes
  <2>3. InOrder'
    BY <2>1, NothingYet DEF InOrder
  <2> QED
    BY <2>1, <2>2, <2>3 DEF EndIsEnd, Idle
<1>14. ASSUME NEW count \in Counts, Svr4Getdents(count) \/ SolGetdents64(count)
       PROVE  FALSE
  BY <1>14 DEF Svr4Getdents, SolGetdents64
<1>15. ASSUME Svr4Filldir \/ Svr4FilldirFull \/ Svr4GetdentsReturn
       PROVE  FALSE
  BY <1>15 DEF Svr4Filldir, Svr4FilldirFull, Svr4GetdentsReturn
<1> QED
  BY <1>4, <1>5, <1>8, <1>9, <1>10, <1>11, <1>12, <1>13, <1>14, <1>15 DEF DirectoryNext

(* A program that lists a directory with read() or SCO's getdents is told  *)
(* every entry once and in order, whatever buffers it chooses and however  *)
(* long the names are, and is told of the end only at the end: the         *)
(* entries abi_read_dir puts back are not lost.                            *)
THEOREM EntriesListed == DirectorySpec => []ListedOnce
<1>1. DirectoryInit => DirInv
  BY DirInit
<1>2. DirInv /\ [DirectoryNext]_directoryVars => DirInv'
  BY DirNext
<1>3. DirInv => ListedOnce
  BY DEF DirInv, InOrder, EndIsEnd, ListedOnce, At, Told, Ascends
<1> QED
  BY <1>1, <1>2, <1>3, PTL DEF DirectorySpec

(***************************************************************************)
(* Descriptors.                                                            *)
(***************************************************************************)

Kinds == {"closed", "file", "sock", "socksys", "spx"}
StructFile == [ops : {"file", "chrdev", "socket"}, mode : {"sock", "file", "chr"},
               minor : Int, isopen : BOOLEAN, count : Int]
Entry == StructFile \cup {NoFile}
Tab == [kern : [Fd -> Kinds], file : [Fd -> Entry], max : Nat]

(* FilesAtRest and the routing properties, as predicates on the tables.    *)
AtRest(t) ==
    \A fd \in Fd : t.file[fd] # NoFile =>
        /\ t.kern[fd] # Closed
        /\ fd < t.max /\ t.file[fd].count = 0 /\ t.file[fd].isopen = TRUE
Routed(t) == \A fd \in Fd : t.kern[fd] \in Device <=> t.file[fd].ops = "chrdev"

(* In u descriptor fd refers to k and has the struct file f; the others    *)
(* are as they are in t.                                                   *)
Becomes(t, u, fd, k, f) ==
    /\ u \in Tab /\ u.kern[fd] = k /\ u.file[fd] = f
    /\ \A g \in Fd : g # fd => u.kern[g] = t.kern[g] /\ u.file[g] = t.file[g]
    /\ t.max <= u.max

SetFile(t, fd, f) == [t EXCEPT !.file = [t.file EXCEPT ![fd] = f]]
SetKern(t, fd, k) == [t EXCEPT !.kern = [t.kern EXCEPT ![fd] = k]]

(* A struct file that is open and that nobody holds a reference to.        *)
Resting(f) == f \in StructFile /\ f.count = 0 /\ f.isopen = TRUE

(* NoFile is no struct file.                                               *)
LEMMA NoFileIsNone == NoFile \notin StructFile /\ NoFile.ops = "none"
BY DEF NoFile, StructFile

(* The tables have their types componentwise.                              *)
LEMMA TabParts ==
    ASSUME NEW t \in Tab, NEW fd \in Fd
    PROVE  t.kern[fd] \in Kinds /\ t.file[fd] \in Entry /\ t.max \in Nat
BY DEF Tab

(* Replacing a struct file.                                                *)
LEMMA SetFileBecomes ==
    ASSUME NEW t \in Tab, NEW fd \in Fd, NEW f \in Entry
    PROVE  Becomes(t, SetFile(t, fd, f), fd, t.kern[fd], f)
           /\ SetFile(t, fd, f).max = t.max
BY DEF Becomes, SetFile, Tab

(* Replacing what a descriptor refers to.                                  *)
LEMMA SetKernBecomes ==
    ASSUME NEW t \in Tab, NEW fd \in Fd, NEW k \in Kinds
    PROVE  Becomes(t, SetKern(t, fd, k), fd, k, t.file[fd])
           /\ SetKern(t, fd, k).max = t.max
BY DEF Becomes, SetKern, Tab

(* Changes of one descriptor add up.                                       *)
LEMMA BecomesTwice ==
    ASSUME NEW t \in Tab, NEW u, NEW v, NEW fd \in Fd, NEW k, NEW f, NEW k2, NEW f2,
           Becomes(t, u, fd, k, f), Becomes(u, v, fd, k2, f2)
    PROVE  Becomes(t, v, fd, k2, f2)
BY DEF Becomes, Tab

(* A change that leaves a descriptor open and at rest, or closed without a *)
(* struct file, keeps the tables at rest.                                  *)
LEMMA BecomesAtRest ==
    ASSUME NEW t \in Tab, NEW u, NEW fd \in Fd, NEW k, NEW f,
           AtRest(t), Becomes(t, u, fd, k, f),
           f = NoFile \/ (k # Closed /\ fd < u.max /\ Resting(f))
    PROVE  AtRest(u)
<1>1. u \in Tab /\ t.max <= u.max /\ t.max \in Nat /\ u.max \in Nat
  BY DEF Becomes, Tab
<1> SUFFICES ASSUME NEW g \in Fd, u.file[g] # NoFile
             PROVE  /\ u.kern[g] # Closed /\ g < u.max
                    /\ u.file[g].count = 0 /\ u.file[g].isopen = TRUE
  BY DEF AtRest
<1>2. CASE g = fd
  BY <1>2 DEF Becomes, Resting
<1>3. CASE g # fd
  <2>1. u.kern[g] = t.kern[g] /\ u.file[g] = t.file[g]
    BY <1>3 DEF Becomes
  <2>2. g < t.max /\ g \in Int
    BY <2>1 DEF AtRest, Fd
  <2>3. g < u.max
    BY <1>1, <2>2
  <2> QED
    BY <2>1, <2>3 DEF AtRest
<1> QED
  BY <1>2, <1>3

(* A change that routes its descriptor keeps all routed.                   *)
LEMMA BecomesRouted ==
    ASSUME NEW t, NEW u, NEW fd \in Fd, NEW k, NEW f,
           Routed(t), Becomes(t, u, fd, k, f), k \in Device <=> f.ops = "chrdev"
    PROVE  Routed(u)
BY DEF Becomes, Routed
-----------------------------------------------------------------------------
(* fget finds or makes a struct file, within the array, and counts.        *)
Found(t, fd) == IF t.file[fd] # NoFile THEN t.file[fd] ELSE NewFile(t.kern[fd])
Counted(f, n) == [f EXCEPT !.count = @ + n]

(* What is found is a struct file.                                         *)
LEMMA FoundIsFile ==
    ASSUME NEW t \in Tab, NEW fd \in Fd
    PROVE  Found(t, fd) \in StructFile
<1>1. NewFile(t.kern[fd]) \in StructFile
  BY DEF NewFile, StructFile
<1> QED
  BY <1>1, TabParts DEF Found, Entry

(* Counting keeps it one.                                                  *)
LEMMA CountedIsFile ==
    ASSUME NEW f \in StructFile, NEW n \in Int
    PROVE  /\ Counted(f, n) \in StructFile
           /\ Counted(f, n).count = f.count + n /\ Counted(f, n).isopen = f.isopen
           /\ Counted(f, n).ops = f.ops /\ Counted(f, n).mode = f.mode
           /\ Counted(f, n).minor = f.minor
BY DEF Counted, StructFile

(* fget.                                                                   *)
LEMMA FgetBecomes ==
    ASSUME NEW t \in Tab, NEW fd \in Fd, NEW u, u = Fget(t, fd)
    PROVE  Becomes(t, u, fd, t.kern[fd], Counted(Found(t, fd), 1)) /\ fd < u.max
<1>0. PICK grown, known : /\ grown = [t EXCEPT !.max = IF @ <= fd THEN (fd + 1) * 2 ELSE @]
                          /\ known = SetFile(grown, fd, Found(t, fd))
  OBVIOUS
<1>1. fd \in Nat /\ t.max \in Nat
  BY NfdsAssumption DEF Fd, Tab
<1>2. (IF t.max <= fd THEN (fd + 1) * 2 ELSE t.max) \in Nat
      /\ fd < (IF t.max <= fd THEN (fd + 1) * 2 ELSE t.max)
      /\ t.max <= (IF t.max <= fd THEN (fd + 1) * 2 ELSE t.max)
  BY <1>1
<1>3. /\ grown \in Tab /\ grown.kern = t.kern /\ grown.file = t.file
      /\ fd < grown.max /\ t.max <= grown.max
  BY <1>0, <1>2 DEF Tab
<1>4. Found(t, fd) \in StructFile /\ Counted(Found(t, fd), 1) \in StructFile
  BY FoundIsFile, CountedIsFile
<1>5. Becomes(grown, known, fd, t.kern[fd], Found(t, fd)) /\ known.max = grown.max
  BY <1>0, <1>3, <1>4, SetFileBecomes DEF Entry
<1>6. known = IF t.file[fd] # NoFile THEN grown
              ELSE [grown EXCEPT !.file[fd] = NewFile(t.kern[fd])]
  <2>1. CASE t.file[fd] # NoFile
    <3>1. [grown.file EXCEPT ![fd] = grown.file[fd]] = grown.file
      BY <1>3 DEF Tab
    <3>2. [grown EXCEPT !.file = grown.file] = grown
      BY <1>3 DEF Tab
    <3> QED
      BY <1>0, <1>3, <2>1, <3>1, <3>2 DEF SetFile, Found
  <2>2. CASE t.file[fd] = NoFile
    BY <1>0, <2>2 DEF SetFile, Found
  <2> QED
    BY <2>1, <2>2
<1>7. u = [known EXCEPT !.file[fd].count = @ + 1]
  BY <1>0, <1>6 DEF Fget
<1>8. known \in Tab /\ known.file[fd] = Found(t, fd) /\ known.kern[fd] = t.kern[fd]
  BY <1>5 DEF Becomes
<1>9. u = SetFile(known, fd, Counted(Found(t, fd), 1))
  BY <1>7, <1>8 DEF SetFile, Counted
<1>10. Becomes(known, u, fd, t.kern[fd], Counted(Found(t, fd), 1)) /\ u.max = known.max
  BY <1>4, <1>8, <1>9, SetFileBecomes DEF Entry
<1>11. Becomes(grown, u, fd, t.kern[fd], Counted(Found(t, fd), 1))
  BY <1>3, <1>5, <1>10, BecomesTwice
<1>12. Becomes(t, u, fd, t.kern[fd], Counted(Found(t, fd), 1))
  BY <1>3, <1>5, <1>10, <1>11 DEF Becomes, Tab
<1> QED
  BY <1>3, <1>5, <1>10, <1>12

(* What fput leaves of a struct file.                                      *)
Left(f) == IF f.count = 1 /\ f.isopen = FALSE THEN NoFile ELSE Counted(f, -1)

(* fput.                                                                   *)
LEMMA FputBecomes ==
    ASSUME NEW t \in Tab, NEW fd \in Fd, t.file[fd] \in StructFile,
           NEW u, u = Fput(t, fd)
    PROVE  Becomes(t, u, fd, t.kern[fd], Left(t.file[fd])) /\ u.max = t.max
<1>0. PICK f, v : f = Counted(t.file[fd], -1) /\ v = SetFile(t, fd, f)
  OBVIOUS
<1>1. f \in StructFile /\ f.count = t.file[fd].count - 1 /\ f.isopen = t.file[fd].isopen
  <2>1. t.file[fd].count \in Int
    BY DEF StructFile
  <2>2. /\ f \in StructFile /\ f.count = t.file[fd].count + (-1)
        /\ f.isopen = t.file[fd].isopen
    BY <1>0, CountedIsFile
  <2> QED
    BY <2>1, <2>2
<1>2. Becomes(t, v, fd, t.kern[fd], f) /\ v.max = t.max
  BY <1>0, <1>1, SetFileBecomes DEF Entry
<1>3. v = [t EXCEPT !.file[fd].count = @ - 1]
  <2>1. t.file[fd].count - 1 = t.file[fd].count + (-1)
    BY DEF StructFile
  <2> QED
    BY <1>0, <2>1 DEF SetFile, Counted
<1>4. u = Fdestroy(v, fd)
  BY <1>3 DEF Fput
<1>5. v \in Tab /\ v.file[fd] = f /\ v.kern[fd] = t.kern[fd]
  BY <1>2 DEF Becomes
<1>6. CASE f.count = 0 /\ f.isopen = FALSE
  <2>1. u = SetFile(v, fd, NoFile)
    BY <1>4, <1>5, <1>6 DEF Fdestroy, SetFile
  <2>2. Becomes(v, u, fd, t.kern[fd], NoFile) /\ u.max = v.max
    BY <1>5, <2>1, SetFileBecomes DEF Entry
  <2>3. Left(t.file[fd]) = NoFile
    <3>1. t.file[fd].count = 1
      BY <1>1, <1>6 DEF StructFile
    <3> QED
      BY <1>1, <1>6, <3>1 DEF Left
  <2> QED
    BY <1>2, <2>2, <2>3, BecomesTwice
<1>7. CASE ~(f.count = 0 /\ f.isopen = FALSE)
  <2>1. f.isopen \in BOOLEAN
    BY <1>1 DEF StructFile
  <2>2. u = v
    BY <1>4, <1>5, <1>7, <2>1 DEF Fdestroy
  <2>3. Left(t.file[fd]) = f
    <3>1. ~(t.file[fd].count = 1 /\ t.file[fd].isopen = FALSE)
      BY <1>1, <1>7
    <3> QED
      BY <1>0, <3>1 DEF Left
  <2> QED
    BY <1>2, <2>2, <2>3
<1> QED
  BY <1>6, <1>7
-----------------------------------------------------------------------------
(* The struct file of an open descriptor between system calls.             *)
Made(ops, mode, minor) ==
    [ops |-> ops, mode |-> mode, minor |-> minor, isopen |-> TRUE, count |-> 0]

(* Descriptor fd has no struct file, or one at rest and is open.           *)
RestAt(t, fd) == t.file[fd] # NoFile => Resting(t.file[fd]) /\ t.kern[fd] # Closed

(* In tables at rest every descriptor is.                                  *)
LEMMA AtRestAt ==
    ASSUME NEW t \in Tab, AtRest(t), NEW fd \in Fd
    PROVE  RestAt(t, fd)
BY TabParts DEF AtRest, RestAt, Resting, Entry

(* A struct file at rest is made of its operations, mode and minor.        *)
LEMMA RestingIsMade ==
    ASSUME NEW f, Resting(f)
    PROVE  f = Made(f.ops, f.mode, f.minor)
BY DEF Resting, Made, StructFile

(* An fget(), a change of the operations or the inode, and an fput().      *)
LEMMA EditedBecomes ==
    ASSUME NEW t \in Tab, NEW fd \in Fd, RestAt(t, fd), NEW e \in StructFile,
           e.count = 1, e.isopen = Found(t, fd).isopen,
           NEW fetched, fetched = Fget(t, fd), NEW u, u = Fput(SetFile(fetched, fd, e), fd)
    PROVE  /\ fd < u.max
           /\ Becomes(t, u, fd, t.kern[fd],
                      IF t.kern[fd] = Closed THEN NoFile ELSE Made(e.ops, e.mode, e.minor))
<1>0. PICK c, v : c = Counted(Found(t, fd), 1) /\ v = SetFile(fetched, fd, e)
  OBVIOUS
<1>1. Becomes(t, fetched, fd, t.kern[fd], c) /\ fd < fetched.max
  BY <1>0, FgetBecomes
<1>2. fetched \in Tab /\ fetched.kern[fd] = t.kern[fd]
  BY <1>1 DEF Becomes
<1>3. Becomes(fetched, v, fd, t.kern[fd], e) /\ v.max = fetched.max
  BY <1>0, <1>2, SetFileBecomes DEF Entry
<1>4. v \in Tab /\ v.file[fd] = e /\ v.kern[fd] = t.kern[fd]
  BY <1>3 DEF Becomes
<1>5. Becomes(v, u, fd, t.kern[fd], Left(e)) /\ u.max = v.max
  BY <1>0, <1>4, FputBecomes
<1>6. Becomes(t, v, fd, t.kern[fd], e)
  BY <1>1, <1>3, BecomesTwice
<1>7. Becomes(t, u, fd, t.kern[fd], Left(e))
  BY <1>5, <1>6, BecomesTwice
<1>8. e.isopen = TRUE <=> t.kern[fd] # Closed
  <2>1. CASE t.file[fd] = NoFile
    BY <2>1 DEF Found, NewFile
  <2>2. CASE t.file[fd] # NoFile
    BY <2>2 DEF Found, RestAt, Resting
  <2> QED
    BY <2>1, <2>2
<1>9. Left(e) = IF t.kern[fd] = Closed THEN NoFile ELSE Made(e.ops, e.mode, e.minor)
  <2>1. e.isopen \in BOOLEAN
    BY DEF StructFile
  <2>2. CASE t.kern[fd] = Closed
    BY <1>8, <2>1, <2>2 DEF Left
  <2>3. CASE t.kern[fd] # Closed
    <3>1. Left(e) = Counted(e, -1)
      BY <1>8, <2>3 DEF Left
    <3>2. /\ Counted(e, -1) \in StructFile /\ Counted(e, -1).count = 0
          /\ Counted(e, -1).isopen = TRUE /\ Counted(e, -1).ops = e.ops
          /\ Counted(e, -1).mode = e.mode /\ Counted(e, -1).minor = e.minor
      <4>1. e.isopen = TRUE
        BY <1>8, <2>3
      <4>2. PICK n \in Int : n = -1
        OBVIOUS
      <4>3. /\ Counted(e, n) \in StructFile /\ Counted(e, n).count = e.count + n
            /\ Counted(e, n).isopen = e.isopen /\ Counted(e, n).ops = e.ops
            /\ Counted(e, n).mode = e.mode /\ Counted(e, n).minor = e.minor
        BY CountedIsFile
      <4>4. e.count + n = 0
        BY <4>2
      <4> QED
        BY <4>1, <4>2, <4>3, <4>4
    <3>3. Resting(Counted(e, -1))
      BY <3>2 DEF Resting
    <3> QED
      BY <2>3, <3>1, <3>2, <3>3, RestingIsMade
  <2> QED
    BY <2>2, <2>3
<1> QED
  BY <1>1, <1>3, <1>5, <1>7, <1>9

(* The struct file that fget() returns, and its reference.                 *)
LEMMA FgetFile ==
    ASSUME NEW t \in Tab, NEW fd \in Fd, RestAt(t, fd), NEW fetched, fetched = Fget(t, fd)
    PROVE  /\ fetched \in Tab /\ fetched.file[fd] \in StructFile /\ fetched.file[fd].count = 1
           /\ fetched.file[fd].isopen = Found(t, fd).isopen
           /\ fetched.file[fd].ops = Found(t, fd).ops
           /\ fetched.file[fd].mode = Found(t, fd).mode
           /\ fetched.file[fd].minor = Found(t, fd).minor
<1>1. Becomes(t, fetched, fd, t.kern[fd], Counted(Found(t, fd), 1))
  BY FgetBecomes
<1>2. Found(t, fd) \in StructFile
  BY FoundIsFile
<1>3. Found(t, fd).count = 0
  BY DEF Found, NewFile, RestAt, Resting
<1>4. Counted(Found(t, fd), 1).count = Found(t, fd).count + 1
  BY <1>2, CountedIsFile
<1> QED
  BY <1>1, <1>2, <1>3, <1>4, CountedIsFile DEF Becomes

(* The struct file an ioctl leaves.                                        *)
Used(t, fd) ==
    IF t.kern[fd] = Closed THEN NoFile
    ELSE IF t.file[fd] # NoFile THEN t.file[fd]
    ELSE Made("file", NewFile(t.kern[fd]).mode, -1)

(* An fget() and an fput().                                                *)
LEMMA UseBecomes ==
    ASSUME NEW t \in Tab, NEW fd \in Fd, RestAt(t, fd), NEW u, u = Fput(Fget(t, fd), fd)
    PROVE  fd < u.max /\ Becomes(t, u, fd, t.kern[fd], Used(t, fd))
<1>0. PICK fetched, e : fetched = Fget(t, fd) /\ e = fetched.file[fd]
  OBVIOUS
<1>1. /\ fetched \in Tab /\ e \in StructFile /\ e.count = 1
      /\ e.isopen = Found(t, fd).isopen /\ e.ops = Found(t, fd).ops
      /\ e.mode = Found(t, fd).mode /\ e.minor = Found(t, fd).minor
  BY <1>0, FgetFile
<1>2. SetFile(fetched, fd, e) = fetched
  <2>1. [fetched.file EXCEPT ![fd] = e] = fetched.file
    BY <1>0, <1>1 DEF Tab
  <2>2. [fetched EXCEPT !.file = fetched.file] = fetched
    BY <1>1 DEF Tab
  <2> QED
    BY <2>1, <2>2 DEF SetFile
<1>3. u = Fput(SetFile(fetched, fd, e), fd)
  BY <1>0, <1>2
<1>4. /\ fd < u.max
      /\ Becomes(t, u, fd, t.kern[fd],
                 IF t.kern[fd] = Closed THEN NoFile ELSE Made(e.ops, e.mode, e.minor))
  BY <1>0, <1>1, <1>3, EditedBecomes
<1>5. (IF t.kern[fd] = Closed THEN NoFile ELSE Made(e.ops, e.mode, e.minor)) = Used(t, fd)
  <2>1. CASE t.file[fd] = NoFile
    BY <1>1, <2>1 DEF Found, NewFile, Used
  <2>2. CASE t.file[fd] # NoFile
    <3>1. t.file[fd] = Made(t.file[fd].ops, t.file[fd].mode, t.file[fd].minor)
      BY <2>2, RestingIsMade DEF RestAt
    <3> QED
      BY <1>1, <2>2, <3>1 DEF Found, Used
  <2> QED
    BY <2>1, <2>2
<1> QED
  BY <1>4, <1>5

(* Other operations, mode and minor for a struct file.                     *)
EditFile(f, ops, mode, minor) == [f EXCEPT !.mode = mode, !.minor = minor, !.ops = ops]

Edited(e, f, ops, mode, minor) ==
    /\ e \in StructFile /\ e.count = f.count /\ e.isopen = f.isopen
    /\ e.ops = ops /\ e.mode = mode /\ e.minor = minor

(* They are all that changes of it.                                        *)
LEMMA EditIsFile ==
    ASSUME NEW f \in StructFile, NEW ops \in {"file", "chrdev", "socket"},
           NEW mode \in {"sock", "file", "chr"}, NEW minor \in Int,
           NEW e, e = EditFile(f, ops, mode, minor)
    PROVE  Edited(e, f, ops, mode, minor)
<1>1. PICK f1, f2 : f1 = [f EXCEPT !.mode = mode] /\ f2 = [f1 EXCEPT !.minor = minor]
  OBVIOUS
<1>2. f1 \in StructFile /\ f1.count = f.count /\ f1.isopen = f.isopen /\ f1.mode = mode
  BY <1>1 DEF StructFile
<1>3. /\ f2 \in StructFile /\ f2.count = f.count /\ f2.isopen = f.isopen
      /\ f2.mode = mode /\ f2.minor = minor
  BY <1>1, <1>2 DEF StructFile
<1>4. e = [f2 EXCEPT !.ops = ops]
  BY <1>1 DEF EditFile
<1> QED
  BY <1>3, <1>4 DEF StructFile, Edited

(* The same in place, in the order the code sets them.                     *)
InPlace(t, fd, ops, mode, minor) ==
    [t EXCEPT !.file[fd].mode = mode, !.file[fd].minor = minor, !.file[fd].ops = ops]

(* It replaces the struct file.                                            *)
LEMMA EditInPlace ==
    ASSUME NEW t \in Tab, NEW fd \in Fd, t.file[fd] \in StructFile,
           NEW ops, NEW mode, NEW minor
    PROVE  InPlace(t, fd, ops, mode, minor)
             = SetFile(t, fd, EditFile(t.file[fd], ops, mode, minor))
BY DEF InPlace, SetFile, EditFile, Tab

(* In place, in the order linux26_dup sets them.                           *)
Copied(t, fd, ops, mode, minor) ==
    [t EXCEPT !.file[fd].ops = ops, !.file[fd].mode = mode, !.file[fd].minor = minor]

(* The order makes no difference.                                          *)
LEMMA CopyInPlace ==
    ASSUME NEW t \in Tab, NEW fd \in Fd, t.file[fd] \in StructFile,
           NEW ops, NEW mode, NEW minor
    PROVE  Copied(t, fd, ops, mode, minor)
             = SetFile(t, fd, EditFile(t.file[fd], ops, mode, minor))
<1> DEFINE f == t.file[fd]
           g == [[[f EXCEPT !.ops = ops] EXCEPT !.mode = mode] EXCEPT !.minor = minor]
<1>1. Copied(t, fd, ops, mode, minor) = SetFile(t, fd, g)
  BY DEF Copied, SetFile, Tab
<1>2. g = EditFile(f, ops, mode, minor)
  BY DEF EditFile, StructFile
<1> QED
  BY <1>1, <1>2

(* The struct file of a socket.                                            *)
Socket == Made("socket", "chr", 0)

(* inherit_socksys_funcs: an open descriptor becomes a socket's.           *)
LEMMA InheritBecomes ==
    ASSUME NEW t \in Tab, NEW fd \in Fd, RestAt(t, fd), NEW u, u = Inherit(t, fd)
    PROVE  fd < u.max /\ Becomes(t, u, fd, t.kern[fd],
                                 IF t.kern[fd] = Closed THEN NoFile ELSE Socket)
<1>0. PICK fetched, e : /\ fetched = Fget(t, fd)
                    /\ e = EditFile(fetched.file[fd], "socket", "chr", 0)
  OBVIOUS
<1>1. /\ fetched \in Tab /\ fetched.file[fd] \in StructFile /\ fetched.file[fd].count = 1
      /\ fetched.file[fd].isopen = Found(t, fd).isopen
  BY <1>0, FgetFile
<1>2. /\ e \in StructFile /\ e.count = 1 /\ e.isopen = Found(t, fd).isopen
      /\ e.ops = "socket" /\ e.mode = "chr" /\ e.minor = 0
  <2>1. Edited(e, fetched.file[fd], "socket", "chr", 0)
    BY <1>0, <1>1, EditIsFile
  <2> QED
    BY <1>1, <2>1 DEF Edited
<1>3. InPlace(fetched, fd, "socket", "chr", 0) = SetFile(fetched, fd, e)
  BY <1>0, <1>1, EditInPlace
<1>4. u = Fput(SetFile(fetched, fd, e), fd)
  BY <1>0, <1>3 DEF Inherit, InPlace
<1>5. /\ fd < u.max
      /\ Becomes(t, u, fd, t.kern[fd],
                 IF t.kern[fd] = Closed THEN NoFile ELSE Made(e.ops, e.mode, e.minor))
  BY <1>0, <1>2, <1>4, EditedBecomes
<1> QED
  BY <1>2, <1>5 DEF Socket

(* The struct file of an emulated device.                                  *)
Chrdev(dev) == Made("chrdev", "chr", IF dev = "spx" THEN 1 ELSE 0)

(* open_chrdev makes the lowest free descriptor the device's.              *)
LEMMA OpenChrdevBecomes ==
    ASSUME NEW t \in Tab, AtRest(t), Lowest(t) \in FreeFds(t), NEW dev \in Device,
           NEW u, u = OpenChrdev(t, dev)
    PROVE  Lowest(t) < u.max /\ Becomes(t, u, Lowest(t), dev, Chrdev(dev))
<1>0. PICK fd, m, k, fetched, e :
         /\ fd = Lowest(t) /\ m = IF dev = "spx" THEN 1 ELSE 0
         /\ k = SetKern(t, fd, dev) /\ fetched = Fget(k, fd)
         /\ e = EditFile(fetched.file[fd], "chrdev", "chr", m)
  OBVIOUS
<1>1. fd \in Fd /\ t.kern[fd] = Closed /\ t.file[fd] = NoFile /\ dev \in Kinds /\ dev # Closed
  BY <1>0 DEF FreeFds, AtRest, Device, Kinds, Closed
<1>2. Becomes(t, k, fd, dev, NoFile)
  BY <1>0, <1>1, SetKernBecomes
<1>3. k \in Tab /\ k.kern[fd] = dev /\ RestAt(k, fd)
  BY <1>2 DEF Becomes, RestAt
<1>4. /\ fetched \in Tab /\ fetched.file[fd] \in StructFile /\ fetched.file[fd].count = 1
      /\ fetched.file[fd].isopen = Found(k, fd).isopen
  BY <1>0, <1>1, <1>3, FgetFile
<1>5. /\ e \in StructFile /\ e.count = 1 /\ e.isopen = Found(k, fd).isopen
      /\ e.ops = "chrdev" /\ e.mode = "chr" /\ e.minor = m
  <2>1. m \in Int /\ e = EditFile(fetched.file[fd], "chrdev", "chr", m)
    BY <1>0
  <2>2. Edited(e, fetched.file[fd], "chrdev", "chr", m)
    BY <1>4, <2>1, EditIsFile
  <2> QED
    BY <1>4, <2>2 DEF Edited
<1>6. InPlace(fetched, fd, "chrdev", "chr", m) = SetFile(fetched, fd, e)
  BY <1>0, <1>1, <1>4, EditInPlace
<1>7. u = Fput(SetFile(fetched, fd, e), fd)
  BY <1>0, <1>6 DEF OpenChrdev, SetKern, InPlace
<1>8. /\ fd < u.max
      /\ Becomes(k, u, fd, k.kern[fd],
                 IF k.kern[fd] = Closed THEN NoFile ELSE Made(e.ops, e.mode, e.minor))
  BY <1>0, <1>1, <1>3, <1>5, <1>7, EditedBecomes
<1>9. Becomes(k, u, fd, dev, Chrdev(dev))
  BY <1>0, <1>1, <1>3, <1>5, <1>8 DEF Chrdev
<1> QED
  BY <1>0, <1>1, <1>2, <1>8, <1>9, BecomesTwice

(* linux26_dup: the new descriptor gets a copy of the struct file, if      *)
(* there is one, and otherwise keeps its own.                              *)
LEMMA DupBecomes ==
    ASSUME NEW t \in Tab, AtRest(t), NEW fd \in Fd, NEW new \in Fd, fd # new,
           t.kern[fd] # Closed, NEW u, u = DupFile(t, fd, new)
    PROVE  /\ Becomes(t, u, new, t.kern[fd],
                      IF t.file[fd] = NoFile THEN t.file[new] ELSE t.file[fd])
           /\ t.file[fd] # NoFile => new < u.max
<1>0. PICK k, fetched, old, e :
         /\ k = SetKern(t, new, t.kern[fd]) /\ fetched = Fget(k, new) /\ old = t.file[fd]
         /\ e = EditFile(fetched.file[new], old.ops, old.mode, old.minor)
  OBVIOUS
<1>1. Becomes(t, k, new, t.kern[fd], t.file[new])
  BY <1>0, TabParts, SetKernBecomes
<1>2. CASE t.file[fd] = NoFile
  BY <1>0, <1>1, <1>2 DEF DupFile, SetKern
<1>3. CASE t.file[fd] # NoFile
  <2>1. k \in Tab /\ k.kern[new] = t.kern[fd] /\ k.file[new] = t.file[new]
    BY <1>1 DEF Becomes
  <2>2. RestAt(k, new) /\ RestAt(t, fd)
    BY <2>1, AtRestAt DEF RestAt
  <2>3. /\ fetched \in Tab /\ fetched.file[new] \in StructFile /\ fetched.file[new].count = 1
        /\ fetched.file[new].isopen = Found(k, new).isopen
    BY <1>0, <2>1, <2>2, FgetFile
  <2>4. old \in StructFile /\ Resting(old)
    BY <1>0, <1>3, <2>2 DEF RestAt, Resting
  <2>5. /\ old.ops \in {"file", "chrdev", "socket"} /\ old.mode \in {"sock", "file", "chr"}
        /\ old.minor \in Int
    BY <2>4 DEF StructFile
  <2>6. PICK g : g = fetched.file[new]
    OBVIOUS
  <2>7. /\ e \in StructFile /\ e.count = g.count /\ e.isopen = g.isopen
        /\ e.ops = old.ops /\ e.mode = old.mode /\ e.minor = old.minor
    <3>1. g \in StructFile /\ e = EditFile(g, old.ops, old.mode, old.minor)
      BY <1>0, <2>3, <2>6
    <3>2. Edited(e, g, old.ops, old.mode, old.minor)
      BY <2>5, <3>1, EditIsFile
    <3> QED
      BY <3>2 DEF Edited
  <2>8. Copied(fetched, new, old.ops, old.mode, old.minor) = SetFile(fetched, new, e)
    BY <1>0, <2>3, CopyInPlace
  <2>9. u = Fput(SetFile(fetched, new, e), new)
    BY <1>0, <1>3, <2>8 DEF DupFile, SetKern, Copied
  <2>10. /\ new < u.max
         /\ Becomes(k, u, new, k.kern[new],
                    IF k.kern[new] = Closed THEN NoFile ELSE Made(e.ops, e.mode, e.minor))
    BY <1>0, <2>1, <2>2, <2>3, <2>6, <2>7, <2>9, EditedBecomes
  <2>11. Made(e.ops, e.mode, e.minor) = old
    BY <2>4, <2>7, RestingIsMade
  <2>12. Becomes(k, u, new, t.kern[fd], old)
    BY <2>1, <2>10, <2>11
  <2>13. Becomes(t, u, new, t.kern[fd], old)
    BY <1>1, <2>12, BecomesTwice
  <2> QED
    BY <1>0, <1>3, <2>10, <2>13
<1> QED
  BY <1>2, <1>3

(* linux26_close.                                                          *)
LEMMA CloseBecomes ==
    ASSUME NEW t \in Tab, AtRest(t), NEW fd \in Fd, NEW u, u = Close(t, fd)
    PROVE  Becomes(t, u, fd, Closed, NoFile)
<1>1. RestAt(t, fd) /\ (t.file[fd] # NoFile => fd < t.max) /\ Closed \in Kinds
  BY AtRestAt DEF AtRest, Kinds, Closed
<1>2. CASE t.file[fd] = NoFile
  <2>1. u = SetKern(t, fd, Closed)
    BY <1>2 DEF Close, SetKern
  <2> QED
    BY <1>1, <1>2, <2>1, SetKernBecomes
<1>3. CASE t.file[fd] # NoFile
  <2>0. PICK f, v, w : /\ f = [t.file[fd] EXCEPT !.isopen = FALSE]
                       /\ v = SetFile(t, fd, f) /\ w = SetFile(v, fd, NoFile)
    OBVIOUS
  <2>1. t.file[fd] \in StructFile /\ t.file[fd].count = 0
    BY <1>1, <1>3 DEF RestAt, Resting
  <2>2. f \in StructFile /\ f.count = 0 /\ f.isopen = FALSE
    BY <2>0, <2>1 DEF StructFile
  <2>3. Becomes(t, v, fd, t.kern[fd], f)
    BY <2>0, <2>2, SetFileBecomes DEF Entry
  <2>4. v \in Tab /\ v.file[fd] = f /\ v.kern[fd] = t.kern[fd]
    BY <2>3 DEF Becomes
  <2>5. Becomes(v, w, fd, t.kern[fd], NoFile)
    BY <2>0, <2>4, SetFileBecomes DEF Entry
  <2>6. w = Fdestroy([t EXCEPT !.file[fd].isopen = FALSE], fd)
    BY <2>0, <2>2, <2>4 DEF Fdestroy, SetFile
  <2>7. u = SetKern(w, fd, Closed)
    BY <1>1, <1>3, <2>6 DEF Close, SetKern
  <2>8. w \in Tab /\ w.file[fd] = NoFile
    BY <2>5 DEF Becomes
  <2>9. Becomes(w, u, fd, Closed, NoFile)
    BY <1>1, <2>7, <2>8, SetKernBecomes
  <2>10. Becomes(t, w, fd, t.kern[fd], NoFile)
    BY <2>3, <2>5, BecomesTwice
  <2> QED
    BY <2>9, <2>10, BecomesTwice
<1> QED
  BY <1>2, <1>3
-----------------------------------------------------------------------------
(* What the operations keep.                                               *)
Good(t) == t \in Tab /\ AtRest(t)

(* A struct file that is made is at rest.                                  *)
LEMMA MadeRests ==
    ASSUME NEW ops \in {"file", "chrdev", "socket"}, NEW mode \in {"sock", "file", "chr"},
           NEW minor \in Int
    PROVE  /\ Resting(Made(ops, mode, minor)) /\ Made(ops, mode, minor) # NoFile
           /\ Made(ops, mode, minor).ops = ops
<1>1. Made(ops, mode, minor) \in StructFile
  BY DEF Made, StructFile
<1> QED
  BY <1>1, NoFileIsNone DEF Resting, Made

(* The fget() and fput() of an ioctl.                                      *)
LEMMA UseKeeps ==
    ASSUME NEW t, Good(t), NEW fd \in Fd, NEW u, u = Fput(Fget(t, fd), fd)
    PROVE  Good(u) /\ (Routed(t) => Routed(u))
<1>1. RestAt(t, fd) /\ t \in Tab /\ AtRest(t)
  BY AtRestAt DEF Good
<1>2. fd < u.max /\ Becomes(t, u, fd, t.kern[fd], Used(t, fd))
  BY <1>1, UseBecomes
<1>3. LET m == Made("file", NewFile(t.kern[fd]).mode, -1)
      IN  Resting(m) /\ m # NoFile /\ m.ops = "file"
  <2>1. NewFile(t.kern[fd]).mode \in {"sock", "file", "chr"}
    BY DEF NewFile
  <2> QED
    BY <2>1, MadeRests
<1>4. Used(t, fd) = NoFile \/ (t.kern[fd] # Closed /\ fd < u.max /\ Resting(Used(t, fd)))
  BY <1>1, <1>2, <1>3 DEF Used, RestAt
<1>5. AtRest(u)
  BY <1>1, <1>2, <1>4, BecomesAtRest
<1>6. ASSUME Routed(t) PROVE t.kern[fd] \in Device <=> Used(t, fd).ops = "chrdev"
  BY <1>1, <1>3, <1>6, NoFileIsNone DEF Used, Routed, Device, Closed, RestAt
<1>7. Routed(t) => Routed(u)
  BY <1>2, <1>6, BecomesRouted
<1> QED
  BY <1>2, <1>5, <1>7 DEF Good, Becomes

(* inherit_socksys_funcs.                                                  *)
LEMMA InheritKeeps ==
    ASSUME NEW t, Good(t), NEW fd \in Fd, NEW u, u = Inherit(t, fd)
    PROVE  Good(u) /\ (Routed(t) /\ t.kern[fd] \notin Device => Routed(u))
<1>1. RestAt(t, fd) /\ t \in Tab /\ AtRest(t)
  BY AtRestAt DEF Good
<1>0. PICK f : f = IF t.kern[fd] = Closed THEN NoFile ELSE Socket
  OBVIOUS
<1>2. fd < u.max /\ Becomes(t, u, fd, t.kern[fd], f)
  BY <1>0, <1>1, InheritBecomes
<1>3. Resting(Socket) /\ Socket.ops = "socket"
  BY MadeRests DEF Socket
<1>4. f = NoFile \/ (t.kern[fd] # Closed /\ fd < u.max /\ Resting(f))
  BY <1>0, <1>2, <1>3
<1>5. AtRest(u)
  BY <1>1, <1>2, <1>4, BecomesAtRest
<1>6. f.ops # "chrdev"
  BY <1>0, <1>3, NoFileIsNone
<1>7. Routed(t) /\ t.kern[fd] \notin Device => Routed(u)
  BY <1>2, <1>6, BecomesRouted
<1> QED
  BY <1>2, <1>5, <1>7 DEF Good, Becomes

(* dup: the copy is routed as the original, unless there is no struct file *)
(* to copy and the new descriptor has one of its own.                      *)
LEMMA DupKeeps ==
    ASSUME NEW t, Good(t), NEW fd \in Fd, NEW new \in Fd, fd # new,
           t.kern[fd] # Closed, NEW u, u = DupFile(t, fd, new)
    PROVE  /\ Good(u)
           /\ Routed(t) /\ (t.file[fd] = NoFile => t.file[new] = NoFile) => Routed(u)
<1>1. RestAt(t, fd) /\ RestAt(t, new) /\ t \in Tab /\ AtRest(t)
  BY AtRestAt DEF Good
<1>0. PICK f : f = IF t.file[fd] = NoFile THEN t.file[new] ELSE t.file[fd]
  OBVIOUS
<1>2. /\ Becomes(t, u, new, t.kern[fd], f)
      /\ t.file[fd] # NoFile => new < u.max
  BY <1>0, <1>1, DupBecomes
<1>3. f = NoFile \/ (t.kern[fd] # Closed /\ new < u.max /\ Resting(f))
  <2>1. CASE t.file[fd] = NoFile
    <3>1. t.max \in Nat /\ u.max \in Nat /\ t.max <= u.max /\ new \in Int
      BY <1>1, <1>2 DEF Tab, Becomes, Fd
    <3>2. t.file[new] # NoFile => new < t.max
      BY <1>1 DEF AtRest
    <3> QED
      BY <1>0, <1>1, <2>1, <3>1, <3>2 DEF RestAt
  <2>2. CASE t.file[fd] # NoFile
    BY <1>0, <1>1, <1>2, <2>2 DEF RestAt
  <2> QED
    BY <2>1, <2>2
<1>4. AtRest(u)
  BY <1>1, <1>2, <1>3, BecomesAtRest
<1>5. ASSUME Routed(t), t.file[fd] = NoFile => t.file[new] = NoFile
      PROVE  Routed(u)
  <2>1. f = t.file[fd]
    BY <1>0, <1>5
  <2>2. t.kern[fd] \in Device <=> f.ops = "chrdev"
    BY <1>5, <2>1 DEF Routed
  <2> QED
    BY <1>2, <1>5, <2>2, BecomesRouted
<1> QED
  BY <1>2, <1>4, <1>5 DEF Good, Becomes

(* close.                                                                  *)
LEMMA CloseKeeps ==
    ASSUME NEW t, Good(t), NEW fd \in Fd, NEW u, u = Close(t, fd)
    PROVE  Good(u) /\ (Routed(t) => Routed(u))
<1>1. t \in Tab /\ AtRest(t)
  BY DEF Good
<1>2. Becomes(t, u, fd, Closed, NoFile)
  BY <1>1, CloseBecomes
<1>3. AtRest(u)
  BY <1>1, <1>2, BecomesAtRest
<1>4. Routed(t) => Routed(u)
  <2>1. Closed \in Device <=> NoFile.ops = "chrdev"
    BY NoFileIsNone DEF Closed, Device
  <2> QED
    BY <1>2, <2>1, BecomesRouted
<1> QED
  BY <1>2, <1>3, <1>4 DEF Good, Becomes

(* The kernel makes a descriptor refer to something.                       *)
LEMMA KernelKeeps ==
    ASSUME NEW t, Good(t), NEW fd \in Fd, NEW k \in Kinds,
           t.file[fd] = NoFile \/ k # Closed, NEW u, u = SetKern(t, fd, k)
    PROVE  /\ Good(u) /\ Becomes(t, u, fd, k, t.file[fd])
           /\ Routed(t) /\ k \notin Device /\ t.file[fd] = NoFile => Routed(u)
<1>1. t \in Tab /\ AtRest(t) /\ RestAt(t, fd)
  BY AtRestAt DEF Good
<1>2. Becomes(t, u, fd, k, t.file[fd]) /\ u.max = t.max
  BY <1>1, SetKernBecomes
<1>3. t.file[fd] = NoFile \/ (k # Closed /\ fd < u.max /\ Resting(t.file[fd]))
  BY <1>1, <1>2 DEF RestAt, AtRest
<1>4. AtRest(u)
  BY <1>1, <1>2, <1>3, BecomesAtRest
<1>5. Routed(t) /\ k \notin Device /\ t.file[fd] = NoFile => Routed(u)
  BY <1>2, BecomesRouted, NoFileIsNone
<1> QED
  BY <1>2, <1>4, <1>5 DEF Good, Becomes

(* The lowest of some descriptors is one of them.                          *)
LEMMA MinIsOne ==
    ASSUME NEW S \in SUBSET Fd, S # {}
    PROVE  Min(S) \in S
<1>0. S \subseteq Nat
  BY NfdsAssumption DEF Fd
<1>1. IsWellFoundedOn(OpToRel(<, Nat), Nat)
  BY NatLessThanWellFounded
<1>2. PICK x \in S : \A y \in S : ~(<<y, x>> \in OpToRel(<, Nat))
  BY <1>0, <1>1, WFMin
<1>3. \A y \in S : ~(y < x)
  BY <1>0, <1>2 DEF OpToRel
<1>4. \A y \in S : x <= y
  BY <1>0, <1>3
<1> QED
  BY <1>4 DEF Min

(* A free descriptor has no struct file.                                   *)
LEMMA FreeIsBare ==
    ASSUME NEW t, Good(t), NEW fd \in FreeFds(t)
    PROVE  fd \in Fd /\ t.kern[fd] = Closed /\ t.file[fd] = NoFile
BY DEF Good, AtRest, FreeFds

(* The spx device connects: its descriptor becomes a socket, and the one   *)
(* the socket was made at is free again.                                   *)
LEMMA SpxKeeps ==
    ASSUME NEW t, Good(t), NEW fd \in Fd, t.file[fd].ops = "chrdev", FreeFds(t) # {},
           NEW u, u = SpxConnect(t, fd)
    PROVE  Good(u) /\ (Routed(t) => Routed(u))
<1>0. PICK probed, sock, k, opened, d, swapped, v :
         /\ probed = Fput(Fget(t, fd), fd) /\ sock = Lowest(probed)
         /\ k = SetKern(probed, sock, "sock") /\ opened = Inherit(k, sock)
         /\ d = DupFile(opened, sock, fd) /\ swapped = Close(d, sock)
         /\ v = Fput(swapped, fd) /\ u = Fget(v, fd)
  BY DEF SpxConnect, SetKern
<1>1. t \in Tab /\ RestAt(t, fd) /\ t.file[fd] # NoFile /\ t.kern[fd] # Closed
  BY AtRestAt, NoFileIsNone DEF Good, RestAt
<1>2. Good(probed) /\ (Routed(t) => Routed(probed))
  BY <1>0, UseKeeps
<1>3. Becomes(t, probed, fd, t.kern[fd], Used(t, fd))
  BY <1>0, <1>1, UseBecomes
<1>4. FreeFds(probed) = FreeFds(t) /\ probed.kern[fd] # Closed
  BY <1>1, <1>3 DEF Becomes, FreeFds
<1>5. sock \in FreeFds(probed)
  BY <1>0, <1>4, MinIsOne DEF Lowest, FreeFds
<1>6. sock \in Fd /\ sock # fd /\ probed.file[sock] = NoFile
  BY <1>2, <1>4, <1>5, FreeIsBare
<1>7. "sock" \in Kinds /\ "sock" \notin Device /\ "sock" # Closed
  BY DEF Kinds, Device, Closed
<1>8. Good(k) /\ Becomes(probed, k, sock, "sock", NoFile) /\ (Routed(probed) => Routed(k))
  BY <1>0, <1>2, <1>6, <1>7, KernelKeeps
<1>9. k \in Tab /\ k.kern[sock] = "sock" /\ RestAt(k, sock)
  BY <1>6, <1>8, AtRestAt DEF Good, Becomes
<1>10. Good(opened) /\ (Routed(k) => Routed(opened))
  BY <1>0, <1>6, <1>7, <1>8, <1>9, InheritKeeps
<1>11. Becomes(k, opened, sock, "sock", Socket)
  BY <1>0, <1>6, <1>7, <1>9, InheritBecomes
<1>12. Resting(Socket) /\ Socket # NoFile /\ Socket.ops = "socket"
  BY MadeRests DEF Socket
<1>13. opened.kern[sock] = "sock" /\ opened.file[sock] = Socket /\ opened \in Tab
       /\ AtRest(opened)
  BY <1>10, <1>11 DEF Becomes, Good
<1>14. Good(d) /\ (Routed(opened) => Routed(d))
  BY <1>0, <1>6, <1>7, <1>10, <1>12, <1>13, DupKeeps
<1>15. Becomes(opened, d, fd, "sock", Socket) /\ fd < d.max
  BY <1>0, <1>6, <1>7, <1>12, <1>13, DupBecomes
<1>16. Good(swapped) /\ (Routed(d) => Routed(swapped))
  BY <1>0, <1>6, <1>14, CloseKeeps
<1>17. Becomes(d, swapped, sock, Closed, NoFile)
  BY <1>0, <1>6, <1>14, CloseBecomes DEF Good
<1>18. swapped \in Tab /\ swapped.kern[fd] = "sock" /\ swapped.file[fd] = Socket
       /\ AtRest(swapped)
  BY <1>6, <1>15, <1>16, <1>17 DEF Becomes, Good
<1>19. Becomes(swapped, v, fd, "sock", Left(Socket))
  BY <1>0, <1>12, <1>18, FputBecomes DEF Resting
<1>20. Left(Socket) = Counted(Socket, -1) /\ Counted(Socket, -1) \in StructFile
  BY <1>12, CountedIsFile DEF Left, Resting
<1>21. v \in Tab /\ v.kern[fd] = "sock" /\ v.file[fd] = Counted(Socket, -1)
  BY <1>19, <1>20 DEF Becomes
<1>22. Found(v, fd) = Counted(Socket, -1)
  BY <1>20, <1>21, NoFileIsNone DEF Found
<1>23. Counted(Counted(Socket, -1), 1) = Socket
  <2>0. PICK a, b : a = Counted(Socket, -1) /\ b = Counted(a, 1)
    OBVIOUS
  <2>1. Socket \in StructFile /\ Socket.count = 0 /\ Socket.isopen = TRUE
    BY <1>12 DEF Resting
  <2>2. /\ a \in StructFile /\ a.count = Socket.count + (-1) /\ a.isopen = TRUE
        /\ a.ops = Socket.ops /\ a.mode = Socket.mode /\ a.minor = Socket.minor
    <3>1. -1 \in Int
      OBVIOUS
    <3> QED
      BY <2>0, <2>1, <3>1, CountedIsFile
  <2>3. /\ b \in StructFile /\ b.count = a.count + 1 /\ b.isopen = TRUE
        /\ b.ops = Socket.ops /\ b.mode = Socket.mode /\ b.minor = Socket.minor
    BY <2>0, <2>2, CountedIsFile
  <2>4. b.count = 0
    BY <2>1, <2>2, <2>3
  <2>5. b = Made(b.ops, b.mode, b.minor)
    BY <2>3, <2>4, RestingIsMade DEF Resting
  <2>6. Socket = Made(Socket.ops, Socket.mode, Socket.minor)
    BY <1>12, RestingIsMade
  <2> QED
    BY <2>0, <2>3, <2>5, <2>6
<1>24. Becomes(v, u, fd, "sock", Socket) /\ fd < u.max
  BY <1>0, <1>21, <1>22, <1>23, FgetBecomes
<1>25. Becomes(swapped, u, fd, "sock", Socket)
  BY <1>18, <1>19, <1>24, BecomesTwice
<1>26. AtRest(u)
  BY <1>7, <1>12, <1>18, <1>24, <1>25, BecomesAtRest
<1>27. Routed(swapped) => Routed(u)
  BY <1>7, <1>12, <1>25, BecomesRouted
<1>28. Routed(t) => Routed(u)
  BY <1>2, <1>8, <1>10, <1>14, <1>16, <1>27
<1> QED
  BY <1>25, <1>26, <1>28 DEF Good, Becomes
-----------------------------------------------------------------------------
(* The inductive invariant: the tables have their types and are at rest.   *)
(* Routed is no part of it, F_DUPFD and dup2 break it: what every other    *)
(* step does to it is RouteStep.                                           *)
Inv == Good(tab)
RouteStep == Routed(tab) => Routed(tab')

(* The tables the process starts with are at rest.                         *)
LEMMA InitInv == FdTableInit => Inv
<1> SUFFICES ASSUME FdTableInit PROVE Good(tab)
  BY DEF Inv
<1>1. PICK k \in {"file", "sock"} :
         tab = [kern |-> [fd \in Fd |-> IF fd = 0 THEN k ELSE Closed],
                file |-> [fd \in Fd |-> NoFile], max |-> (StartFd + 1) * 2]
  BY DEF FdTableInit
<1>2. StartFd \in Nat
  BY NfdsAssumption
<1>3. (StartFd + 1) * 2 \in Nat
  BY <1>2
<1>4. tab \in Tab
  BY <1>1, <1>3 DEF Tab, Entry, Kinds, Closed
<1>5. AtRest(tab)
  BY <1>1 DEF AtRest
<1> QED
  BY <1>4, <1>5 DEF Good

(* Where a call takes the lowest free descriptor, there is one and it has  *)
(* no struct file.                                                         *)
LEMMA LowestIsBare ==
    ASSUME NEW t, Good(t), FreeFds(t) # {}
    PROVE  /\ Lowest(t) \in FreeFds(t) /\ Lowest(t) \in Fd
           /\ t.kern[Lowest(t)] = Closed /\ t.file[Lowest(t)] = NoFile
<1>1. Lowest(t) \in FreeFds(t)
  BY MinIsOne DEF Lowest, FreeFds
<1> QED
  BY <1>1, FreeIsBare

(* dup and dup2, also when the descriptor is just beyond the table: then   *)
(* there is no struct file and only the kernel's table changes.            *)
LEMMA DupToKeeps ==
    ASSUME Inv, NEW fd \in Fd, NEW new \in Fd, fd # new, IsOpen(fd), DupTo(fd, new)
    PROVE  /\ Inv'
           /\ (tab.file[fd] = NoFile => tab.file[new] = NoFile) => RouteStep
<1>1. Good(tab) /\ tab \in Tab /\ tab.kern[fd] # Closed /\ tab.kern[fd] \in Kinds
  BY TabParts DEF Inv, Good, IsOpen
<1>2. CASE ~BeyondTable(fd)
  <2>1. tab' = DupFile(tab, fd, new)
    BY <1>2 DEF DupTo
  <2> QED
    BY <1>1, <2>1, DupKeeps DEF Inv, RouteStep
<1>3. CASE BeyondTable(fd)
  <2>1. tab' = SetKern(tab, new, tab.kern[fd])
    BY <1>3 DEF DupTo, SetKern
  <2>2. tab.file[fd] = NoFile
    <3>1. ~(fd < tab.max)
      BY <1>1, <1>3 DEF BeyondTable, Tab
    <3> QED
      BY <1>1, <3>1 DEF Good, AtRest
  <2>3. Routed(tab) => tab.kern[fd] \notin Device
    BY <2>2, NoFileIsNone DEF Routed
  <2> QED
    BY <1>1, <2>1, <2>2, <2>3, KernelKeeps DEF Inv, RouteStep
<1> QED
  BY <1>2, <1>3

(* open_chrdev keeps the tables in step: the device it opens is routed.    *)
LEMMA OpenDeviceKeeps ==
    ASSUME Inv, NEW dev \in Device, OpenDevice(dev)
    PROVE  Inv' /\ RouteStep
<1>1. Good(tab) /\ tab \in Tab /\ AtRest(tab) /\ FreeFds(tab) # {}
      /\ tab' = OpenChrdev(tab, dev)
  BY DEF Inv, Good, OpenDevice
<1>2. Lowest(tab) \in FreeFds(tab) /\ Lowest(tab) \in Fd
  BY <1>1, LowestIsBare
<1>3. Lowest(tab) < tab'.max /\ Becomes(tab, tab', Lowest(tab), dev, Chrdev(dev))
  BY <1>1, <1>2, OpenChrdevBecomes
<1>4. Resting(Chrdev(dev)) /\ Chrdev(dev).ops = "chrdev"
  BY MadeRests DEF Chrdev
<1>5. dev # Closed
  BY DEF Device, Closed
<1>6. AtRest(tab')
  BY <1>1, <1>2, <1>3, <1>4, <1>5, BecomesAtRest
<1>7. Routed(tab) => Routed(tab')
  BY <1>2, <1>3, <1>4, BecomesRouted
<1> QED
  BY <1>3, <1>6, <1>7 DEF Inv, Good, Becomes, RouteStep

(* The steps of FdTableNext: the invariant holds after each, and each but  *)
(* F_DUPFD and dup2 without a struct file keeps the routing.               *)
LEMMA NextInv ==
    ASSUME Inv, [FdTableNext]_fdTableVars
    PROVE  /\ Inv'
           /\ \/ RouteStep
              \/ \E fd \in Fd : FcntlDupFd(fd)
              \/ \E fd, fd2 \in Fd :
                    tab.file[fd] = NoFile /\ IsOpen(fd2) /\ Dup2(fd, fd2)
<1>0. Good(tab) /\ tab \in Tab
  BY DEF Inv, Good
<1>1. CASE Lost \/ UNCHANGED fdTableVars
  BY <1>1 DEF Lost, fdTableVars, Inv, RouteStep
<1>2. CASE Open
  <2>1. tab' = SetKern(tab, Lowest(tab), "file") /\ FreeFds(tab) # {}
    BY <1>2 DEF Open, SetKern
  <2>2. Lowest(tab) \in Fd /\ tab.file[Lowest(tab)] = NoFile
    BY <1>0, <2>1, LowestIsBare
  <2>3. "file" \in Kinds \ Device
    BY DEF Kinds, Device
  <2> QED
    BY <1>0, <2>1, <2>2, <2>3, KernelKeeps DEF Inv, RouteStep
<1>3. CASE SocksysSocket
  <2>0. PICK fd, k : fd = Lowest(tab) /\ k = SetKern(tab, fd, "sock")
    OBVIOUS
  <2>1. tab' = Inherit(k, fd) /\ FreeFds(tab) # {}
    BY <1>3, <2>0 DEF SocksysSocket, SetKern
  <2>2. fd \in Fd /\ tab.file[fd] = NoFile
    BY <1>0, <2>0, <2>1, LowestIsBare
  <2>3. "sock" \in Kinds /\ "sock" \notin Device
    BY DEF Kinds, Device
  <2>4. /\ Good(k) /\ Becomes(tab, k, fd, "sock", NoFile)
        /\ Routed(tab) => Routed(k)
    BY <1>0, <2>0, <2>2, <2>3, KernelKeeps
  <2>5. k.kern[fd] \notin Device
    BY <2>3, <2>4 DEF Becomes
  <2> QED
    BY <2>1, <2>2, <2>4, <2>5, InheritKeeps DEF Inv, RouteStep
<1>4. ASSUME NEW dev \in Device, OpenDevice(dev)
      PROVE  Inv' /\ RouteStep
  BY <1>4, OpenDeviceKeeps
<1>5. ASSUME NEW fd \in Fd, CloseFd(fd)
      PROVE  Inv' /\ RouteStep
  <2>1. tab' = Close(tab, fd)
    BY <1>5 DEF CloseFd
  <2> QED
    BY <1>0, <2>1, CloseKeeps DEF Inv, RouteStep
<1>6. ASSUME NEW fd \in Fd, Dup(fd)
      PROVE  Inv' /\ RouteStep
  <2>1. IsOpen(fd) /\ FreeFds(tab) # {} /\ DupTo(fd, Lowest(tab))
    BY <1>6 DEF Dup
  <2>2. /\ Lowest(tab) \in Fd /\ tab.kern[Lowest(tab)] = Closed
        /\ tab.file[Lowest(tab)] = NoFile
    BY <1>0, <2>1, LowestIsBare
  <2>3. fd # Lowest(tab)
    BY <2>1, <2>2 DEF IsOpen
  <2> QED
    BY <2>1, <2>2, <2>3, DupToKeeps
<1>7. ASSUME NEW fd \in Fd, FcntlDupFd(fd)
      PROVE  Inv'
  <2>1. tab' = SetKern(tab, Lowest(tab), tab.kern[fd]) /\ FreeFds(tab) # {}
    BY <1>7 DEF FcntlDupFd, SetKern
  <2>2. Lowest(tab) \in Fd /\ tab.file[Lowest(tab)] = NoFile
    BY <1>0, <2>1, LowestIsBare
  <2> QED
    BY <1>0, <2>1, <2>2, TabParts, KernelKeeps DEF Inv
<1>8. ASSUME NEW fd \in Fd, UseFile(fd)
      PROVE  Inv' /\ RouteStep
  <2>1. tab' = Fput(Fget(tab, fd), fd)
    BY <1>8 DEF UseFile
  <2> QED
    BY <1>0, <2>1, UseKeeps DEF Inv, RouteStep
<1>9. ASSUME NEW fd \in Fd, ReadWrite(fd)
      PROVE  Inv' /\ RouteStep
  <2>1. CASE UNCHANGED tab
    BY <2>1 DEF Inv, RouteStep
  <2>2. CASE tab.file[fd].ops = "chrdev" /\ FreeFds(tab) # {} /\ tab' = SpxConnect(tab, fd)
    BY <1>0, <2>2, SpxKeeps DEF Inv, RouteStep
  <2> QED
    BY <1>9, <2>1, <2>2 DEF ReadWrite
<1>10. ASSUME NEW fd \in Fd, NEW fd2 \in Fd, Dup2(fd, fd2)
       PROVE  Inv' /\ (RouteStep \/ (tab.file[fd] = NoFile /\ IsOpen(fd2)))
  <2>1. IsOpen(fd) /\ fd # fd2 /\ DupTo(fd, fd2)
    BY <1>10 DEF Dup2
  <2>2. ~IsOpen(fd2) => tab.file[fd2] = NoFile
    BY <1>0 DEF Good, AtRest, IsOpen
  <2>3. Inv' /\ ((tab.file[fd] = NoFile => tab.file[fd2] = NoFile) => RouteStep)
    BY <2>1, DupToKeeps
  <2> QED
    BY <2>2, <2>3
<1>11. ASSUME NEW fd \in Fd, NEW fd2 \in Fd, SocksysPair(fd, fd2)
       PROVE  Inv' /\ RouteStep
  <2>0. PICK fetched : fetched = Fput(Fget(tab, fd), fd)
    OBVIOUS
  <2>1. tab' = fetched \/ tab' = Close(Close(fetched, fd), fd2)
    BY <1>11, <2>0 DEF SocksysPair
  <2>2. Good(fetched) /\ (Routed(tab) => Routed(fetched))
    BY <1>0, <2>0, UseKeeps
  <2>3. CASE tab' = fetched
    BY <2>2, <2>3 DEF Inv, RouteStep
  <2>4. CASE tab' = Close(Close(fetched, fd), fd2)
    <3>0. PICK half : half = Close(fetched, fd)
      OBVIOUS
    <3>1. Good(half) /\ (Routed(fetched) => Routed(half))
      BY <2>2, <3>0, CloseKeeps
    <3>2. Good(tab') /\ (Routed(half) => Routed(tab'))
      BY <2>4, <3>0, <3>1, CloseKeeps
    <3> QED
      BY <2>2, <3>1, <3>2 DEF Inv, RouteStep
  <2> QED
    BY <2>1, <2>3, <2>4
<1> QED
  BY <1>1, <1>2, <1>3, <1>4, <1>5, <1>6, <1>7, <1>8, <1>9, <1>10, <1>11
  DEF FdTableNext

(* A struct file lies inside the array, belongs to an open descriptor and  *)
(* is not referenced between system calls, for every sequence of them and  *)
(* every size of the table: in particular after a socketpair that faults   *)
(* half way and after the unmatched fput() of socksys_read.                *)
THEOREM FilesRest == FdTableSpec => []FilesAtRest
<1>1. FdTableInit => Inv
  BY InitInv
<1>2. Inv /\ [FdTableNext]_fdTableVars => Inv'
  BY NextInv
<1>3. Inv => FilesAtRest
  BY DEF Inv, Good, AtRest, FilesAtRest
<1> QED
  BY <1>1, <1>2, <1>3, PTL DEF FdTableSpec

(* Routed is both directions of the routing properties.                    *)
LEMMA RoutedIs == Routed(tab) <=> DeviceRouted /\ OthersNotRouted
BY DEF Routed, DeviceRouted, OthersNotRouted

(* No system call but fcntl(F_DUPFD), and dup2() of a descriptor without a *)
(* struct file onto an open one, takes a device from its driver or gives a *)
(* plain descriptor to one.                                                *)
THEOREM RoutesKept == FdTableSpec => RoutingKept
<1> DEFINE Step ==
       \/ DeviceRouted /\ OthersNotRouted => DeviceRouted' /\ OthersNotRouted'
       \/ \E fd \in Fd : FcntlDupFd(fd)
       \/ \E fd, fd2 \in Fd :
             tab.file[fd] = NoFile /\ IsOpen(fd2) /\ Dup2(fd, fd2)
<1>1. FdTableInit => Inv
  BY InitInv
<1>2. Inv /\ [FdTableNext]_fdTableVars => Inv'
  BY NextInv
<1>3. Inv /\ [FdTableNext]_fdTableVars => [Step]_fdTableVars
  <2> SUFFICES ASSUME Inv, [FdTableNext]_fdTableVars PROVE Step
    OBVIOUS
  <2>1. Routed(tab)' <=> DeviceRouted' /\ OthersNotRouted'
    BY DEF Routed, DeviceRouted, OthersNotRouted
  <2>2. RouteStep =>
           (DeviceRouted /\ OthersNotRouted => DeviceRouted' /\ OthersNotRouted')
    BY <2>1, RoutedIs DEF RouteStep
  <2>3. \/ RouteStep
        \/ \E fd \in Fd : FcntlDupFd(fd)
        \/ \E fd, fd2 \in Fd :
              tab.file[fd] = NoFile /\ IsOpen(fd2) /\ Dup2(fd, fd2)
    BY NextInv
  <2> QED
    BY <2>2, <2>3
<1> QED
  BY <1>1, <1>2, <1>3, PTL DEF FdTableSpec, RoutingKept
=============================================================================
