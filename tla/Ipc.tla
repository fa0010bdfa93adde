--------------------------------- MODULE Ipc ---------------------------------
(***************************************************************************)
(* System V IPC (per-svr4/ipc.c): semsys, shmsys and msgsys and their ctl  *)
(* calls, which convert the structures of the program, in the old ("short" *)
(* ids) and the "fat" format, to those of Linux and back.                  *)
(*                                                                         *)
(* There is one object, of a kind chosen at the start.  Ids and sizes from *)
(* Limit on do not fit in the 16 bits that the short format, and Linux's   *)
(* own old format, have for them; Linux then reports Limit - 2 (ids) or    *)
(* Limit - 1 (sizes).                                                      *)
(***************************************************************************)
EXTENDS Integers, FiniteSets

CONSTANTS
    Limit,          \* stands for 2^16
    Ids,            \* user ids and sizes in use
    NSems,          \* semaphores in the set
    Arrays,         \* some of the arrays of values it is given
    Addresses,      \* where Linux may attach a segment, as signed integers
    IpcErrnos       \* what Linux may refuse a call with

ASSUME IpcAssumption ==
    /\ Limit \in Nat /\ Limit > 2 /\ Ids \subseteq Nat /\ NSems \in 1 .. 14
    /\ Arrays \subseteq [0 .. NSems - 1 -> Nat]
    /\ Addresses \subseteq Int \ (-254 .. -1) /\ IpcErrnos \subseteq 1 .. 254

Kinds == {"sem", "shm", "msg"}
Formats == {"short", "long"}
Half == 0 .. 15                 \* halfwords of a struct ibcs2_semid_ds

VARIABLES
    kind,       \* of the object
    obj,        \* Linux's object: live, uid, size
    mine,       \* may this process change it
    sems,       \* the values of the set's semaphores
    copy,       \* the structure the program last read
    array,      \* the halfwords at the address it gives SETALL and GETALL
    setall,     \* the array it last gave SETALL, if no SETVAL came since
    attached,   \* the segment's address, or 0
    reply       \* of the last call: what Linux did, what the program sees

ipcVars == <<kind, obj, mine, sems, copy, array, setall, attached, reply>>

NoReply == [call |-> "none", linux |-> 0, seen |-> 0]
Gone == [live |-> FALSE, uid |-> 0, size |-> 0]

IpcInit ==
    /\ kind \in Kinds /\ obj = Gone /\ mine = FALSE
    /\ sems = [i \in 0 .. NSems - 1 |-> 0]
    /\ copy = Gone
    /\ array = [i \in Half |-> 0] /\ setall = {}
    /\ attached = 0 /\ reply = NoReply

Answer(call, linux, seen) == reply' = [call |-> call, linux |-> linux, seen |-> seen]
-----------------------------------------------------------------------------
(* Linux's old-format structures: what IPC_STAT tells, IPC_SET takes.      *)
LinuxTells(o) ==
    [o EXCEPT !.uid = IF @ < Limit THEN @ ELSE Limit - 2,
              !.size = IF @ < Limit THEN @ ELSE Limit - 1]

(* ip_to_lp, lp_to_ip and the _l forms: every field, in 16 bits when the   *)
(* format is short.  In the long one the ids come from Linux's 16 bits and *)
(* go back to them: what LinuxTells told is not cut again.                 *)
PermConvert(format, ds) ==
    IF format = "short" THEN [ds EXCEPT !.uid = @ % Limit] ELSE ds

SemConvert(format, ds) == PermConvert(format, ds)
ShmConvert(format, ds) == PermConvert(format, ds)
MsqConvert(format, ds) ==
    LET p == PermConvert(format, ds)
    IN  IF format = "short" THEN [p EXCEPT !.size = @ % Limit] ELSE p

Convert(format, ds) ==
    CASE kind = "sem" -> SemConvert(format, ds)
      [] kind = "shm" -> ShmConvert(format, ds)
      [] kind = "msg" -> MsqConvert(format, ds)

(* IPC_SET changes the owner and, of a queue, the size.  imsq_to_lmsq does *)
(* not set msg_lqbytes, which Linux takes when msg_qbytes is 0.            *)
LinuxSet(ds) ==
    {[obj EXCEPT !.uid = ds.uid, !.size = s] :
        s \in CASE kind # "msg" -> {obj.size}
                [] kind = "msg" /\ ds.size = 0 -> Ids
                [] OTHER -> {ds.size}}
-----------------------------------------------------------------------------
(* semget, shmget, msgget: the object is created, by this process or not.  *)
Get(owned, uid, size) ==
    /\ ~obj.live
    /\ obj' = [live |-> TRUE, uid |-> uid, size |-> size]
    /\ mine' = owned
    /\ sems' = [i \in 0 .. NSems - 1 |-> 0] /\ setall' = {}
    /\ Answer("get", 0, 0)
    /\ UNCHANGED <<kind, copy, array, attached>>

(* __ibcs2_semctl and __abi4_semctl, shmctl and msgctl with IPC_STAT.      *)
Stat(k, format) ==
    /\ kind = k
    /\ IF obj.live
       THEN copy' = Convert(format, LinuxTells(obj)) /\ Answer("stat", 0, 0)
       ELSE Answer("stat", 22, 22) /\ UNCHANGED copy
    /\ UNCHANGED <<kind, obj, mine, sems, array, setall, attached>>

SemctlStat(format) == Stat("sem", format)
ShmctlStat(format) == Stat("shm", format)
MsgctlStat(format) == Stat("msg", format)

(* Why Linux refuses to change the object: it is gone, or it is another's. *)
Refusal == CASE ~obj.live -> 22 [] obj.live /\ ~mine -> 1 [] OTHER -> 0

(* __ibcs2_semctl, __abi4_semctl with IPC_SET.                             *)
SemctlSet(format) ==
    /\ kind = "sem"
    /\ obj' \in IF Refusal = 0 THEN LinuxSet(Convert(format, copy)) ELSE {obj}
    /\ Answer("set", Refusal, Refusal)
    /\ UNCHANGED <<kind, mine, sems, copy, array, setall, attached>>

(* Mutant: the error of IPC_SET is lost, as msgctl's is.                   *)
ShmctlSetLoses(format) ==
    /\ kind = "shm"
    /\ obj' \in IF Refusal = 0 THEN LinuxSet(Convert(format, copy)) ELSE {obj}
    /\ Answer("set", Refusal, 0)
    /\ UNCHANGED <<kind, mine, sems, copy, array, setall, attached>>

(* svr4_shmctl with IPC_SET.                                               *)
ShmctlSet(format) ==
    /\ kind = "shm"
    /\ obj' \in IF Refusal = 0 THEN LinuxSet(Convert(format, copy)) ELSE {obj}
    /\ Answer("set", Refusal, Refusal)
    /\ UNCHANGED <<kind, mine, sems, copy, array, setall, attached>>

(* svr4_msgctl with IPC_SET, which does not look at Linux's answer.        *)
MsgctlSet(format) ==
    /\ kind = "msg"
    /\ obj' \in IF Refusal = 0 THEN LinuxSet(Convert(format, copy)) ELSE {obj}
    /\ Answer("msgset", Refusal, 0)
    /\ UNCHANGED <<kind, mine, sems, copy, array, setall, attached>>

(* IPC_RMID, handed to Linux.                                              *)
IpcRmid ==
    /\ obj' = IF Refusal = 0 THEN Gone ELSE obj
    /\ mine' = (mine /\ Refusal # 0)
    /\ Answer("rmid", Refusal, Refusal)
    /\ UNCHANGED <<kind, sems, copy, array, setall, attached>>
-----------------------------------------------------------------------------
(* SETALL and GETALL go through __ibcs2_semctl as if the array were a      *)
(* struct ibcs2_semid_ds: isem_to_lsem moves its halfwords to where the    *)
(* fields are in Linux's struct semid_ds, which Linux takes for the array. *)
(* The keys of the two structures are at opposite ends of their permission *)
(* records, so the first eight halfwords are rotated by two.               *)

(* Mutant: the key is not copied.                                          *)
SlotNoKey(i) ==
    CASE i \in 0 .. 5 -> i + 2 [] i \in 8 .. 9 -> i + 4
      [] i \in 12 .. 15 -> i - 4 [] OTHER -> 20 + i

Slot(i) ==
    CASE i \in 0 .. 5 -> i + 2 [] i \in 6 .. 7 -> i - 6
      [] i \in 8 .. 9 -> i + 4 [] i \in 12 .. 15 -> i - 4
      [] OTHER -> 20 + i        \* sem_nsems and the pad: beyond any array

SemctlSetall(values) ==
    /\ kind = "sem"
    /\ array' = [i \in Half |-> IF i < NSems THEN values[i] ELSE array[i]]
    /\ IF Refusal # 0 THEN UNCHANGED <<sems, setall>>
       ELSE /\ sems' = [j \in 0 .. NSems - 1 |->
                          LET from == {i \in Half : Slot(i) = j}
                          IN  IF from = {} THEN 0
                              ELSE array'[CHOOSE i \in from : TRUE]]
            /\ setall' = {values}
    /\ Answer("setall", Refusal, Refusal)
    /\ UNCHANGED <<kind, obj, mine, copy, attached>>

SemctlGetall ==
    /\ kind = "sem" /\ obj.live
    /\ array' = [i \in Half |-> IF Slot(i) < NSems THEN sems[Slot(i)] ELSE array[i]]
    /\ Answer("getall", 0, 0)
    /\ UNCHANGED <<kind, obj, mine, sems, copy, setall, attached>>

(* SETVAL of 0, or semop: one semaphore changes, Linux's.                  *)
SemctlSetval(i) ==
    /\ kind = "sem" /\ Refusal = 0
    /\ sems' = [sems EXCEPT ![i] = 0]
    /\ setall' = {} /\ Answer("setval", 0, 0)
    /\ UNCHANGED <<kind, obj, mine, copy, array, attached>>

(* The program uses the memory for something else.                         *)
Scribble == /\ kind = "sem" /\ array' = [i \in Half |-> 0] /\ array # array'
            /\ reply' = NoReply
            /\ UNCHANGED <<kind, obj, mine, sems, copy, setall, attached>>
-----------------------------------------------------------------------------
(* svr4_shmsys: only small negative results are errors.                    *)
ShmsysSeen(err) == IF err < 0 /\ err > -255 THEN -err ELSE 0

Shmat(addr) ==
    /\ kind = "shm" /\ obj.live /\ attached = 0
    /\ attached' = addr /\ Answer("shmat", 0, ShmsysSeen(addr))
    /\ UNCHANGED <<kind, obj, mine, sems, copy, array, setall>>

ShmatFails(errno) ==
    /\ kind = "shm" /\ Answer("shmat", errno, ShmsysSeen(-errno))
    /\ UNCHANGED <<kind, obj, mine, sems, copy, array, setall, attached>>

Shmdt ==
    /\ attached # 0 /\ attached' = 0 /\ Answer("shmdt", 0, 0)
    /\ UNCHANGED <<kind, obj, mine, sems, copy, array, setall>>

(* Another process gives an object away, or itself the right to change it. *)
Chown(uid, owned) ==
    /\ obj.live /\ obj.uid # uid
    /\ obj' = [obj EXCEPT !.uid = uid] /\ mine' = owned
    /\ UNCHANGED <<kind, sems, copy, array, setall, attached, reply>>

IpcNext ==
    \/ \E owned \in BOOLEAN, uid \in Ids, size \in Ids : Get(owned, uid, size)
    \/ \E format \in Formats :
          \/ SemctlStat(format) \/ ShmctlStat(format) \/ MsgctlStat(format)
          \/ SemctlSet(format) \/ ShmctlSet(format) \/ MsgctlSet(format)
    \/ IpcRmid
    \/ \E values \in Arrays : SemctlSetall(values)
    \/ SemctlGetall \/ Scribble
    \/ \E i \in {0, NSems - 1} : SemctlSetval(i)
    \/ \E addr \in Addresses : Shmat(addr)
    \/ \E errno \in IpcErrnos : ShmatFails(errno)
    \/ Shmdt
    \/ \E uid \in Ids, owned \in BOOLEAN : Chown(uid, owned)

IpcSpec == IpcInit /\ [][IpcNext]_ipcVars
-----------------------------------------------------------------------------
(* Of a set of 8 to 14 semaphores the first eight values are read back as  *)
(* they were written, whatever the program's memory holds meanwhile: there *)
(* the two conversions of the array undo each other.  From the ninth on    *)
(* they do not, and nothing is said: sem_nsems and the pad of a struct     *)
(* ibcs2_semid_ds have no place in Linux's first fourteen halfwords.       *)
SetallReadBack ==
    NSems \in 8 .. 14 /\ reply.call = "getall" =>
        \A values \in setall : \A i \in 0 .. 7 : array[i] = values[i]

Sets == {"set", "msgset"}
Fits(o) == o.uid < Limit /\ o.size < Limit

(* What Linux refused the program sees refused, and what it did not refuse *)
(* is no error, whatever the address it answers with; msgctl's IPC_SET is  *)
(* excepted, whose failure is not reported.  An IPC_SET that succeeded, in *)
(* either format, made the object what the program's structure says, so    *)
(* that setting what IPC_STAT told changes nothing.                        *)
AnswersTruthful ==
    [][reply' # reply =>
          /\ reply'.call # "msgset" => (reply'.seen = 0 <=> reply'.linux = 0)
          /\ (reply'.call \in Sets /\ reply'.linux = 0 /\ Fits(copy)) =>
                /\ obj'.uid = copy.uid
                /\ kind = "msg" /\ copy.size # 0 => obj'.size = copy.size
                /\ copy = obj /\ (kind = "msg" => copy.size # 0) => obj' = obj
      ]_ipcVars
=============================================================================
