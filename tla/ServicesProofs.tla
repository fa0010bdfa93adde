--------------------------- MODULE ServicesProofs ---------------------------
(***************************************************************************)
(* Proofs about Ipc and Sockets: for any range of ids, any number of       *)
(* semaphores and any arrays given them; for any flag words and any number *)
(* of waiting messages; and for any options of a socket, through each of   *)
(* the three ways in.                                                      *)
(***************************************************************************)
EXTENDS Ipc, Sockets, SequenceTheorems, TLAPS

(***************************************************************************)
(* System V IPC.                                                           *)
(***************************************************************************)

ObjectType == [live : BOOLEAN, uid : Nat, size : Nat]
ObjectInv == kind \in Kinds /\ obj \in ObjectType /\ copy \in ObjectType /\ mine \in BOOLEAN

(* The semaphores are where the halfwords of the last array given them     *)
(* went, and a GETALL that nothing followed has fetched them from there.   *)
ValuesInv ==
    /\ sems \in [0 .. NSems - 1 -> Nat] /\ setall \subseteq Arrays
    /\ array \in [Half -> Nat]
    /\ NSems \in 8 .. 14 =>
          \A values \in setall : \A i \in 0 .. 7 :
              sems[Slot(i)] = values[i]
    /\ SetallReadBack

IpcInv == ObjectInv /\ ValuesInv

(* A number that fits is what is left of it modulo the limit.              *)
LEMMA FitsAsItIs ==
    ASSUME NEW l \in Nat, l > 2, NEW n \in Nat
    PROVE  n % l \in Nat /\ (n < l => n % l = n)
OBVIOUS

(* A conversion gives a structure of the same type, and leaves one that    *)
(* fits as it is, in either format.                                        *)
LEMMA ConvertFits ==
    ASSUME ObjectInv, NEW format \in Formats, NEW ds \in ObjectType
    PROVE  Convert(format, ds) \in ObjectType
           /\ (Fits(ds) => Convert(format, ds) = ds)
<1>1. /\ ds.uid \in Nat /\ ds.size \in Nat /\ ds.live \in BOOLEAN
      /\ Limit \in Nat /\ Limit > 2 /\ kind \in Kinds
  BY IpcAssumption DEF ObjectType, ObjectInv
<1>2. /\ ds.uid % Limit \in Nat /\ (ds.uid < Limit => ds.uid % Limit = ds.uid)
      /\ ds.size % Limit \in Nat /\ (ds.size < Limit => ds.size % Limit = ds.size)
  BY <1>1, FitsAsItIs
<1>3. PICK u \in Nat : u = ds.uid % Limit
  BY <1>2
<1>4. PICK z \in Nat : z = ds.size % Limit
  BY <1>2
<1>5. /\ Convert(format, ds) \in {ds, [ds EXCEPT !.uid = u],
                                 [[ds EXCEPT !.uid = u] EXCEPT !.size = z]}
  BY <1>1, <1>3, <1>4 DEF Convert, SemConvert, ShmConvert, MsqConvert, PermConvert,
     Kinds, ObjectType, Formats
<1>6. Convert(format, ds) \in ObjectType
  BY <1>1, <1>5 DEF ObjectType
<1>7. ASSUME Fits(ds) PROVE Convert(format, ds) = ds
  <2>1. u = ds.uid /\ z = ds.size
    BY <1>2, <1>3, <1>4, <1>7 DEF Fits
  <2>2. [ds EXCEPT !.uid = u] = ds
    BY <2>1 DEF ObjectType
  <2>3. [ds EXCEPT !.size = z] = ds
    BY <2>1 DEF ObjectType
  <2> QED
    BY <1>5, <2>2, <2>3
<1> QED
  BY <1>6, <1>7

(* What Linux tells of an object has the type of one.                      *)
LEMMA LinuxTellsType ==
    ASSUME NEW o \in ObjectType
    PROVE  LinuxTells(o) \in ObjectType
<1>. /\ o.uid \in Nat /\ o.size \in Nat
     /\ Limit \in Nat /\ Limit - 2 \in Nat /\ Limit - 1 \in Nat
  BY IpcAssumption DEF ObjectType
<1>1. PICK u \in Nat : u = IF o.uid < Limit THEN o.uid ELSE Limit - 2
  OBVIOUS
<1>2. PICK z \in Nat : z = IF o.size < Limit THEN o.size ELSE Limit - 1
  OBVIOUS
<1>3. LinuxTells(o) = [o EXCEPT !.uid = u, !.size = z]
  BY <1>1, <1>2 DEF LinuxTells
<1> QED
  BY <1>3 DEF ObjectType

(* IPC_SET leaves the object an object.                                    *)
LEMMA LinuxSetType ==
    ASSUME ObjectInv, NEW ds \in ObjectType, NEW o \in LinuxSet(ds)
    PROVE  o \in ObjectType
           /\ o.uid = ds.uid
           /\ (kind = "msg" /\ ds.size # 0 => o.size = ds.size)
           /\ (ds = obj /\ (kind = "msg" => ds.size # 0) => o = obj)
<1>1. obj \in ObjectType /\ kind \in Kinds /\ Ids \subseteq Nat
  BY IpcAssumption DEF ObjectInv
<1>2. PICK s \in Nat : /\ o = [obj EXCEPT !.uid = ds.uid, !.size = s]
                       /\ kind # "msg" => s = obj.size
                       /\ kind = "msg" /\ ds.size # 0 => s = ds.size
  <2>1. PICK s \in CASE kind # "msg" -> {obj.size}
                      [] kind = "msg" /\ ds.size = 0 -> Ids
                      [] OTHER -> {ds.size} :
              o = [obj EXCEPT !.uid = ds.uid, !.size = s]
    BY DEF LinuxSet
  <2>2. obj.size \in Nat /\ ds.size \in Nat
    BY <1>1 DEF ObjectType
  <2>3. CASE kind # "msg"
    <3>1. s = obj.size
      BY <2>1, <2>3
    <3> QED
      BY <2>1, <2>2, <2>3, <3>1
  <2>4. CASE kind = "msg" /\ ds.size = 0
    BY <1>1, <2>1, <2>2, <2>4
  <2>5. CASE kind = "msg" /\ ds.size # 0
    BY <2>1, <2>2, <2>5
  <2> QED
    BY <2>3, <2>4, <2>5
<1> QED
  BY <1>1, <1>2 DEF ObjectType

(* What a call refused, or did not, the program sees; and an IPC_SET does  *)
(* what the program's structure says.                                      *)
Truthful ==
    /\ reply'.call # "msgset" => (reply'.seen = 0 <=> reply'.linux = 0)
    /\ (reply'.call \in Sets /\ reply'.linux = 0 /\ Fits(copy)) =>
          /\ obj'.uid = copy.uid
          /\ kind = "msg" /\ copy.size # 0 => obj'.size = copy.size
          /\ copy = obj /\ (kind = "msg" => copy.size # 0) => obj' = obj

(* Every IPC_SET, of whatever kind of object: from the objects to the      *)
(* objects, and truthful.                                                  *)
LEMMA SetStep ==
    ASSUME ObjectInv, NEW format \in Formats, NEW call \in Sets, NEW seen,
           obj' \in IF Refusal = 0 THEN LinuxSet(Convert(format, copy)) ELSE {obj},
           Answer(call, Refusal, seen), call # "msgset" => seen = Refusal,
           UNCHANGED <<kind, mine, copy>>
    PROVE  ObjectInv' /\ Truthful
<1>1. Convert(format, copy) \in ObjectType
  BY ConvertFits DEF ObjectInv
<1>2. reply'.call = call /\ reply'.linux = Refusal /\ reply'.seen = seen
  BY DEF Answer
<1>3. CASE Refusal = 0
  <2>1. obj' \in LinuxSet(Convert(format, copy))
    BY <1>3
  <2>2. obj' \in ObjectType
    BY <1>1, <2>1, LinuxSetType
  <2>3. ASSUME Fits(copy)
        PROVE  /\ obj'.uid = copy.uid
               /\ kind = "msg" /\ copy.size # 0 => obj'.size = copy.size
               /\ copy = obj /\ (kind = "msg" => copy.size # 0) => obj' = obj
    <3>1. copy \in ObjectType /\ Convert(format, copy) = copy
      BY <2>3, ConvertFits DEF ObjectInv
    <3> QED
      BY <2>1, <3>1, LinuxSetType
  <2> QED
    BY <1>2, <1>3, <2>2, <2>3 DEF ObjectInv, Truthful, Sets
<1>4. CASE Refusal # 0
  BY <1>2, <1>4 DEF ObjectInv, Truthful, Sets
<1> QED
  BY <1>3, <1>4

(* Every other call changes the object as an object, and is truthful when  *)
(* it sees what Linux answered.                                            *)
LEMMA ObjectStep ==
    ASSUME ObjectInv, IpcNext
    PROVE  ObjectInv' /\ (reply' # reply => Truthful)
<1>. kind \in Kinds /\ obj \in ObjectType /\ copy \in ObjectType /\ mine \in BOOLEAN
  BY DEF ObjectInv
<1>g. Gone \in ObjectType
  BY DEF Gone, ObjectType
<1>1. ASSUME NEW owned \in BOOLEAN, NEW uid \in Ids, NEW size \in Ids, Get(owned, uid, size)
      PROVE  ObjectInv' /\ Truthful
  BY <1>1, IpcAssumption DEF Get, Answer, ObjectInv, ObjectType, Truthful, Sets
<1>2. ASSUME NEW k, NEW format \in Formats, Stat(k, format)
      PROVE  ObjectInv' /\ Truthful
  <2>1. Convert(format, LinuxTells(obj)) \in ObjectType
    BY LinuxTellsType, ConvertFits
  <2> QED
    BY <1>2, <2>1 DEF Stat, Answer, ObjectInv, Truthful, Sets
<1>3. ASSUME NEW format \in Formats, SemctlSet(format) PROVE ObjectInv' /\ Truthful
  BY <1>3, SetStep DEF SemctlSet, Sets
<1>4. ASSUME NEW format \in Formats, ShmctlSet(format) PROVE ObjectInv' /\ Truthful
  BY <1>4, SetStep DEF ShmctlSet, Sets
<1>5. ASSUME NEW format \in Formats, MsgctlSet(format) PROVE ObjectInv' /\ Truthful
  BY <1>5, SetStep DEF MsgctlSet, Sets
<1>6. CASE IpcRmid
  BY <1>6, <1>g DEF IpcRmid, Answer, ObjectInv, Truthful, Sets
<1>7. ASSUME NEW values \in Arrays, SemctlSetall(values) PROVE ObjectInv' /\ Truthful
  BY <1>7 DEF SemctlSetall, Answer, ObjectInv, Truthful, Sets
<1>8. CASE SemctlGetall
  BY <1>8 DEF SemctlGetall, Answer, ObjectInv, Truthful, Sets
<1>9. CASE Scribble
  BY <1>9 DEF Scribble, NoReply, ObjectInv, Truthful, Sets
<1>10. ASSUME NEW i \in {0, NSems - 1}, SemctlSetval(i) PROVE ObjectInv' /\ Truthful
  BY <1>10 DEF SemctlSetval, Answer, ObjectInv, Truthful, Sets
<1>11. ASSUME NEW addr \in Addresses, Shmat(addr) PROVE ObjectInv' /\ Truthful
  <2>1. ShmsysSeen(addr) = 0
    BY IpcAssumption DEF ShmsysSeen
  <2> QED
    BY <1>11, <2>1 DEF Shmat, Answer, ObjectInv, Truthful, Sets
<1>12. ASSUME NEW errno \in IpcErrnos, ShmatFails(errno) PROVE ObjectInv' /\ Truthful
  <2>1. ShmsysSeen(-errno) # 0 /\ errno # 0
    BY IpcAssumption DEF ShmsysSeen
  <2> QED
    BY <1>12, <2>1 DEF ShmatFails, Answer, ObjectInv, Truthful, Sets
<1>13. CASE Shmdt
  BY <1>13 DEF Shmdt, Answer, ObjectInv, Truthful, Sets
<1>14. ASSUME NEW uid \in Ids, NEW owned \in BOOLEAN, Chown(uid, owned)
       PROVE  ObjectInv' /\ reply' = reply
  BY <1>14, IpcAssumption DEF Chown, ObjectInv, ObjectType
<1> QED
  BY <1>1, <1>2, <1>3, <1>4, <1>5, <1>6, <1>7, <1>8, <1>9, <1>10, <1>11, <1>12, <1>13,
     <1>14 DEF IpcNext, SemctlStat, ShmctlStat, MsgctlStat

(* Every call of semctl, shmctl, msgctl and the rest but msgctl's IPC_SET, *)
(* whose error ipc.c:710-715 loses: what Linux refused is seen refused and *)
(* what it did is seen done.  And every IPC_SET that Linux did, msgctl's   *)
(* too, made the object what the program's structure says, if its owner    *)
(* and size fit in 16 bits (per-svr4/ipc.c).                               *)
THEOREM AnswersKept == IpcSpec => AnswersTruthful
<1>1. IpcInit => ObjectInv
  <2>1. Gone \in ObjectType
    BY DEF Gone, ObjectType
  <2> QED
    BY <2>1 DEF IpcInit, ObjectInv
<1>2. ObjectInv /\ [IpcNext]_ipcVars => ObjectInv'
  BY ObjectStep DEF ipcVars, ObjectInv
<1>3. ObjectInv /\ [IpcNext]_ipcVars => [reply' # reply => Truthful]_ipcVars
  BY ObjectStep DEF ipcVars
<1>4. [reply' # reply => Truthful]_ipcVars => 
        [reply' # reply =>
          /\ reply'.call # "msgset" => (reply'.seen = 0 <=> reply'.linux = 0)
          /\ (reply'.call \in Sets /\ reply'.linux = 0 /\ Fits(copy)) =>
                /\ obj'.uid = copy.uid
                /\ kind = "msg" /\ copy.size # 0 => obj'.size = copy.size
                /\ copy = obj /\ (kind = "msg" => copy.size # 0) => obj' = obj
        ]_ipcVars
  BY DEF Truthful
<1> QED
  BY <1>1, <1>2, <1>3, <1>4, PTL DEF IpcSpec, AnswersTruthful

(* The first eight halfwords stay among the first eight, and no two of all *)
(* of them go to the same place.                                           *)
LEMMA SlotsDiffer ==
    /\ \A i \in Half : Slot(i) \in Nat
    /\ \A i \in 0 .. 7 : Slot(i) \in 0 .. 7
    /\ \A i, j \in Half : Slot(i) = Slot(j) => i = j
<1>1. \A i \in Half : 
         /\ i <= 5 => Slot(i) = i + 2
         /\ i \in 6 .. 7 => Slot(i) = i - 6
         /\ i \in 8 .. 9 => Slot(i) = i + 4
         /\ i \in 10 .. 11 => Slot(i) = 20 + i
         /\ i \in 12 .. 15 => Slot(i) = i - 4
  BY DEF Slot, Half
<1> QED
  BY <1>1 DEF Half

(* The first eight halfwords have a semaphore in a set of eight or more.   *)
LEMMA EighthFits ==
    ASSUME NSems \in 8 .. 14, NEW i \in 0 .. 7
    PROVE  i \in Half /\ i < NSems /\ Slot(i) < NSems /\ Slot(i) \in 0 .. NSems - 1
<1>1. Slot(i) \in 0 .. 7
  BY SlotsDiffer
<1> QED
  BY <1>1 DEF Half

(* What SETALL leaves in the semaphore that halfword i went to.            *)
LEMMA SetallStores ==
    ASSUME NEW values \in Arrays, ValuesInv, SemctlSetall(values), Refusal = 0,
           NSems \in 8 .. 14, NEW i \in 0 .. 7
    PROVE  sems'[Slot(i)] = values[i]
<1>1. i \in Half /\ i < NSems /\ Slot(i) \in 0 .. NSems - 1
  BY EighthFits
<1>2. array'[i] = values[i]
  BY <1>1 DEF SemctlSetall
<1>3. {k \in Half : Slot(k) = Slot(i)} = {i}
  BY <1>1, SlotsDiffer
<1>4. (CHOOSE k \in {k \in Half : Slot(k) = Slot(i)} : TRUE) = i
  BY <1>3
<1>5. sems' = [j \in 0 .. NSems - 1 |->
                  LET from == {k \in Half : Slot(k) = j}
                  IN  IF from = {} THEN 0 ELSE array'[CHOOSE k \in from : TRUE]]
  BY DEF SemctlSetall
<1>6. sems'[Slot(i)] = array'[i]
  BY <1>1, <1>3, <1>4, <1>5
<1> QED
  BY <1>2, <1>6

(* SETALL leaves numbers in the semaphores and in the program's array.     *)
LEMMA SetallTypes ==
    ASSUME NEW values \in Arrays, ValuesInv, SemctlSetall(values)
    PROVE  /\ array' \in [Half -> Nat]
           /\ Refusal = 0 => sems' \in [0 .. NSems - 1 -> Nat]
<1>1. values \in [0 .. NSems - 1 -> Nat] /\ array \in [Half -> Nat] /\ NSems \in Nat
  BY IpcAssumption DEF ValuesInv
<1>2. array' \in [Half -> Nat]
  <2>1. \A i \in Half : i < NSems => i \in 0 .. NSems - 1
    <3>1. NSems \in Nat
      BY <1>1
    <3> HIDE <1>1
    <3> QED
      BY <3>1 DEF Half
  <2>2. \A i \in Half : (IF i < NSems THEN values[i] ELSE array[i]) \in Nat
    BY <1>1, <2>1
  <2>3. array' = [i \in Half |-> IF i < NSems THEN values[i] ELSE array[i]]
    BY DEF SemctlSetall
  <2> QED
    BY <2>2, <2>3
<1>3. ASSUME Refusal = 0, NEW j \in 0 .. NSems - 1
      PROVE  (LET from == {k \in Half : Slot(k) = j}
              IN  IF from = {} THEN 0 ELSE array'[CHOOSE k \in from : TRUE]) \in Nat
  BY <1>2
<1> QED
  BY <1>2, <1>3 DEF SemctlSetall

(* Calls that touch neither the semaphores nor the program's array, and    *)
(* that are not a GETALL.                                                  *)
LEMMA ValuesStay ==
    ASSUME ValuesInv, UNCHANGED <<sems, array>>, setall' \in {setall, {}},
           reply' = reply \/ reply'.call # "getall"
    PROVE  ValuesInv'
BY DEF ValuesInv, SetallReadBack

(* Every call keeps the semaphores where SETALL put them.                  *)
LEMMA ValuesStep ==
    ASSUME ObjectInv, ValuesInv, IpcNext
    PROVE  ValuesInv'
<1>. /\ sems \in [0 .. NSems - 1 -> Nat] /\ setall \subseteq Arrays
     /\ array \in [Half -> Nat] /\ NSems \in Nat /\ NSems \in 1 .. 14
  BY IpcAssumption DEF ValuesInv
<1>1. ASSUME NEW owned \in BOOLEAN, NEW uid \in Ids, NEW size \in Ids, Get(owned, uid, size)
      PROVE  ValuesInv'
  <2>1. sems' \in [0 .. NSems - 1 -> Nat] /\ setall' = {} /\ array' = array
    BY <1>1 DEF Get
  <2> QED
    BY <2>1 DEF ValuesInv, SetallReadBack
<1>2. ASSUME NEW k, NEW format \in Formats, Stat(k, format) PROVE ValuesInv'
  BY <1>2, ValuesStay DEF Stat, Answer
<1>3. ASSUME NEW format \in Formats,
             SemctlSet(format) \/ ShmctlSet(format) \/ MsgctlSet(format)
      PROVE  ValuesInv'
  BY <1>3, ValuesStay DEF SemctlSet, ShmctlSet, MsgctlSet, Answer
<1>4. CASE IpcRmid
  BY <1>4, ValuesStay DEF IpcRmid, Answer
<1>5. ASSUME NEW values \in Arrays, SemctlSetall(values) PROVE ValuesInv'
  <2>1. reply'.call = "setall"
    BY <1>5 DEF SemctlSetall, Answer
  <2>2. SetallReadBack'
    BY <2>1 DEF SetallReadBack
  <2>3. CASE Refusal # 0
    <3>1. UNCHANGED <<sems, setall>> /\ array' \in [Half -> Nat]
      BY <1>5, <2>3, SetallTypes DEF SemctlSetall
    <3> QED
      BY <2>2, <3>1 DEF ValuesInv
  <2>4. CASE Refusal = 0
    <3>1. setall' = {values} /\ array' \in [Half -> Nat] /\ sems' \in [0 .. NSems - 1 -> Nat]
      BY <1>5, <2>4, SetallTypes DEF SemctlSetall
    <3>2. NSems \in 8 .. 14 => \A i \in 0 .. 7 : sems'[Slot(i)] = values[i]
      BY <1>5, <2>4, SetallStores
    <3> QED
      BY <2>2, <3>1, <3>2 DEF ValuesInv
  <2> QED
    BY <2>3, <2>4
<1>6. CASE SemctlGetall
  <2>1. \A i \in Half : Slot(i) < NSems => Slot(i) \in 0 .. NSems - 1
    BY SlotsDiffer
  <2>2. array' \in [Half -> Nat] /\ UNCHANGED <<sems, setall>>
    BY <1>6, <2>1 DEF SemctlGetall
  <2>3. ASSUME NSems \in 8 .. 14, NEW values \in setall, NEW i \in 0 .. 7
        PROVE  array'[i] = values[i]
    <3>1. i \in Half /\ Slot(i) < NSems
      BY <2>3, EighthFits
    <3>2. array'[i] = sems[Slot(i)]
      BY <1>6, <3>1 DEF SemctlGetall
    <3> QED
      BY <2>3, <3>2 DEF ValuesInv
  <2> QED
    BY <2>2, <2>3 DEF ValuesInv, SetallReadBack
<1>7. CASE Scribble
  <2>1. array' \in [Half -> Nat] /\ UNCHANGED <<sems, setall>> /\ reply'.call # "getall"
    BY <1>7 DEF Scribble, NoReply
  <2> QED
    BY <2>1 DEF ValuesInv, SetallReadBack
<1>8. ASSUME NEW i \in {0, NSems - 1}, SemctlSetval(i) PROVE ValuesInv'
  <2>1. /\ sems' \in [0 .. NSems - 1 -> Nat] /\ setall' = {} /\ array' = array
    BY <1>8 DEF SemctlSetval
  <2> QED
    BY <2>1 DEF ValuesInv, SetallReadBack
<1>9. ASSUME NEW addr \in Addresses, Shmat(addr) PROVE ValuesInv'
  BY <1>9, ValuesStay DEF Shmat, Answer
<1>10. ASSUME NEW errno \in IpcErrnos, ShmatFails(errno) PROVE ValuesInv'
  BY <1>10, ValuesStay DEF ShmatFails, Answer
<1>11. CASE Shmdt
  BY <1>11, ValuesStay DEF Shmdt, Answer
<1>12. ASSUME NEW uid \in Ids, NEW owned \in BOOLEAN, Chown(uid, owned) PROVE ValuesInv'
  BY <1>12, ValuesStay DEF Chown
<1> QED
  BY <1>1, <1>2, <1>3, <1>4, <1>5, <1>6, <1>7, <1>8, <1>9, <1>10, <1>11, <1>12
     DEF IpcNext, SemctlStat, ShmctlStat, MsgctlStat

(* For every number of semaphores from eight to fourteen, and whatever     *)
(* arrays the program gives, GETALL returns the first eight values that    *)
(* SETALL was given: on the halfwords of the permission record the two     *)
(* passages through the struct semid_ds undo each other (isem_to_lsem and  *)
(* lsem_to_isem of per-svr4/ipc.c).  The others are lost.                  *)
THEOREM ArraysReadBack == IpcSpec => []SetallReadBack
<1>1. IpcInit => IpcInv
  <2>1. Gone \in ObjectType
    BY DEF Gone, ObjectType
  <2>2. IpcInit => ObjectInv
    BY <2>1 DEF IpcInit, ObjectInv
  <2>3. IpcInit => ValuesInv
    BY IpcAssumption DEF IpcInit, ValuesInv, SetallReadBack, NoReply
  <2> QED
    BY <2>2, <2>3 DEF IpcInv
<1>2. IpcInv /\ [IpcNext]_ipcVars => IpcInv'
  <2>1. ASSUME IpcInv, UNCHANGED ipcVars PROVE IpcInv'
    BY <2>1 DEF IpcInv, ObjectInv, ValuesInv, SetallReadBack, ipcVars
  <2> QED
    BY <2>1, ObjectStep, ValuesStep DEF IpcInv
<1>3. IpcInv => SetallReadBack
  BY DEF IpcInv, ValuesInv
<1> QED
  BY <1>1, <1>2, <1>3, PTL DEF IpcSpec

(***************************************************************************)
(* Messages.                                                               *)
(***************************************************************************)

(* What waits at the socket is what waits there by the program's flags.    *)
MessagesInv == queue \in Seq({0, 1}) /\ due = queue /\ ReceivesAsAsked

(* Peeking and not waiting keep their meaning when the flags are           *)
(* renumbered.                                                             *)
LEMMA FlagsKeepMeaning ==
    ASSUME NEW flags
    PROVE  /\ 1 \in SolarisToLinuxMsgflags(flags) <=> 1 \in flags
           /\ 6 \in SolarisToLinuxMsgflags(flags) <=> 7 \in flags
<1>1. /\ \A p \in FlagPairs : /\ p[2] = 1 <=> p[1] = 1
                              /\ p[2] = 6 <=> p[1] = 7
      /\ <<1, 1>> \in FlagPairs /\ <<7, 6>> \in FlagPairs
  BY DEF FlagPairs
<1>2. \A n : n \in SolarisToLinuxMsgflags(flags) <=>
               \E p \in FlagPairs : p[1] \in flags /\ p[2] = n
  BY DEF SolarisToLinuxMsgflags
<1> QED
  BY <1>1, <1>2

(* send and sendto fail only when there is no room and the program would   *)
(* not wait for any.                                                       *)
LEMMA SendStep ==
    ASSUME MessagesInv, NEW flags, NEW m \in {0, 1}, Send(flags, m)
    PROVE  MessagesInv'
<1>1. queue' \in Seq({0, 1}) /\ due' = queue'
  BY DEF Send, MessagesInv
<1>2. /\ heard'.call = "send" /\ heard'.ok = ~(Len(queue) >= MaxQueue)
      /\ heard'.flags = flags
  BY DEF Send
<1>3. Len(queue) >= MaxQueue => 7 \in flags
  BY FlagsKeepMeaning DEF Send
<1> QED
  BY <1>1, <1>2, <1>3 DEF MessagesInv, ReceivesAsAsked

(* recv and recvfrom give the oldest message, and take it off unless the   *)
(* program only peeks.                                                     *)
LEMMA RecvStep ==
    ASSUME MessagesInv, NEW flags, Recv(flags)
    PROVE  MessagesInv'
<1>1. 1 \in SolarisToLinuxMsgflags(flags) <=> 1 \in flags
  BY FlagsKeepMeaning
<1>2. queue' \in Seq({0, 1}) /\ due' = queue'
  BY <1>1 DEF Recv, MessagesInv
<1>3. /\ heard'.call = "recv" /\ heard'.ok = (queue # <<>>)
      /\ heard'.flags = flags /\ heard'.value = heard'.due
  BY DEF Recv, MessagesInv
<1>4. queue = <<>> => 7 \in flags
  BY FlagsKeepMeaning DEF Recv
<1> QED
  BY <1>2, <1>3, <1>4 DEF MessagesInv, ReceivesAsAsked

(* For any flag words and any room at the socket, a send or a receive of   *)
(* Solaris's fails only if the program would not wait, and a receive gives *)
(* the oldest message the program has not taken: what waits in Linux is    *)
(* what waits by the program's own reading of its flags                    *)
(* (per-solaris/socket.c).                                                 *)
THEOREM ReceivedAsAsked == MessagesSpec => []ReceivesAsAsked
<1>1. SocketsInit => MessagesInv
  BY DEF SocketsInit, MessagesInv, ReceivesAsAsked
<1>2. MessagesInv /\ [MessagesNext]_socketVars => MessagesInv'
  <2>1. ASSUME MessagesInv, UNCHANGED socketVars PROVE MessagesInv'
    BY <2>1 DEF MessagesInv, ReceivesAsAsked, socketVars
  <2> QED
    BY <2>1, SendStep, RecvStep DEF MessagesNext
<1>3. MessagesInv => ReceivesAsAsked
  BY DEF MessagesInv
<1> QED
  BY <1>1, <1>2, <1>3, PTL DEF MessagesSpec

(***************************************************************************)
(* Socket options.                                                         *)
(***************************************************************************)

Vias == {"socksys", "wyse", "solaris"}

(* Where a first call on option o goes.                                    *)
Option(o) == OptionCall(Block("get", o, 4, 0), FALSE)
Goes(o) == <<Option(o).level, Option(o).name>>

(* The options OptionReadBack excepts, and the ones that spoil others.     *)
Excepted(o) == o \in AnsweredHere \/ (via # "solaris" /\ o \in {<<0, 1>>, <<0, 5>>})
Spoils(o) ==
    \/ via = "wyse" /\ o[1] = 0 /\ o[2] \in 1 .. 5
    \/ via = "solaris" /\ o[1] = 0 /\ o[2] \in 32 .. 36
Spoilt == \E o \in ProgramOptions : believed[o] # Unset /\ Spoils(o)

(* What the program believes is what Linux has.                            *)
Kept ==
    ~Spoilt => \A o \in ProgramOptions : believed[o] # Unset /\ ~Excepted(o) =>
        IF Goes(o) \in LinuxOptions THEN kopts[Goes(o)] = believed[o]
        ELSE via = "solaris"

(* What argument block b means: option "what" itself; or, socksys having   *)
(* renumbered it, an option of the socket or one of level 0.               *)
Means(b, what) ==
    /\ what \in ProgramOptions
    /\ \/ what = <<b.level, b.name>> /\ (b.again => via = "socksys" /\ b.level = Ioctl)
       \/ /\ via = "socksys" /\ b.level = 1 /\ what[1] = SolSocket
          /\ b.name = MapValue(SockoptMap, what[2])
       \/ via = "socksys" /\ b.again /\ b.level = 0 /\ what[1] = 0

BlockType == [call : {"none", "set", "get", "socket"}, level : Int, name : Int,
              len : Int, value : {0, 1}, again : BOOLEAN]

(* The block holds a call of the option meant, or of a socket, and what    *)
(* Linux was asked last by it, but at level 0, stands in it.               *)
BlockKept ==
    /\ block \in BlockType
    /\ via # "socksys" => block = NoBlock
    /\ block.call \in {"set", "get"} =>
          /\ Means([block EXCEPT !.again = TRUE], meant)
          /\ request # <<>> /\ block.level # 0 =>
                request = <<block.level, block.name>>
                /\ (block.level = Ioctl => block.name = 1)
    /\ block.call = "socket" =>
          /\ block.level \in 0 .. 2 /\ block.name \in 0 .. 5
          /\ request = <<block.level, block.name>>

OptionsInv ==
    /\ via \in Vias /\ kopts \in [LinuxOptions -> {0, 1}]
    /\ believed \in [ProgramOptions -> {Unset, 0, 1}]
    /\ Kept /\ BlockKept /\ OptionReadBack

(* A pair is an option of Linux's in one of three ways.                    *)
LEMMA LinuxOptionIs ==
    ASSUME NEW a, NEW n
    PROVE  <<a, n>> \in LinuxOptions <=>
              \/ a = 1 /\ n \in {1, 2, 5, 6, 9, 10, 13}
              \/ a = 0 /\ n \in (1 .. 4) \cup (32 .. 36)
              \/ a = Ioctl /\ n = 1
BY DEF LinuxOptions

(* An option of the program's is one of level 0, of the socket, or an      *)
(* ioctl.                                                                  *)
LEMMA ProgramOptionIs ==
    ASSUME NEW o \in ProgramOptions
    PROVE  /\ o = <<o[1], o[2]>> /\ o[2] \in Nat
           /\ \/ o[1] = 0 /\ o[2] \in IpOptions
              \/ o[1] = SolSocket /\ o[2] \in SockOptions
              \/ o[1] = Ioctl /\ o[2] \in {1, 2}
<1>0. \A n : n \in IpOptions \/ n \in SockOptions => n \in Nat
  BY SocketsAssumption
<1>1. CASE o \in {0} \X IpOptions
  <2>1. o = <<o[1], o[2]>> /\ o[1] = 0 /\ o[2] \in IpOptions
    BY <1>1
  <2> QED
    BY <1>0, <2>1
<1>2. CASE o \in {SolSocket} \X SockOptions
  <2>1. o = <<o[1], o[2]>> /\ o[1] = SolSocket /\ o[2] \in SockOptions
    BY <1>2
  <2> QED
    BY <1>0, <2>1
<1>3. CASE o \in {Ioctl} \X {1, 2}
  BY <1>3
<1> QED
  BY <1>1, <1>2, <1>3 DEF ProgramOptions

(* What a map gives is in it, or 0.                                        *)
LEMMA MapValueIs ==
    ASSUME NEW map, NEW val
    PROVE  \/ MapValue(map, val) = 0 /\ \A m \in map : m[1] # val
           \/ \E m \in map : m[1] = val /\ m[2] = MapValue(map, val)
BY DEF MapValue

(* What the map of socket options gives: numbers; only 64, 4099 and 4100   *)
(* become options that are accepted, and only 128 becomes LINGER; the      *)
(* options Linux has, and those accepted, come from one option only.       *)
LEMMA SockoptIs ==
    ASSUME NEW n
    PROVE  /\ MapValue(SockoptMap, n) \in Nat
           /\ MapValue(SockoptMap, n) \in Accepted => n \in {64, 4099, 4100}
           /\ MapValue(SockoptMap, n) = Linger => n = 128
           /\ n \in 1 .. 4 => MapValue(SockoptMap, n) \in {0, 1, 2, 65536}
<1>1. \A m \in SockoptMap : /\ m[2] \in Nat
                            /\ m[2] \in Accepted => m[1] \in {64, 4099, 4100}
                            /\ m[2] = Linger => m[1] = 128
                            /\ m[1] \in 1 .. 4 => m[2] \in {0, 1, 2, 65536}
  BY DEF SockoptMap, Accepted, Linger
<1>2. 0 \notin Accepted /\ 0 # Linger
  BY DEF Accepted, Linger
<1> QED
  BY <1>1, <1>2, MapValueIs

(* No two options of the socket become the same but for what is unknown.   *)
LEMMA SockoptsDiffer ==
    ASSUME NEW n, NEW k, MapValue(SockoptMap, n) = MapValue(SockoptMap, k),
           MapValue(SockoptMap, n) # 0
    PROVE  n = k
<1>1. \A m, q \in SockoptMap : m[2] = q[2] => m[1] = q[1]
  BY DEF SockoptMap
<1> QED
  BY <1>1, MapValueIs

(* The options of level 0 that Linux gets.                                 *)
LEMMA IpOptionIs ==
    ASSUME NEW n \in Nat \ {0}
    PROVE  /\ n = 1 => IpOption(n) = 4
           /\ n \in 2 .. 5 => IpOption(n) = n - 1
           /\ n \in 6 .. 9 => IpOption(n) = -1
           /\ n = 10 => IpOption(n) = 32
           /\ n \in 11 .. 13 => IpOption(n) = n + 23
           /\ n > 13 => IpOption(n) = -1
<1>1. CASE n = 1
  BY <1>1 DEF IpOption
<1>2. CASE n \in 2 .. 5
  BY <1>2 DEF IpOption
<1>3. CASE n \in 6 .. 9
  BY <1>3 DEF IpOption
<1>4. CASE n = 10
  BY <1>4 DEF IpOption
<1>5. CASE n \in 11 .. 13
  BY <1>5 DEF IpOption
<1>6. CASE n > 13
  BY <1>6 DEF IpOption
<1> QED
  BY <1>1, <1>2, <1>3, <1>4, <1>5, <1>6

(* OptionCall by the way in and the level.                                 *)
LEMMA CallForms ==
    ASSUME via \in Vias, NEW b, NEW set \in BOOLEAN, NEW c, c = OptionCall(b, set)
    PROVE  /\ b.level = Ioctl => c = SocketIoctl(b, set)
           /\ b.level # Ioctl /\ via = "socksys" => c = SocksysOption(b, set)
           /\ b.level # Ioctl /\ via = "wyse" => c = WyseOption(b, set)
           /\ b.level # Ioctl /\ via = "solaris" => c = SolarisOption(b, set)
BY DEF OptionCall, Vias

(* An ioctl is asked as it is.                                             *)
LEMMA IoctlForms ==
    ASSUME via \in Vias, NEW b, NEW set \in BOOLEAN, NEW c, c = OptionCall(b, set),
           b.level = Ioctl
    PROVE  /\ c.level = Ioctl /\ c.name = b.name
           /\ b.name = 1 => c.how = "linux"
           /\ b.name # 1 /\ set => c.how = "accept"
           /\ b.name # 1 /\ ~set => c.how = "tell 0"
<1>1. c = SocketIoctl(b, set)
  BY CallForms
<1>2. PICK h : h = CASE b.name = 1 -> "linux"
                      [] b.name # 1 /\ set -> "accept"
                      [] OTHER -> "tell 0"
  OBVIOUS
<1>a. c = Asks(Ioctl, b.name, h)
  BY <1>1, <1>2 DEF SocketIoctl
<1>b. c.level = Ioctl /\ c.name = b.name /\ c.how = h
  BY <1>a DEF Asks
<1>3. b.name = 1 => h = "linux"
  BY <1>2
<1>4. b.name # 1 /\ set => h = "accept"
  BY <1>2
<1>5. b.name # 1 /\ ~set => h = "tell 0"
  BY <1>2
<1> QED
  BY <1>b, <1>3, <1>4, <1>5

(* An option of the socket is renumbered, and asked of Linux or not.       *)
SocketForm(b, set, c) ==
    /\ c.level = 1 /\ c.name = MapValue(SockoptMap, b.name)
    /\ c.how = Here(MapValue(SockoptMap, b.name), b.len, set)

SocksysForm(b, set, c) ==
    /\ b.level = 0 => /\ c.level = 0 /\ c.name = IpOption(b.name)
                      /\ c.how = IF IpOption(b.name) = -1 THEN "refuse" ELSE "linux"
    /\ b.level = SolSocket => SocketForm(b, set, c)
    /\ b.level \notin {0, SolSocket} =>
          c.level = b.level /\ c.name = b.name /\ c.how = "linux"

(* Calls through socksys.                                                  *)
LEMMA SocksysForms ==
    ASSUME via = "socksys", NEW b, NEW set \in BOOLEAN, NEW c, c = OptionCall(b, set),
           b.level # Ioctl
    PROVE  SocksysForm(b, set, c)
<1>1. c = SocksysOption(b, set)
  BY CallForms DEF Vias
<1>2. CASE b.level = 0
  BY <1>1, <1>2 DEF SocksysOption, Asks, SolSocket, SocksysForm
<1>3. CASE b.level = SolSocket
  BY <1>1, <1>3 DEF SocksysOption, Asks, SolSocket, SocksysForm, SocketForm
<1>4. CASE b.level \notin {0, SolSocket}
  BY <1>1, <1>4 DEF SocksysOption, Asks, SocksysForm
<1> QED
  BY <1>2, <1>3, <1>4

WyseForm(b, set, c) ==
    /\ b.level = 0 /\ IpOption(b.name) = -1 =>
          c.level = 0 /\ c.name = -1 /\ c.how = "refuse"
    /\ b.level = 0 /\ IpOption(b.name) > 4 =>
          c.level = 0 /\ c.name = IpOption(b.name) /\ c.how = "linux"
    /\ b.level = 0 /\ IpOption(b.name) \in 1 .. 4 =>
          /\ c.level = 1 /\ c.name = MapValue(SockoptMap, IpOption(b.name))
          /\ c.how = Here(c.name, b.len, set)
    /\ b.level = SolSocket => SocketForm(b, set, c)

(* Wyse's calls.                                                           *)
LEMMA WyseForms ==
    ASSUME via = "wyse", NEW b, NEW set \in BOOLEAN, NEW c, c = OptionCall(b, set),
           b.level \in {0, SolSocket}, b.level = 0 => b.name \in Nat \ {0}
    PROVE  WyseForm(b, set, c)
<1>1. c = WyseOption(b, set)
  BY CallForms DEF Vias, SolSocket, Ioctl
<1>6. ~(-1 > 4) /\ -1 \notin 1 .. 4
  OBVIOUS
<1>7. \A x : x \in 1 .. 4 => x # -1 /\ ~(x > 4)
  OBVIOUS
<1>2. CASE b.level = 0 /\ IpOption(b.name) = -1
  BY <1>1, <1>2, <1>6 DEF WyseOption, Asks, SolSocket, WyseForm
<1>3. CASE b.level = 0 /\ IpOption(b.name) > 4 /\ IpOption(b.name) # -1
  BY <1>1, <1>3, <1>7 DEF WyseOption, Asks, SolSocket, WyseForm
<1>4. CASE b.level = 0 /\ IpOption(b.name) \in 1 .. 4
  <2>1. ~(IpOption(b.name) = -1) /\ ~(IpOption(b.name) > 4) /\ IpOption(b.name) \in 0 .. 4
    BY <1>4
  <2> QED
    BY <1>1, <1>4, <2>1 DEF WyseOption, Asks, SolSocket, WyseForm
<1>5. CASE b.level = SolSocket
  BY <1>1, <1>5 DEF WyseOption, Asks, SolSocket, WyseForm, SocketForm
<1> QED
  <2>1. CASE b.level = 0
    <3>1. \/ IpOption(b.name) = -1
          \/ IpOption(b.name) > 4 /\ IpOption(b.name) # -1
          \/ IpOption(b.name) \in 1 .. 4
      BY <2>1, IpOptionIs
    <3> QED
      BY <1>2, <1>3, <1>4, <2>1, <3>1
  <2> QED
    BY <1>5, <2>1

SolarisForm(b, set, c) ==
    /\ c.level = b.level /\ c.how \in {"accept", "linux"}
    /\ c.how = "accept" => set /\ b.name \in {14, 8192}
    /\ b.level = 0 /\ b.name \in 2 .. 6 => c.name = b.name + 30
    /\ b.name \notin 2 .. 6 => c.name = b.name \/ c.name \in {19, 18, 21, 20, 14}
    /\ b.name = 1 => c.name = 1

(* Solaris's calls: the level stays.                                       *)
LEMMA SolarisForms ==
    ASSUME via = "solaris", NEW b, NEW set \in BOOLEAN, NEW c, c = OptionCall(b, set),
           b.level # Ioctl, b.name \in Nat
    PROVE  SolarisForm(b, set, c)
<1>1. c = SolarisOption(b, set)
  BY CallForms DEF Vias
<1>2. PICK tr : tr = CASE b.name = 4099 -> 19 [] b.name = 4100 -> 18
                       [] b.name = 4101 -> 21 [] b.name = 4102 -> 20
                       [] b.name = 8192 -> IF set THEN 14 ELSE 8192
                       [] OTHER -> b.name
  OBVIOUS
<1>a. c = Asks(b.level, IF b.level = 0 /\ tr \in 2 .. 6 THEN tr + 30 ELSE tr,
               IF set /\ tr = 14 THEN "accept" ELSE "linux")
  BY <1>1, <1>2 DEF SolarisOption
<1>b. /\ b.name = 4099 => tr = 19
      /\ b.name = 4100 => tr = 18
      /\ b.name = 4101 => tr = 21
      /\ b.name = 4102 => tr = 20
      /\ b.name = 8192 => tr = IF set THEN 14 ELSE 8192
      /\ b.name \notin {4099, 4100, 4101, 4102, 8192} => tr = b.name
  BY <1>2
<1>3. /\ c.level = b.level /\ c.how = IF set /\ tr = 14 THEN "accept" ELSE "linux"
      /\ c.name = IF b.level = 0 /\ tr \in 2 .. 6 THEN tr + 30 ELSE tr
  BY <1>a DEF Asks
<1>4. c.how = "accept" => set /\ b.name \in {14, 8192}
  BY <1>b, <1>3
<1>5. CASE b.name \in {4099, 4100, 4101, 4102, 8192}
  BY <1>b, <1>3, <1>4, <1>5 DEF SolarisForm
<1>6. CASE b.name \notin {4099, 4100, 4101, 4102, 8192}
  BY <1>b, <1>3, <1>4, <1>6 DEF SolarisForm
<1> QED
  BY <1>5, <1>6

(* What is answered here: of the options Linux has only LINGER, when it is *)
(* given as an int.                                                        *)
LEMMA HereIs ==
    ASSUME NEW name, NEW len, NEW set \in BOOLEAN
    PROVE  /\ set /\ Here(name, len, set) = "accept" => name = Linger \/ name \in Accepted
           /\ ~set /\ name \in {1, 2, 5, 6, 9, 10, 13} /\ name # Linger =>
                 Here(name, len, set) = "linux"
<1>1. CASE set
  <2>1. Here(name, len, set) = OnSet(name, len)
    BY <1>1 DEF Here
  <2>2. OnSet(name, len) = "accept" => name = Linger \/ name \in Accepted
    BY DEF OnSet
  <2> QED
    BY <1>1, <2>1, <2>2
<1>2. CASE ~set
  <2>1. Here(name, len, set) = OnGet(name, len)
    BY <1>2 DEF Here
  <2>2. name \in {1, 2, 5, 6, 9, 10, 13} =>
           name # Prototype /\ name \notin Refused /\ name \notin Accepted /\ name # Imasocket
    BY DEF Prototype, Refused, Accepted, Imasocket
  <2>3. name \in {1, 2, 5, 6, 9, 10, 13} /\ name # Linger => OnGet(name, len) = "linux"
    BY <2>2 DEF OnGet
  <2> QED
    BY <1>2, <2>1, <2>3
<1> QED
  BY <1>1, <1>2

(* Where the options of the program go.                                    *)
LEMMA GoesIs ==
    ASSUME via \in Vias, NEW o \in ProgramOptions
    PROVE  /\ o[1] = Ioctl => Goes(o) = <<Ioctl, o[2]>>
           /\ o[1] = SolSocket /\ via # "solaris" =>
                 Goes(o) = <<1, MapValue(SockoptMap, o[2])>>
           /\ o[1] = 0 /\ via = "socksys" => Goes(o) = <<0, IpOption(o[2])>>
           /\ o[1] = 0 /\ via = "wyse" /\ o[2] \notin 1 .. 5 =>
                 Goes(o) = <<0, IpOption(o[2])>>
           /\ o[1] = 0 /\ via = "solaris" /\ o[2] \in 2 .. 6 => Goes(o) = <<0, o[2] + 30>>
           /\ o[1] = 0 /\ via = "solaris" /\ o[2] \notin 2 .. 6 =>
                 Goes(o) = <<0, o[2]>> \/ Goes(o) \notin LinuxOptions
           /\ o[1] = 0 /\ via = "solaris" /\ o[2] = 1 => Goes(o) = <<0, 1>>
           /\ o[1] = SolSocket /\ via = "solaris" => Goes(o) \notin LinuxOptions
<1>b. PICK b : b = Block("get", o, 4, 0)
  OBVIOUS
<1>0. b.level = o[1] /\ b.name = o[2] /\ b.len = 4
  BY <1>b DEF Block
<1>c. PICK c : c = OptionCall(b, FALSE)
  OBVIOUS
<1>1. Goes(o) = <<c.level, c.name>>
  BY <1>b, <1>c DEF Goes, Option
<1>2. /\ o[2] \in Nat
      /\ o[1] = 0 => o[2] \in Nat \ {0}
      /\ o[1] \in {0, SolSocket, Ioctl}
  BY ProgramOptionIs, SocketsAssumption DEF SolSocket, Ioctl
<1>d. 0 # Ioctl /\ SolSocket # Ioctl /\ SolSocket # 0 /\ SolSocket # 1
  BY DEF SolSocket, Ioctl
<1>3. CASE o[1] = Ioctl
  BY <1>c, <1>0, <1>1, <1>3, <1>d, IoctlForms
<1>4. CASE via = "socksys" /\ o[1] # Ioctl
  <2>1. SocksysForm(b, FALSE, c)
    BY <1>c, <1>0, <1>4, SocksysForms
  <2> QED
    BY <1>0, <1>1, <1>4, <2>1 DEF SocksysForm, SocketForm
<1>5. CASE via = "wyse" /\ o[1] # Ioctl
  <2>1. b.level \in {0, SolSocket} /\ (b.level = 0 => b.name \in Nat \ {0})
    BY <1>0, <1>2, <1>5
  <2>w. WyseForm(b, FALSE, c)
    BY <1>c, <1>5, <2>1, WyseForms
  <2>2. CASE o[1] = 0
    <3>1. CASE o[2] \in 1 .. 5
      BY <1>5, <1>d, <2>2, <3>1
    <3>2. CASE o[2] \notin 1 .. 5
      <4>1. IpOption(o[2]) = -1 \/ IpOption(o[2]) > 4
        BY <1>2, <2>2, <3>2, IpOptionIs
      <4>2. c.level = 0 /\ c.name = IpOption(o[2])
        BY <1>0, <2>w, <2>2, <4>1 DEF WyseForm
      <4> QED
        BY <1>1, <1>5, <1>d, <2>2, <4>2
    <3> QED
      BY <3>1, <3>2
  <2>3. CASE o[1] = SolSocket
    <3>1. c.level = 1 /\ c.name = MapValue(SockoptMap, o[2])
      BY <1>0, <2>w, <2>3 DEF WyseForm, SocketForm
    <3> QED
      BY <1>1, <1>5, <1>d, <2>3, <3>1
  <2> QED
    BY <1>2, <1>5, <2>2, <2>3
<1>6. CASE via = "solaris" /\ o[1] # Ioctl
  <2>0. SolarisForm(b, FALSE, c)
    BY <1>c, <1>0, <1>2, <1>6, SolarisForms
  <2>1. CASE o[1] = SolSocket
    <3>1. c.level = SolSocket /\ SolSocket # 1 /\ SolSocket # 0 /\ SolSocket # Ioctl
      BY <1>0, <1>d, <2>0, <2>1 DEF SolarisForm
    <3>2. <<c.level, c.name>> \notin LinuxOptions
      BY <3>1, LinuxOptionIs
    <3> QED
      BY <1>1, <1>6, <1>d, <2>1, <3>2
  <2>2. CASE o[1] = 0 /\ o[2] \in 2 .. 6
    <3>1. c.level = 0 /\ c.name = o[2] + 30
      BY <1>0, <2>0, <2>2 DEF SolarisForm
    <3> QED
      BY <1>1, <1>6, <1>d, <2>2, <3>1
  <2>3. CASE o[1] = 0 /\ o[2] \notin 2 .. 6
    <3>1. c.level = 0 /\ (c.name = o[2] \/ c.name \in {19, 18, 21, 20, 14})
      BY <1>0, <2>0, <2>3 DEF SolarisForm
    <3>2. c.name \in {19, 18, 21, 20, 14} => <<0, c.name>> \notin LinuxOptions
      BY LinuxOptionIs DEF Ioctl
    <3>3. o[2] = 1 => c.name = 1
      BY <1>0, <2>0, <2>3 DEF SolarisForm
    <3> QED
      BY <1>1, <1>6, <1>d, <2>3, <3>1, <3>2, <3>3
  <2> QED
    BY <1>2, <1>6, <2>1, <2>2, <2>3
<1> QED
  BY <1>3, <1>4, <1>5, <1>6 DEF Vias

(* No two options go to the same option of Linux's, but for those that are *)
(* excepted and those that spoil others.                                   *)
LEMMA OptionsDiffer ==
    ASSUME via \in Vias, NEW o \in ProgramOptions, NEW w \in ProgramOptions,
           Goes(o) = Goes(w), Goes(o) \in LinuxOptions,
           ~Excepted(o), ~Spoils(o), ~Spoils(w)
    PROVE  o = w
<1>1. /\ o = <<o[1], o[2]>> /\ w = <<w[1], w[2]>>
      /\ o[1] \in {0, SolSocket, Ioctl} /\ w[1] \in {0, SolSocket, Ioctl}
      /\ o[2] \in Nat /\ w[2] \in Nat
      /\ o[1] = 0 => o[2] \in Nat \ {0}
      /\ w[1] = 0 => w[2] \in Nat \ {0}
  BY ProgramOptionIs, SocketsAssumption DEF SolSocket, Ioctl
<1>d. 0 # Ioctl /\ SolSocket # Ioctl /\ SolSocket # 0 /\ 1 # Ioctl
  BY DEF SolSocket, Ioctl
<1>2. via # "solaris" /\ o[1] = 0 => o[2] \notin {1, 5}
  BY <1>1 DEF Excepted
<1>3. CASE via \in {"socksys", "wyse"}
  <2>1. /\ via = "wyse" /\ o[1] = 0 => o[2] \notin 1 .. 5
        /\ via = "wyse" /\ w[1] = 0 => w[2] \notin 1 .. 5
    BY DEF Spoils
  <2>2. /\ o[1] = 0 => Goes(o) = <<0, IpOption(o[2])>>
        /\ w[1] = 0 => Goes(w) = <<0, IpOption(w[2])>>
        /\ o[1] = SolSocket => Goes(o) = <<1, MapValue(SockoptMap, o[2])>>
        /\ w[1] = SolSocket => Goes(w) = <<1, MapValue(SockoptMap, w[2])>>
        /\ o[1] = Ioctl => Goes(o) = <<Ioctl, o[2]>>
        /\ w[1] = Ioctl => Goes(w) = <<Ioctl, w[2]>>
    <3>1. via # "solaris"
      BY <1>3
    <3>2. /\ o[1] = 0 => Goes(o) = <<0, IpOption(o[2])>>
          /\ o[1] = SolSocket => Goes(o) = <<1, MapValue(SockoptMap, o[2])>>
          /\ o[1] = Ioctl => Goes(o) = <<Ioctl, o[2]>>
      BY <1>3, <2>1, <3>1, GoesIs
    <3>3. /\ w[1] = 0 => Goes(w) = <<0, IpOption(w[2])>>
          /\ w[1] = SolSocket => Goes(w) = <<1, MapValue(SockoptMap, w[2])>>
          /\ w[1] = Ioctl => Goes(w) = <<Ioctl, w[2]>>
      BY <1>3, <2>1, <3>1, GoesIs
    <3> QED
      BY <3>2, <3>3
  <2>3. o[1] = w[1]
    BY <1>1, <1>d, <2>2
  <2>4. CASE o[1] = 0
    <3>1. IpOption(o[2]) = IpOption(w[2]) /\ IpOption(o[2]) \in (1 .. 4) \cup (32 .. 36)
      BY <1>d, <2>2, <2>3, <2>4, LinuxOptionIs
    <3>2. o[2] \in Nat \ {0} /\ w[2] \in Nat \ {0} /\ o[2] \notin {1, 5}
      BY <1>1, <1>2, <1>3, <2>3, <2>4
    <3>3. o[2] = w[2]
      BY <3>1, <3>2, IpOptionIs
    <3> QED
      BY <1>1, <2>3, <3>3
  <2>5. CASE o[1] = SolSocket
    <3>1. /\ MapValue(SockoptMap, o[2]) = MapValue(SockoptMap, w[2])
          /\ MapValue(SockoptMap, o[2]) \in {1, 2, 5, 6, 9, 10, 13}
      BY <1>d, <2>2, <2>3, <2>5, LinuxOptionIs
    <3>2. o[2] = w[2]
      BY <3>1, SockoptsDiffer
    <3> QED
      BY <1>1, <2>3, <3>2
  <2>6. CASE o[1] = Ioctl
    BY <1>1, <2>2, <2>3, <2>6
  <2> QED
    BY <1>1, <2>4, <2>5, <2>6
<1>4. CASE via = "solaris"
  <2>1. o[1] # SolSocket /\ w[1] # SolSocket
    BY <1>4, GoesIs
  <2>2. CASE o[1] = Ioctl \/ w[1] = Ioctl
    <3>1. /\ o[1] = Ioctl => Goes(o) = <<Ioctl, o[2]>>
          /\ w[1] = Ioctl => Goes(w) = <<Ioctl, w[2]>>
      BY GoesIs
    <3>2. /\ o[1] = 0 => Goes(o)[1] = 0
          /\ w[1] = 0 => Goes(w)[1] = 0
      BY <1>4, GoesIs
    <3> QED
      BY <1>1, <1>d, <2>1, <2>2, <3>1, <3>2
  <2>3. CASE o[1] = 0 /\ w[1] = 0
    <3>1. o[2] \notin 32 .. 36 /\ w[2] \notin 32 .. 36
      BY <1>4, <2>3 DEF Spoils
    <3>2. /\ o[2] \in 2 .. 6 => Goes(o) = <<0, o[2] + 30>>
          /\ w[2] \in 2 .. 6 => Goes(w) = <<0, w[2] + 30>>
          /\ o[2] \notin 2 .. 6 => Goes(o) = <<0, o[2]>>
          /\ w[2] \notin 2 .. 6 => Goes(w) = <<0, w[2]>>
      BY <1>4, <2>3, GoesIs
    <3>3. PICK x : Goes(o) = <<0, x>> /\ x \in (1 .. 4) \cup (32 .. 36)
      BY <1>d, <3>2, LinuxOptionIs
    <3>4. /\ o[2] \in 2 .. 6 => x = o[2] + 30
          /\ w[2] \in 2 .. 6 => x = w[2] + 30
          /\ o[2] \notin 2 .. 6 => x = o[2]
          /\ w[2] \notin 2 .. 6 => x = w[2]
      BY <3>2, <3>3
    <3>5. o[2] = w[2]
      BY <1>1, <3>1, <3>3, <3>4
    <3> QED
      BY <1>1, <2>3, <3>5
  <2> QED
    BY <1>1, <2>1, <2>2, <2>3
<1> QED
  BY <1>3, <1>4 DEF Vias

(* What a call on option "what" does, that is no repeated call of level 0  *)
(* and on no option that spoils others: it sets or gets the option of      *)
(* Linux's that "what" goes to, or one that is excepted, or none.          *)
CallMeans(what, set, c) ==
    /\ set /\ c.how = "accept" =>
          Excepted(what) \/ (via = "solaris" /\ Goes(what) \notin LinuxOptions)
    /\ set /\ c.how = "linux" /\ <<c.level, c.name>> \in LinuxOptions =>
          Goes(what) = <<c.level, c.name>>
    /\ ~set /\ ~Excepted(what) /\ Goes(what) \in LinuxOptions =>
          c.how = "linux" /\ Goes(what) = <<c.level, c.name>>
    /\ ~set /\ ~Excepted(what) /\ via = "solaris" /\ Goes(what) \notin LinuxOptions =>
          c.how = "linux" /\ <<c.level, c.name>> \notin LinuxOptions

(* An ioctl: the process group is Linux's, the watermarks are excepted.    *)
LEMMA IoctlMeans ==
    ASSUME via \in Vias, NEW b, NEW what \in ProgramOptions, what = <<b.level, b.name>>,
           b.level = Ioctl, NEW set \in BOOLEAN, NEW c, c = OptionCall(b, set)
    PROVE  CallMeans(what, set, c)
<1>1. Goes(what) = <<Ioctl, what[2]>> /\ b.name \in {1, 2} /\ what[2] = b.name
  <2>1. what[1] = Ioctl /\ what[2] = b.name
    OBVIOUS
  <2>2. Ioctl # 0 /\ Ioctl # SolSocket
    BY DEF Ioctl, SolSocket
  <2> QED
    BY <2>1, <2>2, GoesIs, ProgramOptionIs
<1>2. /\ c.level = Ioctl /\ c.name = b.name
      /\ b.name = 1 => c.how = "linux"
      /\ b.name # 1 /\ set => c.how = "accept"
      /\ b.name # 1 /\ ~set => c.how = "tell 0"
  BY IoctlForms
<1>3. CASE b.name = 1
  <2>1. <<Ioctl, 1>> \in LinuxOptions
    BY LinuxOptionIs
  <2> QED
    BY <1>1, <1>2, <1>3, <2>1 DEF CallMeans
<1>4. CASE b.name = 2
  <2>1. Excepted(what)
    BY <1>4 DEF Excepted, AnsweredHere
  <2>2. c.how # "linux"
    <3>0. b.name # 1
      BY <1>4
    <3>1. CASE set
      <4>1. c.how = "accept"
        BY <1>2, <3>0, <3>1
      <4> QED
        BY <4>1
    <3>2. CASE ~set
      <4>1. c.how = "tell 0"
        BY <1>2, <3>0, <3>2
      <4> QED
        BY <4>1
    <3> QED
      BY <3>1, <3>2
  <2> QED
    BY <2>1, <2>2 DEF CallMeans
<1> QED
  BY <1>1, <1>3, <1>4

(* An option of the socket, renumbered: what is accepted is excepted, and  *)
(* what Linux has is read from Linux unless it is excepted.                *)
LEMMA SocketMeans ==
    ASSUME via \in {"socksys", "wyse"}, NEW b, NEW what \in ProgramOptions,
           what = <<SolSocket, b.name>>, NEW set \in BOOLEAN, NEW c, SocketForm(b, set, c)
    PROVE  CallMeans(what, set, c)
<1>1. Goes(what) = <<c.level, c.name>> /\ c.level = 1
  BY GoesIs DEF Vias, SocketForm
<1>2. c.name = MapValue(SockoptMap, b.name) /\ c.how = Here(c.name, b.len, set)
  BY DEF SocketForm
<1>3. c.name = Linger \/ c.name \in Accepted => Excepted(what)
  <2>1. c.name = Linger \/ c.name \in Accepted => b.name \in {64, 128, 4099, 4100}
    BY <1>2, SockoptIs
  <2> QED
    BY <2>1 DEF Excepted, AnsweredHere
<1>4. set /\ c.how = "accept" => Excepted(what)
  BY <1>2, <1>3, HereIs
<1>5. ~set /\ ~Excepted(what) /\ Goes(what) \in LinuxOptions => c.how = "linux"
  <2>1. Goes(what) \in LinuxOptions => c.name \in {1, 2, 5, 6, 9, 10, 13}
    BY <1>1, LinuxOptionIs DEF Ioctl
  <2> QED
    BY <1>2, <1>3, <2>1, HereIs
<1> QED
  BY <1>1, <1>4, <1>5 DEF CallMeans

(* Calls through socksys, first or repeated.                               *)
LEMMA SocksysMeans ==
    ASSUME via = "socksys", NEW b, NEW what, Means(b, what), ~(b.again /\ b.level = 0),
           b.level # Ioctl, NEW set \in BOOLEAN, NEW c, c = OptionCall(b, set)
    PROVE  CallMeans(what, set, c)
<1>1. SocksysForm(b, set, c) /\ what \in ProgramOptions
  BY SocksysForms DEF Means
<1>d. SolSocket # 0 /\ SolSocket # 1 /\ Ioctl # 0 /\ Ioctl # 1 /\ SolSocket # Ioctl
  BY DEF SolSocket, Ioctl
<1>2. CASE what = <<b.level, b.name>>
  <2>1. CASE b.level = 0
    <3>1. c.level = 0 /\ c.name = IpOption(b.name)
          /\ c.how = IF IpOption(b.name) = -1 THEN "refuse" ELSE "linux"
      BY <1>1, <2>1 DEF SocksysForm
    <3>2. Goes(what) = <<c.level, c.name>>
      BY <1>1, <1>2, <2>1, <3>1, GoesIs DEF Vias
    <3>3. Goes(what) \in LinuxOptions => c.name # -1
      BY <1>d, <3>1, <3>2, LinuxOptionIs
    <3> QED
      BY <3>1, <3>2, <3>3 DEF CallMeans
  <2>2. CASE b.level = SolSocket
    BY <1>1, <1>2, <2>2, SocketMeans DEF SocksysForm
  <2> QED
    <3>1. what[1] = b.level
      BY <1>2
    <3> QED
      BY <1>1, <2>1, <2>2, <3>1, ProgramOptionIs
<1>3. CASE b.level = 1 /\ what[1] = SolSocket /\ b.name = MapValue(SockoptMap, what[2])
  <2>1. c.level = 1 /\ c.name = b.name /\ c.how = "linux"
    BY <1>1, <1>d, <1>3 DEF SocksysForm
  <2>2. Goes(what) = <<1, b.name>>
    BY <1>1, <1>3, GoesIs DEF Vias
  <2> QED
    BY <2>1, <2>2 DEF CallMeans
<1> QED
  BY <1>2, <1>3 DEF Means

(* Calls through Wyse's.                                                   *)
LEMMA WyseMeans ==
    ASSUME via = "wyse", NEW b, NEW what \in ProgramOptions, what = <<b.level, b.name>>,
           ~Spoils(what), b.level # Ioctl, NEW set \in BOOLEAN, NEW c,
           c = OptionCall(b, set)
    PROVE  CallMeans(what, set, c)
<1>d. SolSocket # 0 /\ SolSocket # 1 /\ Ioctl # 0 /\ Ioctl # 1 /\ SolSocket # Ioctl
  BY DEF SolSocket, Ioctl
<1>1. what[1] = b.level /\ what[2] = b.name
  OBVIOUS
<1>2. b.level \in {0, SolSocket} /\ (b.level = 0 => b.name \in Nat \ {0})
  BY <1>1, <1>d, ProgramOptionIs, SocketsAssumption
<1>3. WyseForm(b, set, c)
  BY <1>2, WyseForms
<1>4. CASE b.level = 0
  <2>1. b.name \notin 1 .. 5
    BY <1>1, <1>4 DEF Spoils
  <2>2. IpOption(b.name) = -1 \/ IpOption(b.name) > 4
    BY <1>2, <1>4, <2>1, IpOptionIs
  <2>3. /\ c.level = 0 /\ c.name = IpOption(b.name) /\ c.how \in {"refuse", "linux"}
        /\ c.name # -1 => c.how = "linux"
    BY <1>3, <1>4, <2>2 DEF WyseForm
  <2>4. Goes(what) = <<c.level, c.name>>
    BY <1>1, <1>4, <2>1, <2>3, GoesIs DEF Vias
  <2>5. Goes(what) \in LinuxOptions => c.name # -1
    BY <1>d, <2>3, <2>4, LinuxOptionIs
  <2> QED
    BY <2>3, <2>4, <2>5 DEF CallMeans
<1>5. CASE b.level = SolSocket
  BY <1>3, <1>5, SocketMeans DEF WyseForm
<1> QED
  BY <1>2, <1>4, <1>5

(* Calls through Solaris's.                                                *)
LEMMA SolarisMeans ==
    ASSUME via = "solaris", NEW b, NEW what \in ProgramOptions, what = <<b.level, b.name>>,
           ~Spoils(what), b.level # Ioctl, NEW set \in BOOLEAN, NEW c,
           c = OptionCall(b, set)
    PROVE  CallMeans(what, set, c)
<1>d. SolSocket # 0 /\ SolSocket # 1 /\ Ioctl # 0 /\ Ioctl # 1 /\ SolSocket # Ioctl
  BY DEF SolSocket, Ioctl
<1>1. what[1] = b.level /\ what[2] = b.name
  OBVIOUS
<1>2. b.level \in {0, SolSocket} /\ b.name \in Nat /\ (b.level = 0 => b.name # 0)
  BY <1>1, <1>d, ProgramOptionIs, SocketsAssumption
<1>3. SolarisForm(b, set, c)
  BY <1>2, SolarisForms
<1>4. CASE b.level = SolSocket
  <2>1. Goes(what) \notin LinuxOptions
    BY <1>1, <1>4, GoesIs DEF Vias
  <2>2. <<c.level, c.name>> \notin LinuxOptions
    BY <1>3, <1>4, <1>d, LinuxOptionIs DEF SolarisForm
  <2>3. c.how \in {"accept", "linux"} /\ (c.how = "accept" => set)
    BY <1>3 DEF SolarisForm
  <2> QED
    BY <2>1, <2>2, <2>3 DEF CallMeans
<1>5. CASE b.level = 0
  <2>1. b.name \notin 32 .. 36
    BY <1>1, <1>5 DEF Spoils
  <2>2. c.level = 0 /\ c.how \in {"accept", "linux"}
        /\ (c.how = "accept" => set /\ b.name \in {14, 8192})
    BY <1>3, <1>5 DEF SolarisForm
  <2>3. CASE b.name \in 2 .. 6
    <3>1. c.name = b.name + 30
      BY <1>3, <1>5, <2>3 DEF SolarisForm
    <3>2. Goes(what) = <<0, c.name>>
      BY <1>1, <1>5, <2>3, <3>1, GoesIs DEF Vias
    <3>3. c.how = "linux"
      BY <2>2, <2>3
    <3> QED
      BY <2>2, <3>2, <3>3 DEF CallMeans
  <2>4. CASE b.name = 1
    <3>1. c.name = 1
      BY <1>3, <2>4 DEF SolarisForm
    <3>2. Goes(what) = <<0, 1>>
      BY <1>1, <1>5, <2>4, GoesIs DEF Vias
    <3>3. c.how = "linux"
      BY <2>2, <2>4
    <3> QED
      BY <2>2, <3>1, <3>2, <3>3 DEF CallMeans
  <2>5. CASE b.name \notin 1 .. 6
    <3>1. c.name = b.name \/ c.name \in {19, 18, 21, 20, 14}
      BY <1>3, <2>5 DEF SolarisForm
    <3>2. c.name \notin (1 .. 4) \cup (32 .. 36)
      BY <1>2, <1>5, <2>1, <2>5, <3>1
    <3>3. <<c.level, c.name>> \notin LinuxOptions
      BY <1>d, <2>2, <3>2, LinuxOptionIs
    <3>4. Goes(what) \notin LinuxOptions
      <4>1. Goes(what) = <<0, b.name>> \/ Goes(what) \notin LinuxOptions
        BY <1>1, <1>5, <2>5, GoesIs DEF Vias
      <4>2. b.name \notin (1 .. 4) \cup (32 .. 36)
        BY <1>2, <1>5, <2>1, <2>5
      <4> QED
        BY <1>d, <4>1, <4>2, LinuxOptionIs
    <3> QED
      BY <2>2, <3>3, <3>4 DEF CallMeans
  <2> QED
    BY <1>2, <1>5, <2>3, <2>4, <2>5
<1> QED
  BY <1>2, <1>4, <1>5

(* A call repeated with an option of level 0 that was renumbered.          *)
Repeated(b) == b.again /\ b.level = 0

(* Any call but a repeated one of level 0.                                 *)
LEMMA CallIs ==
    ASSUME via \in Vias, NEW b, NEW what, Means(b, what), ~Repeated(b), ~Spoils(what), NEW set \in BOOLEAN, NEW c,
           c = OptionCall(b, set)
    PROVE  CallMeans(what, set, c)
<1>1. what \in ProgramOptions /\ (via # "socksys" => what = <<b.level, b.name>>)
  BY DEF Means
<1>2. CASE b.level = Ioctl
  <2>1. what = <<b.level, b.name>>
    BY <1>2 DEF Means, Ioctl
  <2> QED
    BY <1>1, <1>2, <2>1, IoctlMeans
<1>3. CASE b.level # Ioctl
  <2>1. CASE via = "socksys"
    BY <1>3, <2>1, SocksysMeans DEF Repeated
  <2>2. CASE via = "wyse"
    BY <1>1, <1>3, <2>2, WyseMeans
  <2>3. CASE via = "solaris"
    BY <1>1, <1>3, <2>3, SolarisMeans
  <2> QED
    BY <2>1, <2>2, <2>3 DEF Vias
<1> QED
  BY <1>2, <1>3

(* A repeated call of level 0 goes to an option of level 0, or nowhere.    *)
LEMMA RepeatIs ==
    ASSUME via \in Vias, NEW b, NEW what, Means(b, what), b.again, b.level = 0,
           NEW set \in BOOLEAN, NEW c, c = OptionCall(b, set)
    PROVE  via = "socksys" /\ what[1] = 0 /\ c.level = 0 /\ c.how \in {"refuse", "linux"}
<1>1. via = "socksys" /\ what[1] = 0 /\ b.level # Ioctl
  BY DEF Means, Ioctl
<1>2. SocksysForm(b, set, c)
  BY <1>1, SocksysForms
<1> QED
  BY <1>1, <1>2 DEF SocksysForm

(* The way in never changes, so options go where they went.                *)
LEMMA ViaStays ==
    ASSUME via \in Vias, via' = via, NEW o
    PROVE  Goes(o)' = Goes(o) /\ Excepted(o)' = Excepted(o) /\ Spoils(o)' = Spoils(o)
<1>1. PICK b : b = Block("get", o, 4, 0)
  OBVIOUS
<1>2. \A n, len : Here(n, len, FALSE)' = Here(n, len, FALSE)
  BY DEF Here, OnGet
<1>3. SocksysOption(b, FALSE)' = SocksysOption(b, FALSE)
  BY <1>2 DEF SocksysOption
<1>4. WyseOption(b, FALSE)' = WyseOption(b, FALSE)
  BY <1>2 DEF WyseOption
<1>5. OptionCall(b, FALSE)' = OptionCall(b, FALSE)
  <2>1. CASE b.level = Ioctl
    BY <2>1 DEF OptionCall, SocketIoctl
  <2>2. CASE b.level # Ioctl /\ via = "socksys"
    BY <1>3, <2>2 DEF OptionCall
  <2>3. CASE b.level # Ioctl /\ via = "wyse"
    BY <1>4, <2>3 DEF OptionCall
  <2>4. CASE b.level # Ioctl /\ via = "solaris"
    BY <2>4 DEF OptionCall, SolarisOption
  <2> QED
    BY <2>1, <2>2, <2>3, <2>4 DEF Vias
<1> QED
  BY <1>1, <1>5 DEF Goes, Option, Excepted, Spoils

(* Setting an option leaves what the program believes of the others true,  *)
(* and what it believes of this one is what Linux has.                     *)
LEMMA SetKeeps ==
    ASSUME OptionsInv, NEW b \in BlockType, NEW what, Means(b, what),
           NEW v \in {0, 1}, SetSockopt(b, what, v)
    PROVE  /\ kopts' \in [LinuxOptions -> {0, 1}]
           /\ believed' \in [ProgramOptions -> {Unset, 0, 1}]
           /\ Kept'
<1>1. PICK c : c = OptionCall(b, TRUE)
  OBVIOUS
<1>2. PICK linux \in BOOLEAN :
         linux <=> c.how = "linux" /\ <<c.level, c.name>> \in LinuxOptions
  OBVIOUS
<1>3. PICK l : l = <<c.level, c.name>>
  OBVIOUS
<1>4. /\ kopts' = IF linux THEN [kopts EXCEPT ![l] = v] ELSE kopts
      /\ believed' = IF c.how = "accept" \/ linux THEN Knows(b, what, v) ELSE believed
      /\ via' = via
  BY <1>1, <1>2, <1>3 DEF SetSockopt
<1>5. /\ via \in Vias /\ kopts \in [LinuxOptions -> {0, 1}]
      /\ believed \in [ProgramOptions -> {Unset, 0, 1}] /\ Kept
  BY DEF OptionsInv
<1>6. what \in ProgramOptions /\ (b.again => via = "socksys")
  BY DEF Means
<1>7. kopts' \in [LinuxOptions -> {0, 1}]
  BY <1>2, <1>3, <1>4, <1>5
<1>8. believed' \in [ProgramOptions -> {Unset, 0, 1}]
  BY <1>4, <1>5 DEF Knows
<1>9. CASE ~(c.how = "accept" \/ linux)
  <2>1. believed' = believed /\ kopts' = kopts
    BY <1>4, <1>9
  <2>2. Spoilt' = Spoilt
    BY <1>4, <1>5, <2>1, ViaStays DEF Spoilt
  <2> QED
    BY <1>4, <1>5, <1>7, <1>8, <2>1, <2>2, ViaStays DEF Kept
<1>10. CASE c.how = "accept" \/ linux
  <2>1. \A o \in ProgramOptions : believed'[o] =
           IF b.again /\ b.level = 0 /\ o[1] = 0 THEN Unset
           ELSE IF o = what THEN v ELSE believed[o]
    BY <1>4, <1>10 DEF Knows
  <2>v. v # Unset
    BY DEF Unset
  <2>2. Spoilt => Spoilt'
    <3>1. SUFFICES ASSUME NEW o \in ProgramOptions, believed[o] # Unset, Spoils(o)
                   PROVE  Spoilt'
      BY DEF Spoilt
    <3>2. ~b.again
      BY <1>6, <3>1 DEF Spoils
    <3>3. believed'[o] # Unset
      BY <2>1, <2>v, <3>1, <3>2
    <3> QED
      BY <1>4, <1>5, <3>1, <3>3, ViaStays DEF Spoilt
  <2>3. SUFFICES ASSUME ~Spoilt', NEW o \in ProgramOptions, believed'[o] # Unset,
                        ~Excepted(o)
                 PROVE  IF Goes(o) \in LinuxOptions THEN kopts'[Goes(o)] = believed'[o]
                        ELSE via = "solaris"
    BY <1>4, <1>5, <1>7, <1>8, ViaStays DEF Kept
  <2>4. ASSUME o # what, believed[o] # Unset
        PROVE  IF Goes(o) \in LinuxOptions THEN kopts[Goes(o)] = believed[o]
               ELSE via = "solaris"
    BY <1>5, <2>2, <2>3, <2>4 DEF Kept
  <2>5. CASE b.again /\ b.level = 0
    <3>1. via = "socksys" /\ what[1] = 0 /\ c.level = 0
      BY <1>1, <1>5, <2>5, RepeatIs
    <3>2. o[1] # 0 /\ o # what /\ believed'[o] = believed[o]
      BY <2>1, <2>3, <2>5, <3>1
    <3>3. Goes(o)[1] # 0
      BY <1>5, <3>1, <3>2, GoesIs, ProgramOptionIs DEF Ioctl
    <3>4. Goes(o) \in LinuxOptions => kopts'[Goes(o)] = kopts[Goes(o)]
      <4>1. Goes(o) # l
        BY <1>3, <3>1, <3>3
      <4> QED
        BY <1>4, <1>5, <4>1
    <3> QED
      BY <2>3, <2>4, <3>2, <3>4
  <2>6. CASE ~(b.again /\ b.level = 0)
    <3>1. believed'[what] = v
      BY <1>6, <2>1, <2>6
    <3>2. ~Spoils(what)
      BY <1>4, <1>5, <1>6, <2>3, <2>v, <3>1, ViaStays DEF Spoilt
    <3>3. CallMeans(what, TRUE, c)
      <4>1. ~Repeated(b)
        BY <2>6 DEF Repeated
      <4> QED
        BY <1>1, <1>5, <3>2, <4>1, CallIs
    <3>4. CASE o = what
      <4>1. CASE linux
        <5>1. Goes(o) = l /\ l \in LinuxOptions
          BY <1>2, <1>3, <3>3, <3>4, <4>1 DEF CallMeans
        <5>2. kopts'[l] = v
          BY <1>4, <1>5, <4>1, <5>1
        <5> QED
          BY <3>1, <3>4, <5>1, <5>2
      <4>2. CASE c.how = "accept"
        BY <2>3, <3>3, <3>4, <4>2 DEF CallMeans
      <4> QED
        BY <1>10, <4>1, <4>2
    <3>5. CASE o # what
      <4>1. believed'[o] = believed[o] /\ believed[o] # Unset
        BY <2>1, <2>3, <2>6, <3>5
      <4>2. ~Spoils(o)
        BY <2>2, <2>3, <4>1 DEF Spoilt
      <4>3. Goes(o) \in LinuxOptions => kopts'[Goes(o)] = kopts[Goes(o)]
        <5>1. CASE linux
          <6>1. Goes(what) = l
            BY <1>2, <1>3, <3>3, <5>1 DEF CallMeans
          <6>2. Goes(o) \in LinuxOptions => Goes(o) # l
            BY <1>5, <1>6, <2>3, <3>2, <3>5, <4>2, <6>1, OptionsDiffer
          <6> QED
            BY <1>4, <1>5, <6>2
        <5> QED
          BY <1>4, <5>1
      <4> QED
        BY <2>4, <3>5, <4>1, <4>3
    <3> QED
      BY <3>4, <3>5
  <2> QED
    BY <2>5, <2>6
<1> QED
  BY <1>7, <1>8, <1>9, <1>10

(* A get tells what the program believes, unless its option is excepted.   *)
LEMMA GetTells ==
    ASSUME OptionsInv, NEW b \in BlockType, NEW what, Means(b, what),
           GetSockopt(b, what)
    PROVE  OptionReadBack'
<1>1. PICK c : c = OptionCall(b, FALSE)
  OBVIOUS
<1>2. PICK linux \in BOOLEAN :
         linux <=> c.how = "linux" /\ <<c.level, c.name>> \in LinuxOptions
  OBVIOUS
<1>3. PICK value : value = CASE linux -> kopts[<<c.level, c.name>>]
                             [] c.how = "tell 0" -> 0
                             [] c.how = "tell 1" -> 1
                             [] OTHER -> Unset
  OBVIOUS
<1>4. /\ block' = PutBack(b, c) /\ meant' = what /\ heard'.value = value
      /\ via' = via /\ kopts' = kopts /\ believed' = believed
  <2>1. heard' = [call |-> "get", ok |-> linux \/ value # Unset \/ c.how = "accept",
                  value |-> value]
    BY <1>1, <1>2, <1>3 DEF GetSockopt
  <2>2. heard'.value = value
    BY <2>1
  <2> QED
    BY <1>1, <2>2 DEF GetSockopt
<1>5. via \in Vias /\ Kept
  BY DEF OptionsInv
<1>6. what \in ProgramOptions
  BY DEF Means
<1>7. SUFFICES ASSUME value # Unset, believed[what] # Unset, what \notin AnsweredHere,
                      ~Shared', ~(block'.again /\ block'.level = 0)
               PROVE  value = believed[what]
  BY <1>4 DEF OptionReadBack
<1>8. ~(b.again /\ b.level = 0)
  <2>1. SUFFICES ASSUME b.again, b.level = 0 PROVE FALSE
    OBVIOUS
  <2>2. via = "socksys" /\ c.level = 0
    BY <1>1, <1>5, <2>1, RepeatIs
  <2>3. block' = [b EXCEPT !.level = c.level, !.name = c.name] \/ block' = b
    BY <1>4, <2>2 DEF PutBack
  <2>4. block'.again = b.again /\ block'.level = 0
    BY <2>1, <2>2, <2>3 DEF BlockType
  <2> QED
    BY <1>7, <2>1, <2>4
<1>9. ~Excepted(what)
  BY <1>4, <1>7 DEF Excepted, Shared
<1>10. ~Spoilt
  <2>1. SUFFICES ASSUME NEW o \in ProgramOptions, believed[o] # Unset, Spoils(o)
                 PROVE  FALSE
    BY DEF Spoilt
  <2>2. o[1] = 0 /\ o = <<0, o[2]>> /\ o[2] \in IpOptions
    BY <2>1, ProgramOptionIs DEF Spoils, SolSocket, Ioctl
  <2> QED
    BY <1>4, <1>7, <2>1, <2>2 DEF Spoils, Shared
<1>11. ~Spoils(what)
  BY <1>6, <1>7, <1>10 DEF Spoilt
<1>12. CallMeans(what, FALSE, c)
  <2>1. ~Repeated(b)
    BY <1>8 DEF Repeated
  <2> QED
    BY <1>1, <1>5, <1>11, <2>1, CallIs
<1>13. CASE Goes(what) \in LinuxOptions
  <2>1. kopts[Goes(what)] = believed[what]
    BY <1>5, <1>6, <1>7, <1>9, <1>10, <1>13 DEF Kept
  <2>2. linux /\ Goes(what) = <<c.level, c.name>> /\ c.how = "linux"
    BY <1>2, <1>9, <1>12, <1>13 DEF CallMeans
  <2>3. value = kopts[<<c.level, c.name>>]
    BY <1>3, <2>2
  <2> QED
    BY <2>1, <2>2, <2>3
<1>14. CASE Goes(what) \notin LinuxOptions
  <2>1. via = "solaris"
    BY <1>5, <1>6, <1>7, <1>9, <1>10, <1>14 DEF Kept
  <2>2. ~linux /\ c.how = "linux"
    BY <1>2, <1>9, <1>12, <1>14, <2>1 DEF CallMeans
  <2>3. value = Unset
    BY <1>3, <2>2
  <2> QED
    BY <1>7, <2>3
<1> QED
  BY <1>13, <1>14

Renamed(b, level, name) == [b EXCEPT !.level = level, !.name = name]

(* A level and a name put into a block leave the rest of it.               *)
LEMMA LevelNameSet ==
    ASSUME NEW b \in BlockType, NEW level \in Int, NEW name \in Int, NEW d,
           d = Renamed(b, level, name)
    PROVE  d \in BlockType /\ d.call = b.call /\ d.level = level /\ d.name = name
BY DEF BlockType, Renamed

(* The next call with block d means option "what", or some other of level  *)
(* 0, and r, what Linux was asked, stands in it.                           *)
NextMeans(d, what, r) ==
    /\ Means([d EXCEPT !.again = TRUE], what)
    /\ r # <<>> /\ d.level # 0 =>
          r = <<d.level, d.name>> /\ (d.level = Ioctl => d.name = 1)

(* The block after a call on an option: the next call with it means the    *)
(* same option, or some other of level 0.                                  *)
LEMMA BlockAfter ==
    ASSUME via = "socksys", NEW b \in BlockType, NEW what, Means(b, what),
           NEW set \in BOOLEAN, NEW c, c = OptionCall(b, set),
           NEW d, d = PutBack(b, c), NEW r,
           r = IF c.how = "linux" THEN <<c.level, c.name>> ELSE <<>>
    PROVE  d \in BlockType /\ d.call = b.call /\ NextMeans(d, what, r)
<1>d. SolSocket # 0 /\ SolSocket # 1 /\ Ioctl # 0 /\ Ioctl # 1 /\ SolSocket # Ioctl
  BY DEF SolSocket, Ioctl
<1>1. what \in ProgramOptions
  BY DEF Means
<1>2. b.level \in Int /\ b.name \in Int
  BY DEF BlockType
<1>3. CASE b.level = Ioctl
  <2>1. d = b
    BY <1>3, <1>d DEF PutBack
  <2>2. c.level = Ioctl /\ c.name = b.name /\ (c.how = "linux" => b.name = 1)
    <3>1. /\ c.level = Ioctl /\ c.name = b.name
          /\ b.name # 1 /\ set => c.how = "accept"
          /\ b.name # 1 /\ ~set => c.how = "tell 0"
      BY <1>3, IoctlForms DEF Vias
    <3>2. b.name # 1 => c.how \in {"accept", "tell 0"}
      BY <3>1
    <3> QED
      BY <3>1, <3>2
  <2>3. what = <<b.level, b.name>>
    BY <1>3, <1>d DEF Means
  <2>4. PICK e : e = [d EXCEPT !.again = TRUE]
    OBVIOUS
  <2>5. e.level = b.level /\ e.name = b.name
    BY <2>1, <2>4 DEF BlockType
  <2>6. Means(e, what)
    BY <1>1, <1>3, <2>3, <2>5 DEF Means
  <2> QED
    BY <1>3, <2>1, <2>2, <2>4, <2>6 DEF NextMeans
<1>4. CASE b.level # Ioctl
  <2>1. SocksysForm(b, set, c)
    BY <1>4, SocksysForms
  <2>2. CASE b.level = 0
    <3>1. c.level = 0 /\ c.name \in Int
      <4>1. c.level = 0 /\ c.name = IpOption(b.name)
        BY <2>1, <2>2 DEF SocksysForm
      <4>2. IpOption(b.name) \in Int
        BY <1>2 DEF IpOption
      <4> QED
        BY <4>1, <4>2
    <3>2. d = b \/ d = [b EXCEPT !.level = c.level, !.name = c.name]
      BY DEF PutBack
    <3>3. d \in BlockType /\ d.call = b.call /\ d.level = 0
      BY <2>2, <3>1, <3>2 DEF BlockType
    <3>4. what[1] = 0
      BY <1>d, <2>2 DEF Means
    <3>5. PICK e : e = [d EXCEPT !.again = TRUE]
      OBVIOUS
    <3>6. e.level = 0 /\ e.again = TRUE
      BY <3>3, <3>5 DEF BlockType
    <3>7. Means(e, what)
      BY <1>1, <3>4, <3>6 DEF Means
    <3> QED
      BY <3>3, <3>5, <3>7 DEF NextMeans
  <2>3. CASE b.level = SolSocket
    <3>1. c.level = 1 /\ c.name = MapValue(SockoptMap, b.name)
      BY <2>1, <2>3 DEF SocksysForm, SocketForm
    <3>2. c.name \in Nat /\ c.name # -1
      BY <3>1, SockoptIs
    <3>3. d = Renamed(b, c.level, c.name)
      BY <2>3, <3>2 DEF PutBack, Renamed
    <3>4. d \in BlockType /\ d.call = b.call /\ d.level = c.level /\ d.name = c.name
      <4>1. c.level \in Int /\ c.name \in Int
        BY <3>1, <3>2
      <4> QED
        BY <3>3, <4>1, LevelNameSet
    <3>5. what = <<SolSocket, b.name>>
      BY <1>d, <2>3 DEF Means
    <3>6. PICK e : e = [d EXCEPT !.again = TRUE]
      OBVIOUS
    <3>7. e.level = 1 /\ e.name = c.name
      BY <3>1, <3>4, <3>6 DEF BlockType
    <3>8. Means(e, what)
      BY <1>1, <3>1, <3>5, <3>7 DEF Means
    <3> QED
      BY <1>d, <3>1, <3>4, <3>6, <3>8 DEF NextMeans
  <2>4. CASE b.level \notin {0, SolSocket}
    <3>1. d = b /\ c.level = b.level /\ c.name = b.name
      BY <2>1, <2>4 DEF PutBack, SocksysForm
    <3>2. b.level = 1 /\ what[1] = SolSocket /\ b.name = MapValue(SockoptMap, what[2])
      <4>1. what = <<b.level, b.name>> => what[1] = b.level
        OBVIOUS
      <4>2. what # <<b.level, b.name>>
        BY <1>1, <1>4, <2>4, <4>1, ProgramOptionIs
      <4> QED
        BY <2>4, <4>2 DEF Means
    <3>3. PICK e : e = [d EXCEPT !.again = TRUE]
      OBVIOUS
    <3>4. e.level = 1 /\ e.name = b.name
      BY <3>1, <3>2, <3>3 DEF BlockType
    <3>5. Means(e, what)
      BY <1>1, <3>2, <3>4 DEF Means
    <3> QED
      BY <1>4, <3>1, <3>3, <3>5 DEF NextMeans
  <2> QED
    BY <2>2, <2>3, <2>4
<1> QED
  BY <1>3, <1>4

(* A call on an option keeps the invariant.                                *)
LEMMA OptionStep ==
    ASSUME OptionsInv, NEW b \in BlockType, b.call \in {"set", "get"}, NEW what,
           Means(b, what), NEW v \in {0, 1},
           SetSockopt(b, what, v) \/ GetSockopt(b, what)
    PROVE  OptionsInv'
<1>1. /\ via \in Vias /\ kopts \in [LinuxOptions -> {0, 1}]
      /\ believed \in [ProgramOptions -> {Unset, 0, 1}] /\ Kept
  BY DEF OptionsInv
<1>2. PICK set \in BOOLEAN : IF set THEN SetSockopt(b, what, v) ELSE GetSockopt(b, what)
  OBVIOUS
<1>3. PICK c : c = OptionCall(b, set)
  OBVIOUS
<1>4. /\ block' = PutBack(b, c) /\ meant' = what /\ via' = via
      /\ request' = IF c.how = "linux" THEN <<c.level, c.name>> ELSE <<>>
  <2>1. CASE set
    BY <1>2, <1>3, <2>1 DEF SetSockopt
  <2>2. CASE ~set
    BY <1>2, <1>3, <2>2 DEF GetSockopt
  <2> QED
    BY <2>1, <2>2
<1>5. BlockKept'
  <2>1. CASE via = "socksys"
    <3>1. PICK d, r : d = block' /\ r = request'
      OBVIOUS
    <3>2. d \in BlockType /\ d.call = b.call /\ NextMeans(d, what, r)
      <4>1. d = PutBack(b, c) /\ r = IF c.how = "linux" THEN <<c.level, c.name>> ELSE <<>>
        BY <1>4, <3>1
      <4> QED
        BY <1>3, <2>1, <4>1, BlockAfter
    <3>3. Means([block EXCEPT !.again = TRUE], meant)'
      BY <1>4, <3>1, <3>2 DEF NextMeans, Means
    <3> QED
      BY <1>4, <2>1, <3>1, <3>2, <3>3 DEF BlockKept, NextMeans
  <2>2. CASE via # "socksys"
    <3>1. block' = NoBlock
      BY <1>4, <2>2 DEF PutBack
    <3>2. NoBlock \in BlockType /\ NoBlock.call = "none"
      BY DEF NoBlock, BlockType
    <3> QED
      BY <1>4, <2>2, <3>1, <3>2 DEF BlockKept
  <2> QED
    BY <2>1, <2>2
<1>6. CASE SetSockopt(b, what, v)
  <2>1. OptionReadBack'
    <3>1. PICK ok : heard' = [call |-> "set", ok |-> ok, value |-> Unset]
      BY <1>6 DEF SetSockopt
    <3>2. heard'.call = "set"
      BY <3>1
    <3> QED
      BY <3>2 DEF OptionReadBack
  <2> QED
    BY <1>1, <1>4, <1>5, <1>6, <2>1, SetKeeps DEF OptionsInv
<1>7. CASE GetSockopt(b, what)
  <2>1. kopts' = kopts /\ believed' = believed
    BY <1>7 DEF GetSockopt
  <2>2. Spoilt' = Spoilt
    BY <1>1, <1>4, <2>1, ViaStays DEF Spoilt
  <2>3. Kept'
    BY <1>1, <1>4, <2>1, <2>2, ViaStays DEF Kept
  <2> QED
    BY <1>1, <1>4, <1>5, <1>7, <2>1, <2>3, GetTells DEF OptionsInv
<1> QED
  BY <1>6, <1>7

(* So does socket, whose family and type the block has now.                *)
LEMMA SocketStep ==
    ASSUME OptionsInv, NEW b \in BlockType, b.call = "socket", Socket(b)
    PROVE  OptionsInv'
<1>1. /\ via \in Vias /\ kopts \in [LinuxOptions -> {0, 1}]
      /\ believed \in [ProgramOptions -> {Unset, 0, 1}] /\ Kept
  BY DEF OptionsInv
<1>2. via' = via /\ kopts' = kopts /\ believed' = believed
  BY DEF Socket
<1>3. Spoilt' = Spoilt
  BY <1>1, <1>2, ViaStays DEF Spoilt
<1>4. Kept'
  BY <1>1, <1>2, <1>3, ViaStays DEF Kept
<1>5. OptionReadBack'
  <2>1. PICK ok : heard' = [call |-> "socket", value |-> Unset, ok |-> ok]
    BY DEF Socket
  <2>2. heard'.call = "socket"
    BY <2>1
  <2> QED
    BY <2>2 DEF OptionReadBack
<1>6. BlockKept'
  <2>1. CASE via = "socksys"
    <3>1. PICK family, type : family = MapValue(AfMap, b.level)
                              /\ type = MapValue(SocktypeMap, b.name)
      OBVIOUS
    <3>2. block' = Renamed(b, family, type) /\ request' = <<family, type>>
      BY <2>1, <3>1 DEF Socket, Renamed
    <3>3. family \in 0 .. 2 /\ type \in 0 .. 5
      <4>1. \A m \in AfMap : m[2] \in 0 .. 2
        BY DEF AfMap
      <4>2. \A m \in SocktypeMap : m[2] \in 0 .. 5
        BY DEF SocktypeMap
      <4> QED
        BY <3>1, <4>1, <4>2, MapValueIs
    <3>4. block' \in BlockType /\ block'.call = "socket"
          /\ block'.level = family /\ block'.name = type
      <4>1. family \in Int /\ type \in Int
        BY <3>3
      <4> QED
        BY <3>2, <4>1, LevelNameSet
    <3> QED
      BY <1>2, <2>1, <3>2, <3>3, <3>4 DEF BlockKept
  <2>2. CASE via # "socksys"
    <3>1. block' = NoBlock
      BY <2>2 DEF Socket
    <3>2. NoBlock \in BlockType /\ NoBlock.call = "none"
      BY DEF NoBlock, BlockType
    <3> QED
      BY <1>2, <2>2, <3>1, <3>2 DEF BlockKept
  <2> QED
    BY <2>1, <2>2
<1> QED
  BY <1>1, <1>2, <1>4, <1>5, <1>6 DEF OptionsInv

(* And so does a repeated call.                                            *)
LEMMA AgainStep ==
    ASSUME OptionsInv, Again
    PROVE  OptionsInv'
<1>1. PICK b : b = [block EXCEPT !.again = TRUE]
  OBVIOUS
<1>2. block \in BlockType /\ (block.call \in {"set", "get"} => Means(b, meant))
  BY <1>1 DEF OptionsInv, BlockKept
<1>3. b \in BlockType /\ b.call = block.call
  BY <1>1, <1>2 DEF BlockType
<1>4. \/ b.call = "set" /\ SetSockopt(b, meant, b.value)
      \/ b.call = "get" /\ GetSockopt(b, meant)
      \/ b.call = "socket" /\ Socket(b)
  BY <1>1 DEF Again
<1>5. b.value \in {0, 1}
  BY <1>3 DEF BlockType
<1> QED
  BY <1>2, <1>3, <1>4, <1>5, OptionStep, SocketStep

(* So the invariant of the options holds in every state.                   *)
LEMMA OptionsInvariant == OptionsSpec => []OptionsInv
<1>1. SocketsInit => OptionsInv
  <2> SUFFICES ASSUME SocketsInit PROVE OptionsInv
    OBVIOUS
  <2>1. /\ via \in Vias /\ kopts \in [LinuxOptions -> {0, 1}]
        /\ believed \in [ProgramOptions -> {Unset, 0, 1}]
    BY DEF SocketsInit, Vias
  <2>2. Kept
    BY DEF SocketsInit, Kept
  <2>3. BlockKept
    <3>1. NoBlock \in BlockType /\ NoBlock.call = "none"
      BY DEF NoBlock, BlockType
    <3> QED
      BY <3>1 DEF SocketsInit, BlockKept
  <2>4. OptionReadBack
    BY DEF SocketsInit, OptionReadBack
  <2> QED
    BY <2>1, <2>2, <2>3, <2>4 DEF OptionsInv
<1>2. OptionsInv /\ [OptionsNext]_socketVars => OptionsInv'
  <2> SUFFICES ASSUME OptionsInv, [OptionsNext]_socketVars PROVE OptionsInv'
    OBVIOUS
  <2>1. ASSUME NEW call \in {"set", "get"}, NEW o \in ProgramOptions, NEW len \in Int,
               NEW v \in {0, 1}
        PROVE  /\ Block(call, o, len, v) \in BlockType
               /\ Block(call, o, len, v).call = call
               /\ Means(Block(call, o, len, v), o)
    <3>1. o = <<o[1], o[2]>> /\ o[1] \in Int /\ o[2] \in Int
      BY ProgramOptionIs DEF SolSocket, Ioctl
    <3>2. PICK b : b = Block(call, o, len, v)
      OBVIOUS
    <3>3. b = [call |-> call, level |-> o[1], name |-> o[2], len |-> len, value |-> v,
               again |-> FALSE]
      BY <3>2 DEF Block
    <3>4. b \in BlockType /\ b.call = call
      BY <3>1, <3>3 DEF BlockType
    <3>5. Means(b, o)
      BY <3>1, <3>3 DEF Means
    <3> QED
      BY <3>2, <3>4, <3>5
  <2>l. \A o : Lengths(o) \subseteq Int
    BY DEF Lengths
  <2>2. ASSUME NEW o \in ProgramOptions, NEW v \in {0, 1}, NEW len \in Lengths(o),
               SetSockopt(Block("set", o, len, v), o, v)
        PROVE  OptionsInv'
    <3>1. PICK b : b = Block("set", o, len, v)
      OBVIOUS
    <3>2. b \in BlockType /\ b.call = "set" /\ Means(b, o)
      BY <2>1, <2>l, <3>1
    <3> QED
      BY <2>2, <3>1, <3>2, OptionStep
  <2>3. ASSUME NEW o \in ProgramOptions, NEW len \in Lengths(o),
               GetSockopt(Block("get", o, len, 0), o)
        PROVE  OptionsInv'
    <3>1. PICK b : b = Block("get", o, len, 0)
      OBVIOUS
    <3>2. b \in BlockType /\ b.call = "get" /\ Means(b, o)
      BY <2>1, <2>l, <3>1
    <3>3. 0 \in {0, 1}
      OBVIOUS
    <3> QED
      BY <2>3, <3>1, <3>2, <3>3, OptionStep
  <2>4. ASSUME NEW f \in {2, 3}, NEW t \in {1, 2, 4, 7},
               Socket(Block("socket", <<f, t>>, 0, 0))
        PROVE  OptionsInv'
    <3>1. PICK b : b = Block("socket", <<f, t>>, 0, 0)
      OBVIOUS
    <3>2. b \in BlockType /\ b.call = "socket"
      BY <3>1 DEF Block, BlockType
    <3> QED
      BY <2>4, <3>1, <3>2, SocketStep
  <2>5. CASE UNCHANGED socketVars
    <3>1. /\ via' = via /\ kopts' = kopts /\ believed' = believed /\ meant' = meant
          /\ block' = block /\ request' = request /\ heard' = heard
      BY <2>5 DEF socketVars
    <3>2. via \in Vias
      BY DEF OptionsInv
    <3>3. Spoilt' = Spoilt
      BY <3>1, <3>2, ViaStays DEF Spoilt
    <3>4. Kept'
      BY <3>1, <3>2, <3>3, ViaStays DEF OptionsInv, Kept
    <3>5. BlockKept' /\ OptionReadBack'
      BY <3>1 DEF OptionsInv, BlockKept, Means, OptionReadBack, Shared
    <3> QED
      BY <3>1, <3>4, <3>5 DEF OptionsInv
  <2> QED
    BY <2>2, <2>3, <2>4, <2>5, AgainStep DEF OptionsNext
<1> QED
  BY <1>1, <1>2, PTL DEF OptionsSpec

(* Whatever options a program uses and however many it sets, one it was    *)
(* told it set reads back as it set it: the maps of the options and of     *)
(* level 0 never send two options it may use to one of Linux's, but for    *)
(* the options OptionReadBack names, and a get goes where the set went     *)
(* (abi_do_setsockopt, wyse_setsockopt, sunos_setsockopt and their gets).  *)
THEOREM OptionsReadBack == OptionsSpec => []OptionReadBack
<1>1. OptionsInv => OptionReadBack
  BY DEF OptionsInv
<1> QED
  BY <1>1, OptionsInvariant, PTL

(* A call repeated with the block socksys renumbered asks Linux for what   *)
(* it asked the first time, for any option: what stands in the block is    *)
(* what Linux was asked, and outside level 0 socksys leaves it as it is.   *)
THEOREM RepeatsAskTheSame == OptionsSpec => RepeatAsksTheSame
<1>1. ASSUME OptionsInv, Again, request # <<>>,
             ~(block.call # "socket" /\ block.level = 0),
             ~(block.call = "socket" /\ block.name >= 3)
      PROVE  request' = request
  <2>1. PICK b : b = [block EXCEPT !.again = TRUE]
    OBVIOUS
  <2>2. block \in BlockType /\ BlockKept /\ via = "socksys"
    BY <1>1 DEF OptionsInv, BlockKept, Again
  <2>3. b.call = block.call /\ b.level = block.level /\ b.name = block.name
        /\ b.again = TRUE
    BY <2>1, <2>2 DEF BlockType
  <2>4. \/ b.call = "set" /\ SetSockopt(b, meant, b.value)
        \/ b.call = "get" /\ GetSockopt(b, meant)
        \/ b.call = "socket" /\ Socket(b)
    BY <1>1, <2>1 DEF Again
  <2>5. CASE b.call \in {"set", "get"}
    <3>1. Means(b, meant) /\ request = <<b.level, b.name>>
          /\ b.level # 0 /\ (b.level = Ioctl => b.name = 1)
      BY <1>1, <2>1, <2>2, <2>3, <2>5 DEF BlockKept
    <3>2. b.level \in {1, Ioctl}
      BY <2>3, <3>1 DEF Means
    <3>3. PICK set \in BOOLEAN :
             IF set THEN SetSockopt(b, meant, b.value) ELSE GetSockopt(b, meant)
      BY <2>4, <2>5
    <3>4. PICK c : c = OptionCall(b, set)
      OBVIOUS
    <3>5. c.level = b.level /\ c.name = b.name /\ c.how = "linux"
      <4>1. CASE b.level = Ioctl
        BY <2>2, <3>1, <3>4, <4>1, IoctlForms DEF Vias
      <4>2. CASE b.level = 1
        <5>1. b.level # Ioctl /\ b.level \notin {0, SolSocket}
          BY <4>2 DEF Ioctl, SolSocket
        <5>2. SocksysForm(b, set, c)
          BY <2>2, <3>4, <5>1, SocksysForms
        <5> QED
          BY <5>1, <5>2 DEF SocksysForm
      <4> QED
        BY <3>2, <4>1, <4>2
    <3>6. request' = IF c.how = "linux" THEN <<c.level, c.name>> ELSE <<>>
      <4>1. CASE set
        BY <3>3, <3>4, <4>1 DEF SetSockopt
      <4>2. CASE ~set
        BY <3>3, <3>4, <4>2 DEF GetSockopt
      <4> QED
        BY <4>1, <4>2
    <3> QED
      BY <3>1, <3>5, <3>6
  <2>6. CASE b.call = "socket"
    <3>1. request = <<b.level, b.name>> /\ b.level \in 0 .. 2 /\ b.name \in 0 .. 5
          /\ ~(b.name >= 3)
      BY <1>1, <2>2, <2>3, <2>6 DEF BlockKept
    <3>2. request' = <<MapValue(AfMap, b.level), MapValue(SocktypeMap, b.name)>>
      BY <2>2, <2>4, <2>6 DEF Socket
    <3>3. MapValue(AfMap, b.level) = b.level
      <4>1. \A m \in AfMap : m[2] = m[1]
        BY DEF AfMap
      <4>2. \E m \in AfMap : m[1] = b.level
        BY <3>1 DEF AfMap
      <4> QED
        BY <4>1, <4>2, MapValueIs
    <3>4. MapValue(SocktypeMap, b.name) = b.name
      <4>1. b.name \in 0 .. 2
        BY <3>1
      <4>2. \A m \in SocktypeMap : m[1] \in 0 .. 2 => m[2] = m[1]
        BY DEF SocktypeMap
      <4>3. b.name = 0 \/ \E m \in SocktypeMap : m[1] = b.name
        BY <4>1 DEF SocktypeMap
      <4>4. \A m \in SocktypeMap : m[1] # 0
        BY DEF SocktypeMap
      <4> QED
        BY <4>1, <4>2, <4>3, <4>4, MapValueIs
    <3> QED
      BY <3>1, <3>2, <3>3, <3>4
  <2> QED
    BY <2>4, <2>5, <2>6
<1>2. OptionsInv /\ [OptionsNext]_socketVars =>
         [(Again /\ block # NoBlock /\ request # <<>>
             /\ ~(block.call # "socket" /\ block.level = 0)
             /\ ~(block.call = "socket" /\ block.name >= 3))
           => request' = request]_socketVars
  BY <1>1
<1> QED
  BY <1>2, OptionsInvariant, PTL DEF OptionsSpec, RepeatAsksTheSame

=============================================================================
