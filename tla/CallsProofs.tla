---------------------------- MODULE CallsProofs ----------------------------
(***************************************************************************)
(* Proofs about Dispatch and SigMask, from the tables of Personality, and  *)
(* about Terminal: for any depth of nested calls, any errors a handler     *)
(* fails with, any of the program's signals in its masks, and any flags of *)
(* a terminal.                                                             *)
(***************************************************************************)
EXTENDS Dispatch, SigMask, Terminal, TLAPS

(***************************************************************************)
(* Error numbers.                                                          *)
(***************************************************************************)

(* No table of errors gives EPERM for another error.                       *)
LEMMA NoEpermInTables ==
    ASSUME NEW p \in Personalities, NEW i \in 1 .. 88
    PROVE  ErrTable[p][i] # EPERM
<1>1. IscErrors[i] # 1
  BY DEF IscErrors
<1>2. ScoErrors[i] # 1
  BY DEF ScoErrors
<1>3. WyseErrors[i] # 1
  BY DEF WyseErrors
<1> QED
  BY <1>1, <1>2, <1>3
     DEF ErrTable, Personalities, SolarisErrors, Uw7Errors, EPERM

(* Errors become numbers.                                                  *)
LEMMA ErrorsAreNumbers ==
    ASSUME NEW p \in Personalities, NEW i \in 1 .. 88
    PROVE  ErrTable[p][i] \in Int
<1>1. IscErrors[i] \in Int
  BY DEF IscErrors
<1>2. ScoErrors[i] \in Int
  BY DEF ScoErrors
<1>3. WyseErrors[i] \in Int
  BY DEF WyseErrors
<1> QED
  BY <1>1, <1>2, <1>3 DEF ErrTable, Personalities, SolarisErrors, Uw7Errors

(* An error becomes EPERM only if it is EPERM or no table has it; an       *)
(* interrupted call, and one to be restarted, becomes EINTR.               *)
LEMMA ErrorsKeepMeaning ==
    ASSUME NEW p \in Personalities, NEW e \in Nat \ {0}
    PROVE  /\ IAbiErrors(p, e) \in Int
           /\ IAbiErrors(p, e) = EPERM => e = EPERM \/ (e > 122 /\ e \notin 512 .. 514)
           /\ e \in {EINTR, 512, 513, 514} => IAbiErrors(p, e) = EINTR
<1>1. CASE e \in 0 .. 34
  <2>1. IAbiErrors(p, e) = e
    BY <1>1 DEF IAbiErrors
  <2> QED
    BY <1>1, <2>1 DEF EPERM, EINTR
<1>2. CASE e \in 35 .. 122
  <2>1. IAbiErrors(p, e) = ErrTable[p][e - 34]
    BY <1>2 DEF IAbiErrors
  <2>2. e - 34 \in 1 .. 88
    BY <1>2
  <2> QED
    BY <1>2, <2>1, <2>2, NoEpermInTables, ErrorsAreNumbers DEF EINTR
<1>3. CASE e \in 512 .. 514
  BY <1>3 DEF IAbiErrors, EINTR, EPERM
<1>4. CASE e \notin 0 .. 122 /\ e \notin 512 .. 514
  <2>1. IAbiErrors(p, e) = EPERM
    BY <1>4 DEF IAbiErrors
  <2> QED
    BY <1>4, <2>1 DEF EINTR, EPERM
<1> QED
  BY <1>1, <1>2, <1>3, <1>4

(***************************************************************************)
(* The tables of calls.                                                    *)
(***************************************************************************)

(* An entry whose convention is its handler's: what is given the registers *)
(* wants them, and what is given arguments does not, but for Misfits.      *)
Agrees(handler, nargs) ==
    /\ nargs \in Int
    /\ nargs \in {Fast, Spl} => handler \in TakesRegs
    /\ nargs \notin {Fast, Spl, Linux} => handler \notin TakesRegs \ Misfits

(* A row of a main table: syscall(2) is number 0 and no other, sysisc is   *)
(* number 105 and no other, and both are given the registers.              *)
Sound(e) ==
    /\ Agrees(e[2], e[3])
    /\ e[1] = 0 <=> e[2] = "abi_syscall"
    /\ e[1] = 105 <=> e[2] = "isc_sysisc"
    /\ e[1] \in {0, 105} => e[3] = Fast

(* The rows of ISC's table are sound.                                      *)
LEMMA IscSound == \A e \in IscLow \cup IscHigh : Sound(e)
<1>1. \A e \in IscLow : Sound(e)
  BY DEF IscLow, Sound, Agrees, TakesRegs, Misfits, Fast, Spl, Linux
<1>2. \A e \in IscHigh : Sound(e)
  BY DEF IscHigh, Sound, Agrees, TakesRegs, Misfits, Fast, Spl, Linux
<1> QED
  BY <1>1, <1>2

(* A change of a table keeps its rows or brings new ones.                  *)
LEMMA ChangedRows ==
    ASSUME NEW table, NEW dropped, NEW new, NEW e \in Changed(table, dropped, new)
    PROVE  e \in new \/ (e \in table /\ e[1] \notin dropped)
BY DEF Changed

(* The rows of SCO's and Xenix's table are sound, and sysisc is not there. *)
LEMMA ScoSound == \A e \in ScoLow \cup ScoHigh : Sound(e) /\ e[1] # 105
<1>1. \A e \in ScoLow : Sound(e)
  BY IscSound, ChangedRows DEF ScoLow, Sound, Agrees, TakesRegs, Misfits, Fast, Spl, Linux
<1>2. \A e \in ScoHigh : Sound(e)
  BY IscSound, ChangedRows DEF ScoHigh, Sound, Agrees, TakesRegs, Misfits, Fast, Spl, Linux
<1>3. \A e \in IscLow : e[1] # 105
  BY DEF IscLow
<1>4. \A e \in ScoLow : e[1] # 105
  BY <1>3, ChangedRows DEF ScoLow
<1>5. \A e \in ScoHigh : e[1] # 105
  BY ChangedRows DEF ScoHigh
<1> QED
  BY <1>1, <1>2, <1>4, <1>5

(* The same of Solaris's table.                                            *)
LEMMA SolarisSound == \A e \in SolarisLow \cup SolarisHigh : Sound(e) /\ e[1] # 105
<1>1. \A e \in SolarisHigh : Sound(e)
  BY IscSound, ChangedRows
     DEF SolarisHigh, Sound, Agrees, TakesRegs, Misfits, Fast, Spl, Linux
<1>2. \A e \in SolarisLow : e[1] # 105
  BY DEF SolarisLow, IscLow
<1>3. \A e \in SolarisHigh : e[1] # 105
  BY ChangedRows DEF SolarisHigh
<1> QED
  BY <1>1, <1>2, <1>3, IscSound DEF SolarisLow

(* The same of UnixWare 7's table.                                         *)
LEMMA Uw7Sound == \A e \in Uw7Low \cup Uw7High : Sound(e) /\ e[1] # 105
<1>1. \A e \in Uw7Low : Sound(e)
  BY IscSound, ChangedRows DEF Uw7Low, Sound, Agrees, TakesRegs, Misfits, Fast, Spl, Linux
<1>2. \A e \in Uw7High : Sound(e)
  BY IscSound, ChangedRows DEF Uw7High, Sound, Agrees, TakesRegs, Misfits, Fast, Spl, Linux
<1>3. \A e \in IscLow : e[1] # 105
  BY DEF IscLow
<1>4. \A e \in Uw7Low : e[1] # 105
  BY <1>3, ChangedRows DEF Uw7Low
<1>5. \A e \in Uw7High : e[1] # 105
  BY ChangedRows DEF Uw7High
<1> QED
  BY <1>1, <1>2, <1>4, <1>5

(* The same of Wyse's table.                                               *)
LEMMA WyseSound == \A e \in WyseLow \cup WyseHigh : Sound(e) /\ e[1] # 105
<1>1. \A e \in WyseLow : Sound(e)
  BY IscSound, ChangedRows DEF WyseLow, Sound, Agrees, TakesRegs, Misfits, Fast, Spl, Linux
<1>2. \A e \in WyseHigh : Sound(e)
  BY IscSound, ChangedRows DEF WyseHigh, Sound, Agrees, TakesRegs, Misfits, Fast, Spl, Linux
<1>3. \A e \in IscLow : e[1] # 105
  BY DEF IscLow
<1>4. \A e \in WyseLow : e[1] # 105
  BY <1>3, ChangedRows DEF WyseLow
<1>5. \A e \in WyseHigh : e[1] # 105
  BY ChangedRows DEF WyseHigh
<1> QED
  BY <1>1, <1>2, <1>4, <1>5

(* A row of a sub-table: none leads to another table, and with sysisc only *)
(* sigsuspend is given the registers.                                      *)
SubSound(e) == Agrees(e[2], e[3]) /\ e[2] \notin Nested

(* The rows of the sub-tables are sound.                                   *)
LEMMA SubTablesSound ==
    /\ \A e \in CxenixTable \cup WyseTcpTable : SubSound(e)
    /\ \A e \in SysiscTable :
          SubSound(e) /\ (e[3] \in {Fast, Spl} => e[2] = "abi_sigsuspend")
<1>1. \A e \in CxenixTable : SubSound(e)
  BY DEF CxenixTable, SubSound, Nested, Agrees, TakesRegs, Misfits, Fast, Spl, Linux
<1>2. \A e \in WyseTcpTable : SubSound(e)
  BY DEF WyseTcpTable, SubSound, Nested, Agrees, TakesRegs, Misfits, Fast, Spl, Linux
<1>3. \A e \in SysiscTable :
          SubSound(e) /\ (e[3] \in {Fast, Spl} => e[2] = "abi_sigsuspend")
  BY DEF SysiscTable, SubSound, Nested, Agrees, TakesRegs, Misfits, Fast, Spl, Linux
<1> QED
  BY <1>1, <1>2, <1>3

(* What a call looked up in a table is a row of it with that number.       *)
LEMMA CallIsRow ==
    ASSUME NEW table, NEW n \in DOMAIN Calls(table)
    PROVE  \E e \in table : e[1] = n /\ Calls(table)[n] = [handler |-> e[2], nargs |-> e[3]]
<1>1. n \in {e[1] : e \in table}
  BY DEF Calls
<1>2. PICK e \in table : e[1] = n
  BY <1>1
<1>3. (CHOOSE d \in table : d[1] = n) \in table
      /\ (CHOOSE d \in table : d[1] = n)[1] = n
  BY <1>2
<1>4. Calls(table)[n] = [handler |-> (CHOOSE d \in table : d[1] = n)[2],
                         nargs |-> (CHOOSE d \in table : d[1] = n)[3]]
  BY <1>1 DEF Calls
<1> QED
  BY <1>3, <1>4

SubNames == {"cxenix", "sysisc", "tcp", "nfs"}

(* An entry found under number n in the main table of personality p.       *)
MainEntry(p, n, en) ==
    /\ Agrees(en.handler, en.nargs)
    /\ n = 0 <=> en.handler = "abi_syscall"
    /\ p = "isc" /\ n = 105 <=> en.handler = "isc_sysisc"
    /\ n = 0 \/ (p = "isc" /\ n = 105) => en.nargs = Fast

(* An entry found in a sub-table.                                          *)
SubEntry(table, en) ==
    /\ Agrees(en.handler, en.nargs)
    /\ en.handler \notin Nested
    /\ table = "sysisc" /\ en.nargs \in {Fast, Spl} => en.handler = "abi_sigsuspend"

(* What the main tables hold.                                              *)
LEMMA MainTables ==
    ASSUME NEW p \in Personalities, NEW n \in DOMAIN Tables[p].calls
    PROVE  MainEntry(p, n, Tables[p].calls[n])
<1>1. ASSUME NEW table, n \in DOMAIN Calls(table), \A e \in table : Sound(e),
             p = "isc" \/ \A e \in table : e[1] # 105
      PROVE  MainEntry(p, n, Calls(table)[n])
  <2>1. PICK e \in table : e[1] = n /\ Calls(table)[n] = [handler |-> e[2], nargs |-> e[3]]
    BY <1>1, CallIsRow
  <2>2. Calls(table)[n].handler = e[2] /\ Calls(table)[n].nargs = e[3]
    BY <2>1
  <2>3. Sound(e) /\ (p = "isc" \/ e[1] # 105)
    BY <1>1, <2>1
  <2> QED
    BY <2>1, <2>2, <2>3 DEF Sound, MainEntry
<1>2. CASE p = "isc"
  <2>1. Tables[p].calls = Calls(IscLow \cup IscHigh)
    BY <1>2 DEF Tables
  <2> QED
    BY <1>1, <1>2, <2>1, IscSound
<1>3. CASE p \in {"sco", "xenix"}
  <2>1. Tables[p].calls = Calls(ScoLow \cup ScoHigh)
    BY <1>3 DEF Tables
  <2> QED
    BY <1>1, <2>1, ScoSound
<1>4. CASE p = "solaris"
  <2>1. Tables[p].calls = Calls(SolarisLow \cup SolarisHigh)
    BY <1>4 DEF Tables
  <2> QED
    BY <1>1, <2>1, SolarisSound
<1>5. CASE p = "uw7"
  <2>1. Tables[p].calls = Calls(Uw7Low \cup Uw7High)
    BY <1>5 DEF Tables
  <2> QED
    BY <1>1, <2>1, Uw7Sound
<1>6. CASE p = "wyse"
  <2>1. Tables[p].calls = Calls(WyseLow \cup WyseHigh)
    BY <1>6 DEF Tables
  <2> QED
    BY <1>1, <2>1, WyseSound
<1> QED
  BY <1>2, <1>3, <1>4, <1>5, <1>6 DEF Personalities

(* What the sub-tables hold.                                               *)
LEMMA SubTables ==
    ASSUME NEW t \in SubNames, NEW n \in DOMAIN Tables[t].calls
    PROVE  SubEntry(t, Tables[t].calls[n])
<1>1. ASSUME NEW table, n \in DOMAIN Calls(table), \A e \in table : SubSound(e),
             t # "sysisc" \/ table = SysiscTable
      PROVE  SubEntry(t, Calls(table)[n])
  <2>1. PICK e \in table : e[1] = n /\ Calls(table)[n] = [handler |-> e[2], nargs |-> e[3]]
    BY <1>1, CallIsRow
  <2>2. Calls(table)[n].handler = e[2] /\ Calls(table)[n].nargs = e[3]
    BY <2>1
  <2>3. SubSound(e) /\ (t = "sysisc" => e \in SysiscTable)
    BY <1>1, <2>1
  <2> QED
    BY <2>2, <2>3, SubTablesSound DEF SubSound, SubEntry
<1>2. CASE t = "cxenix"
  <2>1. Tables[t].calls = Calls(CxenixTable)
    BY <1>2 DEF Tables
  <2> QED
    BY <1>1, <1>2, <2>1, SubTablesSound
<1>3. CASE t = "sysisc"
  <2>1. Tables[t].calls = Calls(SysiscTable)
    BY <1>3 DEF Tables
  <2> QED
    BY <1>1, <1>3, <2>1, SubTablesSound
<1>4. CASE t = "tcp"
  <2>1. Tables[t].calls = Calls(WyseTcpTable)
    BY <1>4 DEF Tables
  <2> QED
    BY <1>1, <1>4, <2>1, SubTablesSound
<1>5. CASE t = "nfs"
  <2>1. Tables[t].calls = Calls({})
    BY <1>5 DEF Tables
  <2> QED
    BY <1>1, <1>5, <2>1
<1> QED
  BY <1>2, <1>3, <1>4, <1>5 DEF SubNames

(***************************************************************************)
(* Dispatching.                                                            *)
(***************************************************************************)

(* The number looked up in the main table, while syscall(2) has been       *)
(* entered "pending" times of the call.depth the program asked for.        *)
Number == IF pending < call.depth THEN 0 ELSE call.code % 256

(* The call asked for is one through sysisc.                               *)
ThroughSysisc == pers = "isc" /\ call.code % 256 = 105

(* The entry in hand is that of the main table under that number, with the *)
(* arguments one word up; or it is one of a sub-table, which only the last *)
(* of the nested calls reaches, two words up if the table is sysisc's.     *)
Found ==
    \/ off = 1 /\ MainEntry(pers, Number, entry)
    \/ /\ pending = call.depth /\ off = IF ThroughSysisc THEN 2 ELSE 1
       /\ \E t \in SubNames : SubEntry(t, entry) /\ (t = "sysisc" <=> ThroughSysisc)

(* ErrorReported, for the registers and the error of a call that is over.  *)
Reported ==
    /\ regs.carry <=> error # 0
    /\ regs.carry /\ regs.ax = EPERM =>
          error \in {EPERM, EINVAL} \/ (error > 122 /\ error \notin 512 .. 514)
    /\ error \in {EINTR, 512, 513, 514} => regs.ax = EINTR

CallTypes ==
    /\ pers \in Personalities /\ pending \in Nat /\ error \in Nat
    /\ regs \in [ax : Int, carry : BOOLEAN, sp : Int]
    /\ call \in [depth : Nat, code : Nat, sub : Nat]

(* The inductive invariant: the stack pointer has moved by one word for    *)
(* each syscall(2) that is not over, and AX holds the number that the next *)
(* look-up needs.                                                          *)
CallInv ==
    /\ CallTypes /\ regs.sp = pending
    /\ pc \in {"return", "user"} => Reported
    /\ pc = "user" => pending = 0
    /\ pc \in {"handler", "dispatch", "args", "regs"} =>
          pending <= call.depth /\ call.code % 256 # 0
    /\ pc = "handler" => regs.ax = IF pending < call.depth THEN 0 ELSE call.code
    /\ pc \in {"dispatch", "args", "regs"} => Found
    /\ pc = "args" => entry.nargs \notin {Fast, Spl}
    /\ pc = "regs" => entry.nargs \in {Fast, Spl}

(* The invariant implies what the runs check.                              *)
LEMMA CallInvSuffices ==
    ASSUME CallInv
    PROVE  StackKept /\ ErrorReported
<1>. /\ pending \in Nat /\ call.depth \in Nat /\ call.code \in Nat /\ regs.sp = pending
     /\ call.code % 256 \in Nat
  BY DEF CallInv, CallTypes
<1>1. ErrorReported
  BY DEF CallInv, ErrorReported, Reported
<1>2. ASSUME pc = "args"
      PROVE  /\ entry.nargs # Linux => entry.handler \notin TakesRegs \ Misfits
             /\ regs.sp + off = call.depth + 1 + IF ThroughSysisc THEN 1 ELSE 0
  <2>1. Found /\ entry.nargs \notin {Fast, Spl} /\ pending <= call.depth
    BY <1>2 DEF CallInv
  <2>2. CASE off = 1 /\ MainEntry(pers, Number, entry)
    <3>1. Number # 0 /\ ~(pers = "isc" /\ Number = 105)
      BY <2>1, <2>2 DEF MainEntry
    <3>2. pending = call.depth /\ ~ThroughSysisc
      BY <2>1, <3>1 DEF Number, ThroughSysisc
    <3> QED
      BY <2>1, <2>2, <3>2 DEF MainEntry, Agrees
  <2>3. CASE /\ pending = call.depth /\ off = IF ThroughSysisc THEN 2 ELSE 1
             /\ \E t \in SubNames : SubEntry(t, entry)
    BY <2>1, <2>3 DEF SubEntry, Agrees
  <2> QED
    BY <2>1, <2>2, <2>3 DEF Found
<1>3. ASSUME pc = "regs"
      PROVE  /\ entry.handler \in TakesRegs
             /\ entry.handler \notin Nested =>
                   \/ regs.sp + 1 = call.depth + 1 + IF ThroughSysisc THEN 1 ELSE 0
                   \/ entry.handler = "abi_sigsuspend"
  <2>1. Found /\ entry.nargs \in {Fast, Spl} /\ pending <= call.depth
    BY <1>3 DEF CallInv
  <2>2. CASE off = 1 /\ MainEntry(pers, Number, entry)
    <3>1. entry.handler \notin Nested => Number # 0 /\ ~(pers = "isc" /\ Number = 105)
      BY <2>2 DEF MainEntry, Nested
    <3>2. entry.handler \notin Nested => pending = call.depth /\ ~ThroughSysisc
      BY <2>1, <3>1 DEF Number, ThroughSysisc
    <3> QED
      BY <2>1, <2>2, <3>2 DEF MainEntry, Agrees
  <2>3. CASE /\ pending = call.depth
             /\ \E t \in SubNames : SubEntry(t, entry) /\ (t = "sysisc" <=> ThroughSysisc)
    BY <2>1, <2>3 DEF SubEntry, Agrees
  <2> QED
    BY <2>1, <2>2, <2>3 DEF Found
<1>4. pc = "user" => regs.sp = 0 /\ pending = 0
  BY DEF CallInv
<1> QED
  BY <1>1, <1>2, <1>3, <1>4 DEF StackKept, ThroughSysisc

(* A failed call is reported, wherever it failed.                          *)
LEMMA FailStep ==
    ASSUME CallInv, NEW errno \in Nat \ {0}, NEW mapped \in Int, Fail(errno, mapped),
           UNCHANGED <<pers, pending, call>>,
           mapped = EPERM =>
               errno \in {EPERM, EINVAL} \/ (errno > 122 /\ errno \notin 512 .. 514),
           errno \in {EINTR, 512, 513, 514} => mapped = EINTR
    PROVE  CallInv'
<1>1. /\ regs \in [ax : Int, carry : BOOLEAN, sp : Int]
      /\ regs' = [regs EXCEPT !.ax = mapped, !.carry = TRUE]
      /\ error' = errno /\ pc' = "return"
  BY DEF Fail, CallInv, CallTypes
<1>2. /\ regs' \in [ax : Int, carry : BOOLEAN, sp : Int]
      /\ regs'.ax = mapped /\ regs'.carry = TRUE /\ regs'.sp = regs.sp
  BY <1>1
<1>3. Reported'
  BY <1>1, <1>2 DEF Reported
<1> QED
  BY <1>1, <1>2, <1>3 DEF CallInv, CallTypes

(* Failing with the personality's number for a Linux error is reported.    *)
LEMMA FailMapped ==
    ASSUME CallInv, NEW errno \in Nat \ {0}, Fail(errno, IAbiErrors(pers, errno)),
           UNCHANGED <<pers, pending, call>>
    PROVE  CallInv'
<1>1. pers \in Personalities
  BY DEF CallInv, CallTypes
<1>2. PICK mapped \in Int : mapped = IAbiErrors(pers, errno)
  BY <1>1, ErrorsKeepMeaning
<1> QED
  BY <1>1, <1>2, ErrorsKeepMeaning, FailStep

(* A look-up that finds nothing fails with a reported error; one that      *)
(* finds an entry must leave Found true.                                   *)
LEMMA LookUpStep ==
    ASSUME CallInv, NEW table, NEW sysno, NEW from, LookUp(table, sysno, from),
           pending <= call.depth, call.code % 256 # 0,
           sysno \in DOMAIN Tables[table].calls /\ entry' = Tables[table].calls[sysno]
               /\ off' = from /\ UNCHANGED <<pers, pending, call>> => Found'
    PROVE  CallInv'
<1>1. CASE /\ Fail(EINVAL, IAbiErrors(pers, -EINVAL)) /\ UNCHANGED <<pers, pending, call>>
  <2>1. PICK m \in Int : m = -22
    OBVIOUS
  <2>2. m \notin 0 .. 34 /\ m \notin 35 .. 122 /\ m \notin 512 .. 514
    BY <2>1
  <2>3. IAbiErrors(pers, m) = EPERM
    BY <2>2 DEF IAbiErrors
  <2>4. Fail(EINVAL, EPERM) /\ EINVAL \in Nat \ {0} /\ EPERM \in Int
    BY <1>1, <2>1, <2>3 DEF EINVAL, EPERM
  <2>5. EINVAL \notin {EINTR, 512, 513, 514}
    BY DEF EINVAL, EINTR
  <2> QED
    BY <1>1, <2>4, <2>5, FailStep
<1>2. CASE /\ Fail(ENOSYS, IAbiErrors(pers, ENOSYS)) /\ UNCHANGED <<pers, pending, call>>
  BY <1>2, FailMapped DEF ENOSYS
<1>3. CASE /\ sysno \in DOMAIN Tables[table].calls
           /\ entry' = Tables[table].calls[sysno] /\ off' = from /\ pc' = "dispatch"
           /\ UNCHANGED <<pers, regs, pending, call, error>>
  <2>1. Found'
    BY <1>3
  <2> QED
    BY <1>3, <2>1 DEF CallInv, CallTypes
<1> QED
  BY <1>1, <1>2, <1>3 DEF LookUp

(* The program traps: its number is in AX, or syscall(2)'s is.             *)
LEMMA TrapStep ==
    ASSUME CallInv, NEW code \in 1 .. 255, NEW depth \in Nat, NEW sub \in Nat,
           Trap(code, depth, sub)
    PROVE  CallInv'
<1>1. PICK n \in Nat : n = code + 256 * sub
  OBVIOUS
<1>2. n % 256 = code
  BY <1>1
<1>3. /\ call' = [depth |-> depth, code |-> n, sub |-> sub]
      /\ regs' = [regs EXCEPT !.ax = IF depth = 0 THEN n ELSE 0]
      /\ pc = "user" /\ pc' = "handler" /\ error' = 0 /\ pers' = pers /\ pending' = pending
  BY <1>1 DEF Trap
<1>4. call' \in [depth : Nat, code : Nat, sub : Nat] /\ call'.depth = depth /\ call'.code = n
  BY <1>3
<1>5. /\ regs \in [ax : Int, carry : BOOLEAN, sp : Int] /\ pending = 0 /\ regs.sp = 0
  BY <1>3 DEF CallInv, CallTypes
<1>6. /\ regs' \in [ax : Int, carry : BOOLEAN, sp : Int] /\ regs'.sp = 0
      /\ regs'.ax = IF depth = 0 THEN n ELSE 0
  BY <1>3, <1>5
<1>7. CallTypes'
  BY <1>3, <1>4, <1>6 DEF CallTypes, CallInv
<1>8. pending' = 0 /\ regs'.sp = pending' /\ pending' <= call'.depth /\ call'.code % 256 # 0
  BY <1>2, <1>3, <1>4, <1>5, <1>6
<1>9. regs'.ax = IF pending' < call'.depth THEN 0 ELSE call'.code
  BY <1>4, <1>6, <1>8
<1> QED
  BY <1>3, <1>7, <1>8, <1>9 DEF CallInv

(* The main handlers look up what AX says.                                 *)
LEMMA Lcall7Step ==
    ASSUME CallInv, Lcall7
    PROVE  CallInv'
<1>1. /\ pc = "handler" /\ LookUp(pers, regs.ax % 256, 1)
      /\ pending <= call.depth /\ call.code % 256 # 0 /\ call.code \in Nat
      /\ regs.ax = (IF pending < call.depth THEN 0 ELSE call.code)
      /\ pers \in Personalities
  BY DEF Lcall7, CallInv, CallTypes
<1>2. regs.ax % 256 = Number
  BY <1>1 DEF Number
<1>3. ASSUME Number \in DOMAIN Tables[pers].calls, entry' = Tables[pers].calls[Number],
             off' = 1, UNCHANGED <<pers, pending, call>>
      PROVE  Found'
  <2>1. MainEntry(pers, Number, entry')
    BY <1>1, <1>3, MainTables
  <2>2. MainEntry(pers', Number', entry') /\ off' = 1
    BY <1>3, <2>1 DEF Number
  <2> QED
    BY <2>2 DEF Found
<1> QED
  BY <1>1, <1>2, <1>3, LookUpStep

(* A handler given the registers that looks up a sub-table.                *)
LEMMA SubStep ==
    ASSUME CallInv, NEW t \in SubNames, NEW sysno, NEW from, pc = "regs",
           entry.handler \in Nested \ {"abi_syscall"},
           t = "sysisc" <=> entry.handler = "isc_sysisc",
           from = IF t = "sysisc" THEN 2 ELSE 1,
           LookUp(t, sysno, from)
    PROVE  CallInv'
<1>1. Found /\ pending <= call.depth /\ call.code % 256 # 0
      /\ pending \in Nat /\ call.depth \in Nat
  BY DEF CallInv, CallTypes
<1>2. MainEntry(pers, Number, entry)
  BY <1>1 DEF Found, SubEntry
<1>3. Number # 0 /\ (entry.handler = "isc_sysisc" <=> pers = "isc" /\ Number = 105)
  BY <1>2 DEF MainEntry
<1>4. pending = call.depth
  BY <1>1, <1>3 DEF Number
<1>5. t = "sysisc" <=> ThroughSysisc
  BY <1>3, <1>4 DEF Number, ThroughSysisc
<1>6. ASSUME sysno \in DOMAIN Tables[t].calls, entry' = Tables[t].calls[sysno],
             off' = from, UNCHANGED <<pers, pending, call>>
      PROVE  Found'
  <2>1. SubEntry(t, entry')
    BY <1>6, SubTables
  <2>2. ThroughSysisc' = ThroughSysisc
    BY <1>6 DEF ThroughSysisc
  <2>3. /\ pending' = call'.depth /\ off' = IF ThroughSysisc' THEN 2 ELSE 1
        /\ (t = "sysisc" <=> ThroughSysisc')
    BY <1>4, <1>5, <1>6, <2>2
  <2> QED
    BY <2>1, <2>3 DEF Found
<1> QED
  BY <1>1, <1>6, LookUpStep

(* syscall(2) calls the handler again, one word further up.                *)
LEMMA SyscallStep ==
    ASSUME CallInv, Lcall7Syscall
    PROVE  CallInv'
<1>1. /\ pc = "regs" /\ entry.handler = "abi_syscall" /\ pc' = "handler"
      /\ regs' = [regs EXCEPT !.ax = Word(regs.sp + 1), !.sp = regs.sp + 1]
      /\ pending' = pending + 1 /\ UNCHANGED <<pers, entry, off, call, error>>
  BY DEF Lcall7Syscall, InHandler
<1>2. /\ Found /\ pending <= call.depth /\ call.code % 256 # 0 /\ regs.sp = pending
      /\ pending \in Nat /\ call.depth \in Nat /\ call.code \in Nat /\ call.sub \in Nat
      /\ regs \in [ax : Int, carry : BOOLEAN, sp : Int]
  BY <1>1 DEF CallInv, CallTypes
<1>3. MainEntry(pers, Number, entry)
  BY <1>1, <1>2 DEF Found, SubEntry, Nested
<1>4. pending < call.depth
  BY <1>1, <1>2, <1>3 DEF MainEntry, Number
<1>5. PICK w \in Int : /\ w = Word(pending + 1)
                       /\ w = IF pending + 1 < call.depth THEN 0 ELSE call.code
  <2>1. CASE pending + 1 < call.depth
    BY <1>2, <2>1 DEF Word
  <2>2. CASE pending + 1 = call.depth
    BY <1>2, <2>2 DEF Word
  <2> QED
    BY <1>2, <1>4, <2>1, <2>2
<1>n. PICK n \in Int : n = pending + 1
  BY <1>2
<1>6. regs' = [regs EXCEPT !.ax = w, !.sp = n]
  BY <1>1, <1>2, <1>5, <1>n
<1>7. /\ regs' \in [ax : Int, carry : BOOLEAN, sp : Int]
      /\ regs'.ax = w /\ regs'.sp = n
  BY <1>2, <1>6
<1>8. CallTypes'
  BY <1>1, <1>2, <1>7 DEF CallTypes, CallInv
<1> QED
  BY <1>1, <1>2, <1>4, <1>5, <1>n, <1>7, <1>8 DEF CallInv

(* The rest of syscall(2) moves the stack pointer back.                    *)
LEMMA SyscallReturnStep ==
    ASSUME CallInv, Lcall7SyscallReturn
    PROVE  CallInv'
<1>1. /\ pc = "return" /\ pc' = "return" /\ pending > 0 /\ pending' = pending - 1
      /\ regs' = [regs EXCEPT !.sp = regs.sp - 1]
      /\ UNCHANGED <<pers, entry, off, call, error>>
  BY DEF Lcall7SyscallReturn
<1>2. /\ regs \in [ax : Int, carry : BOOLEAN, sp : Int] /\ regs.sp = pending
      /\ pending \in Nat /\ Reported
  BY <1>1 DEF CallInv, CallTypes
<1>3. /\ regs' \in [ax : Int, carry : BOOLEAN, sp : Int] /\ regs'.sp = pending - 1
      /\ regs'.ax = regs.ax /\ regs'.carry = regs.carry
  BY <1>1, <1>2
<1>4. Reported'
  BY <1>1, <1>2, <1>3 DEF Reported
<1>5. CallTypes'
  BY <1>1, <1>2, <1>3 DEF CallTypes, CallInv
<1> QED
  BY <1>1, <1>2, <1>3, <1>4, <1>5 DEF CallInv

(* lcall7_dispatch calls the handler by the entry's convention, or fails.  *)
LEMMA DispatchStep ==
    ASSUME CallInv, Lcall7Dispatch
    PROVE  CallInv'
<1>. pc = "dispatch" /\ UNCHANGED <<pers, pending, entry, off, call>>
  BY DEF Lcall7Dispatch
<1>1. /\ Found /\ pending <= call.depth /\ call.code % 256 # 0
      /\ pers \in Personalities
  BY DEF CallInv, CallTypes
<1>2. entry.nargs \in Int
  BY <1>1 DEF Found, MainEntry, SubEntry, Agrees
<1>3. Found'
  BY <1>1 DEF Found, Number, ThroughSysisc
<1>4. CASE entry.nargs <= 6 /\ pc' = "args" /\ UNCHANGED <<regs, error>>
  <2>1. entry.nargs \notin {Fast, Spl}
    BY <1>2, <1>4 DEF Fast, Spl
  <2> QED
    BY <1>1, <1>3, <1>4, <2>1 DEF CallInv, CallTypes
<1>5. CASE entry.nargs \in {Fast, Spl} /\ pc' = "regs" /\ UNCHANGED <<regs, error>>
  BY <1>1, <1>3, <1>5 DEF CallInv, CallTypes
<1>6. CASE Fail(ENOSYS, IAbiErrors(pers, ENOSYS))
  BY <1>6, FailMapped DEF ENOSYS
<1> QED
  BY <1>4, <1>5, <1>6 DEF Lcall7Dispatch

(* A handler returns.                                                      *)
LEMMA ReturnsStep ==
    ASSUME CallInv, Returns
    PROVE  CallInv'
<1>1. ASSUME NEW e \in Errnos, Fail(e, IAbiErrors(pers, e)), UNCHANGED <<pers, pending, call>>
      PROVE  CallInv'
  BY <1>1, FailMapped, DispatchAssumption
<1>2. CASE /\ regs' = [regs EXCEPT !.ax = 0, !.carry = FALSE] /\ error' = 0
           /\ pc' = "return" /\ UNCHANGED <<pers, pending, call>>
  <2>1. regs \in [ax : Int, carry : BOOLEAN, sp : Int] /\ regs.sp = pending
    BY DEF CallInv, CallTypes
  <2>z. PICK z \in Int : z = 0
    OBVIOUS
  <2>f. PICK f \in BOOLEAN : f = FALSE
    OBVIOUS
  <2>r. regs' = [regs EXCEPT !.ax = z, !.carry = f]
    BY <1>2, <2>z, <2>f
  <2>2. /\ regs' \in [ax : Int, carry : BOOLEAN, sp : Int]
        /\ regs'.carry = f /\ regs'.sp = regs.sp
    BY <2>1, <2>r
  <2>3. Reported'
    BY <1>2, <2>2, <2>f DEF Reported, EINTR
  <2> QED
    BY <1>2, <2>1, <2>2, <2>3 DEF CallInv, CallTypes
<1> QED
  BY <1>1, <1>2 DEF Returns

(* Back in the program.                                                    *)
LEMMA ResumeStep ==
    ASSUME CallInv, Resume
    PROVE  CallInv'
<1>1. /\ pc = "return" /\ pc' = "user" /\ pending = 0 /\ call' = NoCall
      /\ UNCHANGED <<pers, regs, pending, error>>
  BY DEF Resume
<1>2. call' \in [depth : Nat, code : Nat, sub : Nat]
  BY <1>1 DEF NoCall
<1>3. Reported'
  BY <1>1 DEF Reported, CallInv
<1> QED
  BY <1>1, <1>2, <1>3 DEF CallInv, CallTypes

(* Every step of the emulator keeps the invariant.                         *)
LEMMA CallInvNext ==
    ASSUME CallInv, [DispatchNext]_dispatchVars
    PROVE  CallInv'
<1>1. ASSUME NEW code \in 1 .. 255, NEW depth \in 0 .. MaxDepth, Trap(code, depth, 0)
      PROVE  CallInv'
  <2>1. depth \in Nat /\ 0 \in Nat
    BY DispatchAssumption
  <2> QED
    BY <1>1, <2>1, TrapStep
<1>2. ASSUME NEW code \in {40, 48, 105, 131, 132}, NEW depth \in 0 .. MaxDepth,
             NEW sub \in Subs, Trap(code, depth, sub)
      PROVE  CallInv'
  <2>1. depth \in Nat /\ sub \in Nat
    BY DispatchAssumption
  <2>2. code \in 1 .. 255
    OBVIOUS
  <2> QED
    BY <1>2, <2>1, <2>2, TrapStep
<1>3. CASE Cxenix
  BY <1>3, SubStep DEF Cxenix, InHandler, Nested, SubNames
<1>4. CASE IscSysisc
  BY <1>4, SubStep DEF IscSysisc, InHandler, Nested, SubNames
<1>5. CASE WyseClassTcp
  BY <1>5, SubStep DEF WyseClassTcp, InHandler, Nested, SubNames
<1>6. CASE WyseClassNfs
  BY <1>6, SubStep DEF WyseClassNfs, InHandler, Nested, SubNames
<1>7. CASE UNCHANGED dispatchVars
  BY <1>7 DEF dispatchVars, CallInv, CallTypes, Reported, Found, Number, ThroughSysisc
<1> QED
  BY <1>1, <1>2, <1>3, <1>4, <1>5, <1>6, <1>7, Lcall7Step, SyscallStep,
     SyscallReturnStep, DispatchStep, ReturnsStep, ResumeStep DEF DispatchNext

(* The invariant holds in every state.                                     *)
THEOREM CallInvariant == DispatchSpec => []CallInv
<1>1. DispatchInit => CallInv
  BY DEF DispatchInit, CallInv, CallTypes, Reported, NoCall, EINTR
<1>2. CallInv /\ [DispatchNext]_dispatchVars => CallInv'
  BY CallInvNext
<1> QED
  BY <1>1, <1>2, PTL DEF DispatchSpec

(* In every personality, however deeply syscall(2) is nested and through   *)
(* whichever tables, the handler's first parameter is the program's first  *)
(* argument, handlers are called by their own convention, and the program  *)
(* continues with its own stack pointer (lcall7_syscall, lcall7_dispatch,  *)
(* ibcs/sysent.c, with the tables of the personalities).                   *)
THEOREM StackIsKept == DispatchSpec => []StackKept
BY CallInvariant, CallInvSuffices, PTL

(* The carry flag is set exactly when the call failed, whatever errors the *)
(* handlers fail with, and the number in AX is EPERM or EINTR only for the *)
(* errors that mean it (iABI_errors and the err_map of each personality).  *)
THEOREM ErrorsReported == DispatchSpec => []ErrorReported
BY CallInvariant, CallInvSuffices, PTL

(***************************************************************************)
(* Signal numbers.                                                         *)
(***************************************************************************)

(* Of a map of signals to Linux's, and one back: signal s is unknown to    *)
(* Linux, or it comes back as one that goes to the same, or it does not    *)
(* come back and shares its Linux signal with another.                     *)
ComesBack(map, inv, s) ==
    \/ map[s] = -1
    \/ /\ map[s] \in 1 .. 32 /\ inv[map[s]] \in 1 .. 31 /\ map[inv[map[s]]] = map[s]
    \/ /\ map[s] \in 1 .. 32 /\ inv[map[s]] = -1
       /\ \E r \in 1 .. 31 : r # s /\ map[r] = map[s]

(* In every personality, every signal does.                                *)
LEMMA SignalsComeBack ==
    ASSUME NEW p \in Personalities, NEW s \in 1 .. 31
    PROVE  ComesBack(SignalMap[p], SignalInvmap[p], s)
<1>1. ComesBack(IscToLinux, LinuxToIsc, s)
  BY DEF ComesBack, IscToLinux, LinuxToIsc
<1>2. ComesBack(ScoToLinux, LinuxToSco, s)
  BY DEF ComesBack, ScoToLinux, LinuxToSco
<1>3. ComesBack(XenixToLinux, LinuxToXenix, s)
  BY DEF ComesBack, XenixToLinux, LinuxToXenix
<1>4. ComesBack(SolarisToLinux, LinuxToSolaris, s)
  BY DEF ComesBack, SolarisToLinux, LinuxToSolaris
<1> QED
  BY <1>1, <1>2, <1>3, <1>4 DEF SignalMap, SignalInvmap, Personalities, Uw7ToLinux,
     LinuxToUw7, WyseToLinux, LinuxToWyse

(* Linux's signals that signals of the program lead to.                    *)
Reached(vec) == \A l \in vec : l # -1 /\ \E r \in Signals : l = ToLinux(r)

(* The inductive invariant: of the signals that have a Linux signal of     *)
(* their own, the program has blocked, and sent, those that Linux blocks   *)
(* and holds pending.                                                      *)
SignalsInv ==
    /\ sigpers \in Personalities /\ asked \subseteq Signals /\ sent \subseteq Signals
    /\ Reached(kmask) /\ Reached(kpend)
    /\ \A s \in Signals : Own(s) =>
          /\ s \in asked <=> ToLinux(s) \in kmask
          /\ s \in sent <=> ToLinux(s) \in kpend
    /\ SignalsKeepTheirNumber

(* A set of Linux's told to the program names a signal of its own exactly  *)
(* when it holds that signal's.                                            *)
LEMMA ToldBack ==
    ASSUME sigpers \in Personalities, NEW vec, Reached(vec), NEW s \in Signals, Own(s)
    PROVE  s \in ProgramSet(vec) <=> ToLinux(s) \in vec
<1>. PICK map, inv : map = SignalMap[sigpers] /\ inv = SignalInvmap[sigpers]
  OBVIOUS
<1>0. s \in 1 .. 31 /\ \A r \in Signals : r \in 1 .. 31
  BY SignalsAssumption
<1>1. \A r \in 1 .. 31 : ComesBack(map, inv, r)
  BY SignalsComeBack
<1>2. \A r : ToLinux(r) = map[r]
  BY DEF ToLinux
<1>3. map[s] # -1 /\ \A r \in 1 .. 31 : map[r] = map[s] => r = s
  BY <1>2 DEF Own
<1>4. \A n : n \in ProgramSet(vec) <=> \E l \in vec : inv[l] > 0 /\ n = inv[l]
  BY DEF ProgramSet, SigvecFromKernel
<1>5. ASSUME map[s] \in vec PROVE s \in ProgramSet(vec)
  <2>1. inv[map[s]] \in 1 .. 31 /\ map[inv[map[s]]] = map[s]
    BY <1>0, <1>1, <1>3 DEF ComesBack
  <2>2. inv[map[s]] = s
    BY <1>3, <2>1
  <2> QED
    BY <1>0, <1>4, <1>5, <2>2
<1>6. ASSUME NEW l \in vec, inv[l] > 0, s = inv[l] PROVE map[s] = l
  <2>1. PICK r \in Signals : l = map[r] /\ l # -1
    BY <1>2, <1>6 DEF Reached
  <2>2. ComesBack(map, inv, r)
    BY <1>0, <1>1
  <2>3. inv[l] # -1
    BY <1>0, <1>6
  <2> QED
    BY <1>6, <2>1, <2>2, <2>3 DEF ComesBack
<1> QED
  BY <1>2, <1>4, <1>5, <1>6

(* A set the program gives Linux holds the signal of one of its own        *)
(* exactly when the set names that one.                                    *)
LEMMA GivenOn ==
    ASSUME NEW set, set \subseteq Signals
    PROVE  /\ Reached(SigvecToKernel(set, SignalMap[sigpers]))
           /\ \A s \in Signals : Own(s) =>
                 (ToLinux(s) \in SigvecToKernel(set, SignalMap[sigpers]) <=> s \in set)
<1>1. \A l : l \in SigvecToKernel(set, SignalMap[sigpers]) <=>
                \E r \in set : ToLinux(r) # -1 /\ l = ToLinux(r)
  BY DEF SigvecToKernel, ToLinux
<1>2. Reached(SigvecToKernel(set, SignalMap[sigpers]))
  BY <1>1 DEF Reached
<1>3. ASSUME NEW s \in Signals, Own(s)
      PROVE  ToLinux(s) \in SigvecToKernel(set, SignalMap[sigpers]) <=> s \in set
  <2>1. ToLinux(s) # -1 /\ \A r \in 1 .. 31 : ToLinux(r) = ToLinux(s) => r = s
    BY <1>3 DEF Own
  <2>2. \A r \in set : r \in 1 .. 31
    BY SignalsAssumption
  <2> QED
    BY <1>1, <2>1, <2>2
<1> QED
  BY <1>2, <1>3

(* sigprocmask changes the program's set and Linux's alike.                *)
LEMMA MaskStep ==
    ASSUME SignalsInv, NEW how \in 0 .. 3, NEW set \in Masks, Sigprocmask(how, set)
    PROVE  SignalsInv'
<1>. PICK new : new = SigvecToKernel(set, SignalMap[sigpers])
  OBVIOUS
<1>0. set \subseteq Signals
  BY DEF Masks
<1>1. Reached(new) /\ \A s \in Signals : Own(s) => (ToLinux(s) \in new <=> s \in set)
  BY <1>0, GivenOn
<1>2. PICK m : /\ kmask' = m \ Unmaskable /\ Reached(m) /\ asked' \subseteq Signals
               /\ \A s \in Signals : Own(s) => (ToLinux(s) \in m <=> s \in asked')
  <2>1. CASE how \in {0, 3}
    <3>1. kmask' = new \ Unmaskable /\ asked' = set
      BY <2>1 DEF Sigprocmask
    <3> QED
      BY <1>0, <1>1, <3>1
  <2>2. CASE how = 1
    <3>1. kmask' = (kmask \cup new) \ Unmaskable /\ asked' = asked \cup set
      BY <2>2 DEF Sigprocmask
    <3>2. Reached(kmask \cup new)
      BY <1>1 DEF SignalsInv, Reached
    <3>3. \A s \in Signals : Own(s) => (ToLinux(s) \in (kmask \cup new) <=> s \in asked')
      BY <1>1, <3>1 DEF SignalsInv
    <3>4. asked' \subseteq Signals
      BY <1>0, <3>1 DEF SignalsInv
    <3> QED
      BY <3>1, <3>2, <3>3, <3>4
  <2>3. CASE how = 2
    <3>1. kmask' = (kmask \ new) \ Unmaskable /\ asked' = asked \ set
      BY <2>3 DEF Sigprocmask
    <3>2. Reached(kmask \ new)
      BY <1>1 DEF SignalsInv, Reached
    <3>3. \A s \in Signals : Own(s) => (ToLinux(s) \in (kmask \ new) <=> s \in asked')
      BY <1>1, <3>1 DEF SignalsInv
    <3>4. asked' \subseteq Signals
      BY <1>0, <3>1 DEF SignalsInv
    <3> QED
      BY <3>1, <3>2, <3>3, <3>4
  <2> QED
    BY <2>1, <2>2, <2>3
<1>3. /\ told' = [by |-> "mask", set |-> ProgramSet(kmask), was |-> asked]
      /\ kpend' = kpend \cap kmask' /\ sent' = {s \in sent : ToLinux(s) \in kmask'}
      /\ sigpers' = sigpers
  BY DEF Sigprocmask
<1>4. \A s : ToLinux(s)' = ToLinux(s) /\ Own(s)' = Own(s)
  BY <1>3 DEF ToLinux, Own
<1>5. \A s : Own(s) => ToLinux(s) \notin Unmaskable
  BY DEF Own
<1>6. Reached(kmask)' /\ Reached(kpend)'
  BY <1>2, <1>3, <1>4 DEF Reached, SignalsInv
<1>7. \A s \in Signals : Own(s)' =>
          /\ s \in asked' <=> ToLinux(s)' \in kmask'
          /\ s \in sent' <=> ToLinux(s)' \in kpend'
  BY <1>2, <1>3, <1>4, <1>5 DEF SignalsInv
<1>8. SignalsKeepTheirNumber'
  <2>1. \A s \in Signals : Own(s) => (s \in ProgramSet(kmask) <=> s \in asked)
    BY ToldBack DEF SignalsInv
  <2>2. told'.set = ProgramSet(kmask) /\ told'.was = asked
    BY <1>3
  <2> QED
    BY <1>4, <2>1, <2>2 DEF SignalsKeepTheirNumber
<1> QED
  BY <1>2, <1>3, <1>6, <1>7, <1>8 DEF SignalsInv

(* Calls that leave the masks and the pending sets alone, and that tell    *)
(* the program no set of its signals.                                      *)
LEMMA SignalsStay ==
    ASSUME SignalsInv, UNCHANGED <<sigpers, kmask, kpend, asked, sent>>,
           told' = told \/ told'.by \notin {"mask", "pending"}
    PROVE  SignalsInv'
<1>1. \A s : ToLinux(s)' = ToLinux(s) /\ Own(s)' = Own(s)
  BY DEF ToLinux, Own
<1> QED
  BY <1>1 DEF SignalsInv, Reached, SignalsKeepTheirNumber

(* A signal the program sends itself is pending for both.                  *)
LEMMA KillStep ==
    ASSUME SignalsInv, NEW sig \in Signals, Kill(sig)
    PROVE  SignalsInv'
<1>1. /\ ToLinux(sig) \in kmask /\ kpend' = kpend \cup {ToLinux(sig)}
      /\ sent' = sent \cup {sig} /\ told'.by = "none"
      /\ UNCHANGED <<sigpers, kmask, asked>>
  BY DEF Kill, Nothing
<1>2. \A s : ToLinux(s)' = ToLinux(s) /\ Own(s)' = Own(s)
  BY <1>1 DEF ToLinux, Own
<1>3. sig \in 1 .. 31
  BY SignalsAssumption
<1>4. \A s \in Signals : Own(s) => (ToLinux(s) = ToLinux(sig) <=> s = sig)
  BY <1>3 DEF Own
<1>5. Reached(kmask)' /\ Reached(kpend)'
  BY <1>1, <1>2 DEF Reached, SignalsInv
<1> QED
  BY <1>1, <1>2, <1>4, <1>5 DEF SignalsInv, SignalsKeepTheirNumber

(* sigpending tells the program what it has sent itself.                   *)
LEMMA PendingStep ==
    ASSUME SignalsInv, XnxSigpending
    PROVE  SignalsInv'
<1>1. /\ told'.set = ProgramSet(kpend) /\ told'.was = sent
      /\ UNCHANGED <<sigpers, kmask, kpend, asked, sent>>
  BY DEF XnxSigpending
<1>2. \A s : ToLinux(s)' = ToLinux(s) /\ Own(s)' = Own(s)
  BY <1>1 DEF ToLinux, Own
<1>3. \A s \in Signals : Own(s) => (s \in ProgramSet(kpend) <=> s \in sent)
  BY ToldBack DEF SignalsInv
<1>4. SignalsKeepTheirNumber'
  BY <1>1, <1>2, <1>3 DEF SignalsKeepTheirNumber
<1> QED
  BY <1>1, <1>2, <1>4 DEF SignalsInv, Reached

(* In every personality and for whichever of the 31 signals the program    *)
(* uses, however often it blocks, unblocks and sends them: a signal that   *)
(* shares its Linux signal with no other is reported blocked, or pending,  *)
(* exactly when the program has blocked, or sent, it (abi_sigprocmask,     *)
(* xnx_sigpending and the signal maps).                                    *)
THEOREM NumbersKept == SigMaskSpec => []SignalsKeepTheirNumber
<1>1. SigMaskInit => SignalsInv
  BY DEF SigMaskInit, SignalsInv, Reached, SignalsKeepTheirNumber, Nothing
<1>2. SignalsInv /\ [SigMaskNext]_sigmaskVars => SignalsInv'
  <2>. SUFFICES ASSUME SignalsInv, [SigMaskNext]_sigmaskVars PROVE SignalsInv'
    OBVIOUS
  <2>1. ASSUME NEW sig \in Signals, Sigaction(sig) \/ Wait(sig) PROVE SignalsInv'
    BY <2>1, SignalsStay DEF Sigaction, Wait, Nothing
  <2>2. ASSUME NEW sig \in Signals, NEW stopped \in BOOLEAN, SvrWaitid(sig, stopped)
        PROVE  SignalsInv'
    BY <2>2, SignalsStay DEF SvrWaitid
  <2>3. ASSUME NEW l \in LinuxSig, Arrive(l) PROVE SignalsInv'
    BY <2>3, SignalsStay DEF Arrive
  <2>4. CASE UNCHANGED sigmaskVars
    BY <2>4, SignalsStay DEF sigmaskVars
  <2> QED
    BY <2>1, <2>2, <2>3, <2>4, MaskStep, KillStep, PendingStep DEF SigMaskNext
<1>3. SignalsInv => SignalsKeepTheirNumber
  BY DEF SignalsInv
<1> QED
  BY <1>1, <1>2, <1>3, PTL DEF SigMaskSpec


(***************************************************************************)
(* Terminals.                                                              *)
(***************************************************************************)

(* Settings of a terminal.                                                 *)
IsTty(t) ==
    /\ DOMAIN t = {"i", "o", "c", "l", "cc", "excl"}
    /\ t.l \subseteq 0 .. 16 /\ t.c \subseteq Int /\ t.c \cap 13 .. 15 = {}

(* What TerminalRestored says of the settings t after those of o were      *)
(* saved in the structure f.                                               *)
Restored(f, o, t) ==
    /\ \A k \in Slots \ LostChars(f, o) : t.cc[k] = o.cc[k]
    /\ t.l \cap KeptLocal(f, o) = o.l \cap KeptLocal(f, o)
    /\ CBAUDEX \notin o.c => t.c \cap 0 .. 11 = o.c \cap 0 .. 11
    /\ f \notin {"uw7", "bsd"} => (CRTSCTS \in t.c <=> CRTSCTS \in o.c)

(* The characters and bits that writing a structure leaves alone, and that *)
(* restoring therefore cannot bring back.                                  *)
Agree(o, t, chars, local, ctl) ==
    /\ IsTty(t) /\ \A k \in chars : t.cc[k] = o.cc[k]
    /\ \A b \in local : b \in t.l <=> b \in o.l
    /\ \A b \in ctl : b \in t.c <=> b \in o.c

(* The structure with line editing off.                                    *)
RawCopy(f, s) ==
    CASE f = "bsd" -> [s EXCEPT !.l = @ \ {8}, !.cc[16] = 1, !.cc[17] = 0]
      [] f = "sgtty" -> [s EXCEPT !.flags = @ \cup {1}]
      [] OTHER -> [s EXCEPT !.l = @ \ {ICANON}, !.cc[4] = 1, !.cc[5] = 0]

(* Shifted bits.                                                           *)
LEMMA Shifted ==
    ASSUME NEW S \in SUBSET Int, NEW k \in Int, NEW b \in Int
    PROVE  (b \in Shl(S, k) <=> b - k \in S) /\ (b \in Shr(S, k) <=> b + k \in S)
<1>1. b - k \in S => b \in Shl(S, k)
  BY DEF Shl
<1>2. b \in Shl(S, k) => b - k \in S
  BY DEF Shl
<1>3. b + k \in S => b \in Shr(S, k)
  BY DEF Shr
<1>4. b \in Shr(S, k) => b + k \in S
  BY DEF Shr
<1> QED
  BY <1>1, <1>2, <1>3, <1>4

(* They are numbers.                                                       *)
LEMMA ShiftedBits ==
    ASSUME NEW S \in SUBSET Int, NEW k \in Int
    PROVE  Shl(S, k) \subseteq Int /\ Shr(S, k) \subseteq Int
<1>1. \A b \in S : b + k \in Int /\ b - k \in Int
  OBVIOUS
<1> QED
  BY <1>1 DEF Shl, Shr

(* A struct termio.                                                        *)
TermioNear(o, t) == Agree(o, t, {VEOF} \cup 8 .. 16, {16}, {CRTSCTS})

(* What a struct termio that is written does.                              *)
LEMMA TermioWritten ==
    ASSUME NEW t, NEW s, IsTty(t), s.l \subseteq 0 .. 15, s.c \subseteq 0 .. 15,
           DOMAIN s.cc = 0 .. 7,
           NEW w, w = SvrToLinuxTermio(t, s)
    PROVE  /\ IsTty(w)
           /\ \A b \in 0 .. 15 : b \in w.l <=> b \in s.l
           /\ 16 \in w.l <=> 16 \in t.l
           /\ \A b \in 0 .. 11 : b \in w.c <=> b \in s.c
           /\ CRTSCTS \in w.c <=> CRTSCTS \in t.c
           /\ \A k \in 8 .. 16 : w.cc[k] = t.cc[k]
           /\ \A k \in {0, 1, 2, 3, 5, 7} : w.cc[k] = s.cc[k]
           /\ w.cc[VEOF] = IF ICANON \in s.l THEN s.cc[VEOF] ELSE t.cc[VEOF]
           /\ w.cc[VMIN] = IF ICANON \in s.l THEN s.cc[VMIN] ELSE s.cc[VEOF]
<1>1. PICK cc : cc = IF ICANON \in s.l THEN s.cc
                     ELSE [s.cc EXCEPT ![VMIN] = s.cc[VEOF], ![VEOF] = t.cc[VEOF]]
  OBVIOUS
<1>2. /\ DOMAIN w = {"i", "o", "c", "l", "cc", "excl"}
      /\ w.l = (t.l \cap 16 .. 31) \cup s.l
      /\ w.c = (t.c \cap 16 .. 31) \cup (s.c \ 12 .. 15)
      /\ w.cc = [k \in Slots |-> IF k < 8 THEN cc[k] ELSE t.cc[k]]
  BY <1>1 DEF SvrToLinuxTermio, IsTty
<1>3. IsTty(w)
  BY <1>2 DEF IsTty
<1>4. /\ \A b \in 0 .. 15 : b \in w.l <=> b \in s.l
      /\ 16 \in w.l <=> 16 \in t.l
  BY <1>2
<1>5. /\ \A b \in 0 .. 11 : b \in w.c <=> b \in s.c
      /\ CRTSCTS \in w.c <=> CRTSCTS \in t.c
  BY <1>2 DEF CRTSCTS
<1>6. /\ \A k \in 0 .. 7 : w.cc[k] = cc[k]
      /\ \A k \in 8 .. 16 : w.cc[k] = t.cc[k]
  BY <1>2 DEF Slots
<1>7. /\ \A k \in {0, 1, 2, 3, 5, 7} : cc[k] = s.cc[k]
      /\ cc[VEOF] = IF ICANON \in s.l THEN s.cc[VEOF] ELSE t.cc[VEOF]
      /\ cc[VMIN] = IF ICANON \in s.l THEN s.cc[VMIN] ELSE s.cc[VEOF]
  BY <1>1 DEF VMIN, VEOF
<1> QED
  BY <1>3, <1>4, <1>5, <1>6, <1>7 DEF VMIN, VEOF

(* Saving, going raw and restoring with a struct termio.                   *)
LEMMA TermioRound ==
    ASSUME NEW o, NEW t, IsTty(o), TermioNear(o, t)
    PROVE  LET s == LinuxToSvrTermio(o) IN
           /\ TermioNear(o, SvrToLinuxTermio(t, s))
           /\ Restored("termio", o, SvrToLinuxTermio(t, s))
           /\ TermioNear(o, SvrToLinuxTermio(t, RawCopy("termio", s)))
<1>1. PICK s : s = LinuxToSvrTermio(o)
  OBVIOUS
<1>2. /\ s.l = o.l \cap 0 .. 15 /\ s.c = o.c \cap 0 .. 15 /\ DOMAIN s.cc = 0 .. 7
      /\ DOMAIN s = {"i", "o", "c", "l", "cc"}
      /\ \A k \in 0 .. 7 : s.cc[k] = IF k = VEOF /\ ICANON \notin o.l
                                     THEN o.cc[VMIN] ELSE o.cc[k]
  <2>1. /\ Termio(o).l = o.l \cap 0 .. 15 /\ Termio(o).c = o.c \cap 0 .. 15
        /\ Termio(o).cc = [k \in 0 .. 7 |-> o.cc[k]]
        /\ DOMAIN Termio(o) = {"i", "o", "c", "l", "cc"}
    BY DEF Termio
  <2>2. CASE ICANON \in o.l
    BY <1>1, <2>1, <2>2 DEF LinuxToSvrTermio
  <2>3. CASE ICANON \notin o.l
    BY <1>1, <2>1, <2>3 DEF LinuxToSvrTermio, VEOF, VMIN
  <2> QED
    BY <2>2, <2>3
<1>3. PICK r : r = RawCopy("termio", s)
  OBVIOUS
<1>4. /\ r.l = s.l \ {ICANON} /\ r.c = s.c /\ DOMAIN r.cc = 0 .. 7
  BY <1>2, <1>3 DEF RawCopy
<1>5. PICK w : w = SvrToLinuxTermio(t, s)
  OBVIOUS
<1>6. PICK v : v = SvrToLinuxTermio(t, r)
  OBVIOUS
<1>7. IsTty(t) /\ s.l \subseteq 0 .. 15 /\ s.c \subseteq 0 .. 15
      /\ r.l \subseteq 0 .. 15 /\ r.c \subseteq 0 .. 15 /\ ICANON \notin r.l
  BY <1>2, <1>4 DEF TermioNear, Agree
<1>8. TermioNear(o, v)
  BY <1>4, <1>6, <1>7, TermioWritten DEF TermioNear, Agree
<1>9. IsTty(w) /\ (16 \in w.l <=> 16 \in o.l) /\ (CRTSCTS \in w.c <=> CRTSCTS \in o.c)
  BY <1>2, <1>5, <1>7, TermioWritten DEF TermioNear, Agree
<1>10. \A k \in Slots : w.cc[k] = o.cc[k]
  <2>1. \A k \in 8 .. 16 : w.cc[k] = o.cc[k]
    BY <1>2, <1>5, <1>7, TermioWritten DEF TermioNear, Agree
  <2>2. \A k \in {0, 1, 2, 3, 5, 7} : w.cc[k] = o.cc[k]
    BY <1>2, <1>5, <1>7, TermioWritten DEF VEOF
  <2>3. ICANON \in s.l <=> ICANON \in o.l
    BY <1>2 DEF ICANON
  <2>4. w.cc[VEOF] = o.cc[VEOF] /\ w.cc[VMIN] = o.cc[VMIN]
    <3>1. s.cc[VEOF] = (IF ICANON \notin o.l THEN o.cc[VMIN] ELSE o.cc[VEOF])
          /\ s.cc[VMIN] = o.cc[VMIN] /\ t.cc[VEOF] = o.cc[VEOF]
      BY <1>2 DEF VEOF, VMIN, TermioNear, Agree
    <3>2. /\ w.cc[VEOF] = IF ICANON \in s.l THEN s.cc[VEOF] ELSE t.cc[VEOF]
          /\ w.cc[VMIN] = IF ICANON \in s.l THEN s.cc[VMIN] ELSE s.cc[VEOF]
      BY <1>2, <1>5, <1>7, TermioWritten
    <3> QED
      BY <2>3, <3>1, <3>2
  <2> QED
    BY <2>1, <2>2, <2>4 DEF Slots, VEOF, VMIN
<1>11. \A b \in 0 .. 16 : b \in w.l <=> b \in o.l
  <2>1. \A b \in 0 .. 15 : b \in w.l <=> b \in s.l
    BY <1>2, <1>5, <1>7, TermioWritten
  <2> QED
    BY <1>2, <1>9, <2>1
<1>12. \A b \in 0 .. 11 : b \in w.c <=> b \in o.c
  <2>1. \A b \in 0 .. 11 : b \in w.c <=> b \in s.c
    BY <1>2, <1>5, <1>7, TermioWritten
  <2> QED
    BY <1>2, <2>1
<1>13. LostChars("termio", o) = {} /\ KeptLocal("termio", o) = 0 .. 16
  BY DEF LostChars, KeptLocal
<1>14. Restored("termio", o, w)
  BY <1>9, <1>10, <1>11, <1>12, <1>13 DEF Restored
<1>15. TermioNear(o, w)
  BY <1>9, <1>10 DEF TermioNear, Agree, Slots, VEOF
<1> QED
  BY <1>1, <1>3, <1>5, <1>6, <1>8, <1>14, <1>15

(* The flag words of SVR4 and SCO: bits that writing leaves alone.         *)
SvrLeft == 9 .. 14 \cup {16}

(* The flags told.                                                         *)
LEMMA SvrTold ==
    ASSUME NEW o, IsTty(o), NEW cc, NEW s, s = SvrFlags(o, cc)
    PROVE  /\ DOMAIN s = {"i", "o", "c", "l", "cc"} /\ s.cc = cc
           /\ s.l \subseteq 0 .. 9 /\ s.c \subseteq 0 .. 15
           /\ \A b \in 0 .. 7 : b \in s.l <=> b \in o.l
           /\ (8 \in s.l <=> 15 \in o.l) /\ (9 \in s.l <=> 8 \in o.l)
           /\ \A b \in 0 .. 11 : b \in s.c <=> b \in o.c
           /\ 15 \in s.c <=> CRTSCTS \in o.c
<1>1. PICK l : l = o.l \ {ECHOCTL}
  OBVIOUS
<1>2. PICK moved : moved = (l \ {8, 15}) \cup Shl(l \cap {8}, 1) \cup Shr(l \cap {15}, 7)
  OBVIOUS
<1>3. /\ DOMAIN s = {"i", "o", "c", "l", "cc"} /\ s.cc = cc /\ s.l = moved \cap 0 .. 9
      /\ s.c = (o.c \cap 0 .. 15) \cup (IF CRTSCTS \in o.c THEN {15} ELSE {})
  BY <1>1, <1>2 DEF SvrFlags
<1>4. l \cap {8} \in SUBSET Int /\ l \cap {15} \in SUBSET Int
  OBVIOUS
<1>5. \A b \in Int : b \in moved <=> \/ b \in l /\ b \notin {8, 15}
                                     \/ (b = 9 /\ 8 \in l) \/ (b = 8 /\ 15 \in l)
  <2> SUFFICES ASSUME NEW b \in Int
               PROVE  b \in moved <=> \/ b \in l /\ b \notin {8, 15}
                                      \/ (b = 9 /\ 8 \in l) \/ (b = 8 /\ 15 \in l)
    OBVIOUS
  <2>1. b \in Shl(l \cap {8}, 1) <=> b - 1 \in l \cap {8}
    BY <1>4, Shifted
  <2>2. b \in Shr(l \cap {15}, 7) <=> b + 7 \in l \cap {15}
    BY <1>4, Shifted
  <2> QED
    BY <1>2, <2>1, <2>2
<1>6. /\ \A b \in 0 .. 7 : b \in s.l <=> b \in o.l
      /\ (8 \in s.l <=> 15 \in o.l) /\ (9 \in s.l <=> 8 \in o.l)
  BY <1>1, <1>3, <1>5 DEF ECHOCTL
<1>7. /\ \A b \in 0 .. 11 : b \in s.c <=> b \in o.c
      /\ 15 \in s.c <=> CRTSCTS \in o.c
      /\ s.c \subseteq 0 .. 15
  BY <1>3 DEF IsTty
<1> QED
  BY <1>3, <1>6, <1>7

(* The flags set.                                                          *)
LEMMA SvrSet ==
    ASSUME NEW t, IsTty(t), NEW s, s.l \subseteq 0 .. 9, s.c \subseteq 0 .. 15,
           NEW cc, NEW w, w = LinuxFlags(t, s, cc)
    PROVE  /\ IsTty(w) /\ w.cc = cc
           /\ \A b \in 0 .. 7 : b \in w.l <=> b \in s.l
           /\ 8 \in w.l <=> 9 \in s.l \/ 9 \in t.l
           /\ \A b \in SvrLeft : b \in w.l <=> b \in t.l
           /\ 15 \in w.l <=> 8 \in s.l
           /\ \A b \in 0 .. 11 : b \in w.c <=> b \in s.c
           /\ CRTSCTS \in w.c <=> 15 \in s.c
<1>1. PICK l : l = (t.l \ (0 .. 8 \cup {15})) \cup (s.l \cap 0 .. 15)
  OBVIOUS
<1>2. PICK noexcl : noexcl = l \ {15}
  OBVIOUS
<1>3. PICK iexten : iexten = (noexcl \ {8}) \cup Shl(noexcl \cap {8}, 7)
  OBVIOUS
<1>4. PICK tostop : tostop = (iexten \ {9}) \cup Shr(iexten \cap {9}, 1)
  OBVIOUS
<1>5. /\ DOMAIN w = {"i", "o", "c", "l", "cc", "excl"}
      /\ w.l = tostop \cup (t.l \cap {ECHOCTL}) /\ w.cc = cc
      /\ w.c = (s.c \cup (IF 15 \in s.c THEN {CRTSCTS} ELSE {})) \ 12 .. 15
  BY <1>1, <1>2, <1>3, <1>4 DEF LinuxFlags, IsTty
<1>6. \A b \in Int : b \in iexten <=> (b \in noexcl /\ b # 8) \/ (b = 15 /\ 8 \in noexcl)
  <2> SUFFICES ASSUME NEW b \in Int
               PROVE  b \in iexten <=> (b \in noexcl /\ b # 8) \/ (b = 15 /\ 8 \in noexcl)
    OBVIOUS
  <2>1. b \in Shl(noexcl \cap {8}, 7) <=> b - 7 \in noexcl \cap {8}
    BY Shifted
  <2> QED
    BY <1>3, <2>1
<1>7. \A b \in Int : b \in tostop <=> (b \in iexten /\ b # 9) \/ (b = 8 /\ 9 \in iexten)
  <2> SUFFICES ASSUME NEW b \in Int
               PROVE  b \in tostop <=> (b \in iexten /\ b # 9) \/ (b = 8 /\ 9 \in iexten)
    OBVIOUS
  <2>1. b \in Shr(iexten \cap {9}, 1) <=> b + 1 \in iexten \cap {9}
    BY Shifted
  <2> QED
    BY <1>4, <2>1
<1>8. \A b \in Int : b \in noexcl <=> b # 15 /\ (b \in s.l \/ (b \in t.l /\ b \notin 0 .. 8))
  BY <1>1, <1>2
<1>9. \A b \in Int : b \in w.l <=> b \in tostop \/ (b = 9 /\ 9 \in t.l)
  BY <1>5 DEF ECHOCTL
<1>10. /\ \A b \in 0 .. 7 : b \in w.l <=> b \in s.l
       /\ 8 \in w.l <=> 9 \in s.l \/ 9 \in t.l
       /\ 15 \in w.l <=> 8 \in s.l
  BY <1>6, <1>7, <1>8, <1>9
<1>11. \A b \in SvrLeft : b \in w.l <=> b \in t.l
  BY <1>6, <1>7, <1>8, <1>9 DEF SvrLeft
<1>12. w.l \subseteq 0 .. 16
  <2>1. noexcl \subseteq 0 .. 16
    BY <1>1, <1>2 DEF IsTty
  <2>2. iexten \subseteq 0 .. 16
    <3>1. noexcl \cap {8} \in SUBSET Int
      OBVIOUS
    <3>2. Shl(noexcl \cap {8}, 7) \subseteq Int
      BY <3>1, ShiftedBits
    <3>3. iexten \subseteq Int
      <4>1. noexcl \subseteq Int
        BY <2>1
      <4> QED
        BY <1>3, <3>2, <4>1
    <3> QED
      BY <1>6, <2>1, <3>3
  <2>3. tostop \subseteq 0 .. 16
    <3>1. iexten \cap {9} \in SUBSET Int
      OBVIOUS
    <3>2. Shr(iexten \cap {9}, 1) \subseteq Int
      BY <3>1, ShiftedBits
    <3>3. tostop \subseteq Int
      <4>1. iexten \subseteq Int
        BY <2>2
      <4> QED
        BY <1>4, <3>2, <4>1
    <3> QED
      BY <1>7, <2>2, <3>3
  <2>4. t.l \cap {ECHOCTL} \subseteq 0 .. 16
    BY DEF ECHOCTL
  <2> QED
    BY <1>5, <2>3, <2>4
<1>13. /\ \A b \in 0 .. 11 : b \in w.c <=> b \in s.c
       /\ CRTSCTS \in w.c <=> 15 \in s.c
       /\ w.c \subseteq Int /\ w.c \cap 13 .. 15 = {}
  BY <1>5 DEF CRTSCTS
<1> QED
  BY <1>5, <1>10, <1>11, <1>12, <1>13 DEF IsTty

(* The flags set are those told, but for TOSTOP, which ECHOCTL turns on.   *)
LEMMA SvrRound ==
    ASSUME NEW o, IsTty(o), NEW t, IsTty(t), \A b \in SvrLeft : b \in t.l <=> b \in o.l,
           NEW cc, NEW s, s = SvrFlags(o, cc), NEW dd, NEW w, w = LinuxFlags(t, s, dd),
           NEW f \in {"svr4", "sco"}
    PROVE  /\ w.l \cap KeptLocal(f, o) = o.l \cap KeptLocal(f, o)
           /\ w.c \cap 0 .. 11 = o.c \cap 0 .. 11
           /\ CRTSCTS \in w.c <=> CRTSCTS \in o.c
<1>1. /\ s.l \subseteq 0 .. 9 /\ s.c \subseteq 0 .. 15
      /\ \A b \in 0 .. 7 : b \in s.l <=> b \in o.l
      /\ (8 \in s.l <=> 15 \in o.l) /\ (9 \in s.l <=> 8 \in o.l)
      /\ \A b \in 0 .. 11 : b \in s.c <=> b \in o.c
      /\ 15 \in s.c <=> CRTSCTS \in o.c
  BY SvrTold
<1>2. /\ \A b \in 0 .. 7 : b \in w.l <=> b \in s.l
      /\ 8 \in w.l <=> 9 \in s.l \/ 9 \in t.l
      /\ \A b \in SvrLeft : b \in w.l <=> b \in t.l
      /\ 15 \in w.l <=> 8 \in s.l
      /\ \A b \in 0 .. 11 : b \in w.c <=> b \in s.c
      /\ CRTSCTS \in w.c <=> 15 \in s.c
  BY <1>1, SvrSet
<1>3. \A b \in 0 .. 7 \cup SvrLeft \cup {15} : b \in w.l <=> b \in o.l
  BY <1>1, <1>2
<1>4. 9 \notin o.l => (8 \in w.l <=> 8 \in o.l)
  BY <1>1, <1>2 DEF SvrLeft
<1>5. KeptLocal(f, o) = IF 9 \in o.l THEN 0 .. 16 \ {8} ELSE 0 .. 16
  BY DEF KeptLocal, ECHOCTL, TOSTOP
<1>6. w.l \cap KeptLocal(f, o) = o.l \cap KeptLocal(f, o)
  <2>1. \A b \in 0 .. 16 : b \in 0 .. 7 \cup SvrLeft \cup {15} \/ b = 8
    BY DEF SvrLeft
  <2>2. CASE 9 \in o.l
    BY <1>3, <1>5, <2>1, <2>2
  <2>3. CASE 9 \notin o.l
    BY <1>3, <1>4, <1>5, <2>1, <2>3
  <2> QED
    BY <2>2, <2>3
<1> QED
  BY <1>1, <1>2, <1>6

(* SVR4's struct termios.                                                  *)
Svr4Near(o, t) == Agree(o, t, {VEOF}, SvrLeft, {})

(* The characters that are in the same slot in SVR4's structure.           *)
Svr4Same == 0 .. 3 \cup 7 .. 10 \cup 12 .. 15

(* Saving, going raw and restoring with it.                                *)
LEMMA Svr4Round ==
    ASSUME NEW o, NEW t, IsTty(o), Svr4Near(o, t), NEW junk
    PROVE  LET s == LinuxToSvr4Termios(o, junk) IN
           /\ Svr4Near(o, Svr4ToLinuxTermios(t, s))
           /\ Restored("svr4", o, Svr4ToLinuxTermios(t, s))
           /\ Svr4Near(o, Svr4ToLinuxTermios(t, RawCopy("svr4", s)))
<1>0. IsTty(t) /\ t.cc[VEOF] = o.cc[VEOF] /\ \A b \in SvrLeft : b \in t.l <=> b \in o.l
  BY DEF Svr4Near, Agree
<1>1. PICK shown :
        shown = [k \in 0 .. 18 |->
                 CASE k = 4 -> IF ICANON \in o.l THEN o.cc[VEOF] ELSE o.cc[VMIN]
                   [] k = 5 -> IF ICANON \in o.l THEN o.cc[VEOL] ELSE o.cc[VTIME]
                   [] k = 6 -> o.cc[VEOL2]
                   [] k = 11 -> o.cc[VSUSP]
                   [] k > 15 -> junk
                   [] OTHER -> o.cc[k]]
  OBVIOUS
<1>2. PICK s : s = SvrFlags(o, shown)
  OBVIOUS
<1>3. s = LinuxToSvr4Termios(o, junk)
  BY <1>1, <1>2 DEF LinuxToSvr4Termios
<1>4. /\ DOMAIN s = {"i", "o", "c", "l", "cc"} /\ s.cc = shown
      /\ s.l \subseteq 0 .. 9 /\ s.c \subseteq 0 .. 15 /\ (1 \in s.l <=> 1 \in o.l)
  BY <1>2, SvrTold
<1>5. DOMAIN shown = 0 .. 18
  BY <1>1
<1>6. /\ \A k \in Svr4Same : shown[k] = o.cc[k]
      /\ shown[4] = IF ICANON \in o.l THEN o.cc[VEOF] ELSE o.cc[VMIN]
      /\ shown[5] = IF ICANON \in o.l THEN o.cc[VEOL] ELSE o.cc[VTIME]
  BY <1>1 DEF Svr4Same
<1>7. ASSUME NEW z, NEW w, w = Svr4ToLinuxTermios(t, z),
             z.l \subseteq 0 .. 9, z.c \subseteq 0 .. 15
      PROVE  /\ IsTty(w) /\ \A b \in SvrLeft : b \in w.l <=> b \in o.l
             /\ \A k \in Svr4Same : w.cc[k] = z.cc[k]
             /\ w.cc[VEOF] = IF ICANON \in z.l THEN z.cc[4] ELSE o.cc[VEOF]
             /\ ICANON \in z.l => w.cc[VEOL] = z.cc[5]
             /\ ICANON \notin z.l => w.cc[VTIME] = z.cc[5] /\ w.cc[VMIN] = z.cc[4]
             /\ \E cc : w = LinuxFlags(t, z, cc)
  <2>1. PICK same : same = 0 .. 3 \cup 7 .. 10 \cup 12 .. 16
    OBVIOUS
  <2>2. PICK canon \in BOOLEAN : canon <=> ICANON \in z.l
    OBVIOUS
  <2>3. PICK cc :
          cc = [k \in Slots |->
                 CASE k \in same -> z.cc[k]
                   [] k = VEOF /\ canon -> z.cc[4]
                   [] k = VEOL -> IF canon THEN z.cc[5] ELSE z.cc[6]
                   [] k = VTIME /\ ~canon -> z.cc[5]
                   [] k = VMIN /\ ~canon -> z.cc[4]
                   [] OTHER -> t.cc[k]]
    OBVIOUS
  <2>4. w = LinuxFlags(t, z, cc)
    BY <1>7, <2>1, <2>2, <2>3 DEF Svr4ToLinuxTermios
  <2>5. IsTty(w) /\ w.cc = cc /\ \A b \in SvrLeft : b \in w.l <=> b \in o.l
    BY <1>0, <1>7, <2>4, SvrSet
  <2>6. \A k \in Svr4Same : cc[k] = z.cc[k]
    BY <2>1, <2>3 DEF Svr4Same, Slots, VEOF, VEOL, VTIME, VMIN
  <2>7. cc[VEOF] = IF canon THEN z.cc[4] ELSE t.cc[VEOF]
    BY <2>1, <2>3 DEF Slots, VEOF, VEOL, VTIME, VMIN
  <2>8. canon => cc[VEOL] = z.cc[5]
    BY <2>1, <2>3 DEF Slots, VEOF, VEOL, VTIME, VMIN
  <2>9. ~canon => cc[VTIME] = z.cc[5] /\ cc[VMIN] = z.cc[4]
    BY <2>1, <2>3 DEF Slots, VEOF, VEOL, VTIME, VMIN
  <2> QED
    BY <1>0, <2>2, <2>4, <2>5, <2>6, <2>7, <2>8, <2>9
<1>8. PICK w : w = Svr4ToLinuxTermios(t, s)
  OBVIOUS
<1>9. /\ IsTty(w) /\ \A b \in SvrLeft : b \in w.l <=> b \in o.l
      /\ \A k \in Svr4Same : w.cc[k] = shown[k]
      /\ w.cc[VEOF] = IF ICANON \in o.l THEN shown[4] ELSE o.cc[VEOF]
      /\ ICANON \in o.l => w.cc[VEOL] = shown[5]
      /\ ICANON \notin o.l => w.cc[VTIME] = shown[5] /\ w.cc[VMIN] = shown[4]
      /\ \E cc : w = LinuxFlags(t, s, cc)
  <2>1. ICANON \in s.l <=> ICANON \in o.l
    BY <1>4 DEF ICANON
  <2> QED
    BY <1>4, <1>7, <1>8, <2>1
<1>10. \A k \in Svr4Same \cup {VEOF} : w.cc[k] = o.cc[k]
  BY <1>6, <1>9
<1>11. ICANON \in o.l => w.cc[VEOL] = o.cc[VEOL]
  BY <1>6, <1>9
<1>12. ICANON \notin o.l => w.cc[VTIME] = o.cc[VTIME] /\ w.cc[VMIN] = o.cc[VMIN]
  BY <1>6, <1>9
<1>13. \A k \in Slots \ LostChars("svr4", o) : w.cc[k] = o.cc[k]
  <2>1. CASE ICANON \in o.l
    <3>1. LostChars("svr4", o) = {VMIN, VTIME, VEOL2}
      BY <2>1 DEF LostChars
    <3> QED
      BY <1>10, <1>11, <2>1, <3>1 DEF Slots, Svr4Same, VMIN, VTIME, VEOL2, VEOL, VEOF
  <2>2. CASE ICANON \notin o.l
    <3>1. LostChars("svr4", o) = {VEOL, VEOL2}
      BY <2>2 DEF LostChars
    <3> QED
      BY <1>10, <1>12, <2>2, <3>1 DEF Slots, Svr4Same, VMIN, VTIME, VEOL2, VEOL, VEOF
  <2> QED
    BY <2>1, <2>2
<1>14. /\ w.l \cap KeptLocal("svr4", o) = o.l \cap KeptLocal("svr4", o)
       /\ w.c \cap 0 .. 11 = o.c \cap 0 .. 11
       /\ CRTSCTS \in w.c <=> CRTSCTS \in o.c
  BY <1>0, <1>2, <1>9, SvrRound
<1>15. Restored("svr4", o, w)
  BY <1>13, <1>14 DEF Restored
<1>16. Svr4Near(o, w)
  BY <1>9, <1>10 DEF Svr4Near, Agree
<1>17. Svr4Near(o, Svr4ToLinuxTermios(t, RawCopy("svr4", s)))
  <2>1. PICK r : r = RawCopy("svr4", s)
    OBVIOUS
  <2>2. r.l = s.l \ {ICANON} /\ r.c = s.c
    BY <1>4, <2>1 DEF RawCopy
  <2>3. r.l \subseteq 0 .. 9 /\ r.c \subseteq 0 .. 15 /\ ICANON \notin r.l
    BY <1>4, <2>2
  <2>4. PICK v : v = Svr4ToLinuxTermios(t, r)
    OBVIOUS
  <2>5. IsTty(v) /\ (\A b \in SvrLeft : b \in v.l <=> b \in o.l) /\ v.cc[VEOF] = o.cc[VEOF]
    BY <1>7, <2>3, <2>4
  <2> QED
    BY <2>1, <2>4, <2>5 DEF Svr4Near, Agree
<1> QED
  BY <1>3, <1>8, <1>15, <1>16, <1>17

(* SCO's struct termios.                                                   *)
ScoNear(o, t) == Agree(o, t, 12 .. 15, SvrLeft, {})

(* Saving, going raw and restoring with it.                                *)
LEMMA ScoRound ==
    ASSUME NEW o, NEW t, IsTty(o), ScoNear(o, t)
    PROVE  LET s == LinuxToScoTermios(o) IN
           /\ ScoNear(o, ScoToLinuxTermios(t, s))
           /\ Restored("sco", o, ScoToLinuxTermios(t, s))
           /\ ScoNear(o, ScoToLinuxTermios(t, RawCopy("sco", s)))
<1>0. /\ IsTty(t) /\ \A k \in 12 .. 15 : t.cc[k] = o.cc[k]
      /\ \A b \in SvrLeft : b \in t.l <=> b \in o.l
  BY DEF ScoNear, Agree
<1>1. PICK at :
        at = [k \in 0 .. 12 |->
                 CASE k = 4 -> IF ICANON \in o.l THEN VEOF ELSE VMIN
                   [] k = 5 -> IF ICANON \in o.l THEN VEOL ELSE VTIME
                   [] k = 6 -> VEOL2 [] k = 8 -> VEOF [] k = 9 -> VEOL
                   [] k = 11 -> VSTART [] k = 12 -> VSTOP [] OTHER -> k]
  OBVIOUS
<1>2. PICK shown : shown = [k \in 0 .. 12 |-> o.cc[at[k]]]
  OBVIOUS
<1>3. PICK s : s = SvrFlags(o, shown)
  OBVIOUS
<1>4. s = LinuxToScoTermios(o)
  BY <1>1, <1>2, <1>3 DEF LinuxToScoTermios
<1>5. /\ DOMAIN s = {"i", "o", "c", "l", "cc"} /\ s.cc = shown
      /\ s.l \subseteq 0 .. 9 /\ s.c \subseteq 0 .. 15 /\ (1 \in s.l <=> 1 \in o.l)
  BY <1>3, SvrTold
<1>6. DOMAIN shown = 0 .. 12
  BY <1>2
<1>7. /\ \A k \in {0, 1, 2, 3, 7, 10} : at[k] = k
      /\ at[6] = VEOL2 /\ at[8] = VEOF /\ at[9] = VEOL /\ at[11] = VSTART /\ at[12] = VSTOP
      /\ at[4] = IF ICANON \in o.l THEN VEOF ELSE VMIN
      /\ at[5] = IF ICANON \in o.l THEN VEOL ELSE VTIME
  BY <1>1
<1>8. \A k \in 0 .. 12 : shown[k] = o.cc[at[k]]
  BY <1>2
<1>9. ASSUME NEW z, NEW w, w = ScoToLinuxTermios(t, z),
             z.l \subseteq 0 .. 9, z.c \subseteq 0 .. 15
      PROVE  /\ IsTty(w) /\ \A b \in SvrLeft : b \in w.l <=> b \in o.l
             /\ \A k \in {0, 1, 2, 3, 7, 10} : w.cc[k] = z.cc[k]
             /\ \A k \in 12 .. 15 : w.cc[k] = o.cc[k]
             /\ w.cc[VSTART] = z.cc[11] /\ w.cc[VSTOP] = z.cc[12] /\ w.cc[VEOL2] = z.cc[6]
             /\ w.cc[VEOF] = IF ICANON \in z.l THEN z.cc[4] ELSE z.cc[8]
             /\ w.cc[VEOL] = IF ICANON \in z.l THEN z.cc[5] ELSE z.cc[9]
             /\ ICANON \notin z.l => w.cc[VTIME] = z.cc[5] /\ w.cc[VMIN] = z.cc[4]
             /\ \E cc : w = LinuxFlags(t, z, cc)
  <2>1. PICK canon \in BOOLEAN : canon <=> ICANON \in z.l
    OBVIOUS
  <2>2. PICK cc :
          cc = [k \in Slots |->
                 CASE k \in 0 .. 3 \cup {VSWTC, VSUSP} -> z.cc[k]
                   [] k = VSTART -> z.cc[11] [] k = VSTOP -> z.cc[12]
                   [] k = VEOL2 -> z.cc[6]
                   [] k = VEOF -> IF canon THEN z.cc[4] ELSE z.cc[8]
                   [] k = VEOL -> IF canon THEN z.cc[5] ELSE z.cc[9]
                   [] k = VTIME /\ ~canon -> z.cc[5]
                   [] k = VMIN /\ ~canon -> z.cc[4]
                   [] OTHER -> t.cc[k]]
    OBVIOUS
  <2>3. w = LinuxFlags(t, z, cc)
    BY <1>9, <2>1, <2>2 DEF ScoToLinuxTermios
  <2>4. IsTty(w) /\ w.cc = cc /\ \A b \in SvrLeft : b \in w.l <=> b \in o.l
    BY <1>0, <1>9, <2>3, SvrSet
  <2> USE DEF Slots, VSWTC, VSUSP, VSTART, VSTOP, VEOL2, VEOF, VEOL, VTIME, VMIN
  <2>5. \A k \in {0, 1, 2, 3, 7, 10} : cc[k] = z.cc[k]
    BY <2>2
  <2>6. \A k \in 12 .. 15 : cc[k] = t.cc[k]
    BY <2>2
  <2>7. cc[VSTART] = z.cc[11] /\ cc[VSTOP] = z.cc[12] /\ cc[VEOL2] = z.cc[6]
    BY <2>2
  <2>8. /\ cc[VEOF] = IF canon THEN z.cc[4] ELSE z.cc[8]
        /\ cc[VEOL] = IF canon THEN z.cc[5] ELSE z.cc[9]
    BY <2>2
  <2>9. ~canon => cc[VTIME] = z.cc[5] /\ cc[VMIN] = z.cc[4]
    BY <2>2
  <2> QED
    BY <1>0, <2>1, <2>3, <2>4, <2>5, <2>6, <2>7, <2>8, <2>9
<1>10. PICK w : w = ScoToLinuxTermios(t, s)
  OBVIOUS
<1>11. /\ IsTty(w) /\ \A b \in SvrLeft : b \in w.l <=> b \in o.l
       /\ \A k \in {0, 1, 2, 3, 7, 10} : w.cc[k] = shown[k]
       /\ \A k \in 12 .. 15 : w.cc[k] = o.cc[k]
       /\ w.cc[VSTART] = shown[11] /\ w.cc[VSTOP] = shown[12] /\ w.cc[VEOL2] = shown[6]
       /\ w.cc[VEOF] = IF ICANON \in o.l THEN shown[4] ELSE shown[8]
       /\ w.cc[VEOL] = IF ICANON \in o.l THEN shown[5] ELSE shown[9]
       /\ ICANON \notin o.l => w.cc[VTIME] = shown[5] /\ w.cc[VMIN] = shown[4]
       /\ \E cc : w = LinuxFlags(t, s, cc)
  <2>1. ICANON \in s.l <=> ICANON \in o.l
    BY <1>5 DEF ICANON
  <2> QED
    BY <1>5, <1>9, <1>10, <2>1
<1>12. \A k \in {0, 1, 2, 3, 7, 10} \cup 12 .. 15 : w.cc[k] = o.cc[k]
  BY <1>7, <1>8, <1>11
<1>13. \A k \in {VSTART, VSTOP, VEOL2, VEOF, VEOL} : w.cc[k] = o.cc[k]
  BY <1>7, <1>8, <1>11
<1>14. ICANON \notin o.l => w.cc[VTIME] = o.cc[VTIME] /\ w.cc[VMIN] = o.cc[VMIN]
  BY <1>7, <1>8, <1>11
<1>15. \A k \in Slots \ LostChars("sco", o) : w.cc[k] = o.cc[k]
  <2>1. \A k \in Slots : k \in {VMIN, VTIME} \/ w.cc[k] = o.cc[k]
    BY <1>12, <1>13 DEF Slots, VMIN, VTIME, VEOL2, VEOL, VEOF, VSTART, VSTOP
  <2>2. ICANON \in o.l => LostChars("sco", o) = {VMIN, VTIME}
    BY DEF LostChars
  <2> QED
    BY <1>14, <2>1, <2>2
<1>16. /\ w.l \cap KeptLocal("sco", o) = o.l \cap KeptLocal("sco", o)
       /\ w.c \cap 0 .. 11 = o.c \cap 0 .. 11
       /\ CRTSCTS \in w.c <=> CRTSCTS \in o.c
  BY <1>0, <1>3, <1>11, SvrRound
<1>17. Restored("sco", o, w)
  BY <1>15, <1>16 DEF Restored
<1>18. ScoNear(o, w)
  BY <1>11, <1>12 DEF ScoNear, Agree
<1>19. ScoNear(o, ScoToLinuxTermios(t, RawCopy("sco", s)))
  <2>1. PICK r : r = RawCopy("sco", s)
    OBVIOUS
  <2>2. r.l = s.l \ {ICANON} /\ r.c = s.c
    BY <1>5, <2>1 DEF RawCopy
  <2>3. r.l \subseteq 0 .. 9 /\ r.c \subseteq 0 .. 15
    BY <1>5, <2>2
  <2>4. PICK v : v = ScoToLinuxTermios(t, r)
    OBVIOUS
  <2>5. /\ IsTty(v) /\ (\A b \in SvrLeft : b \in v.l <=> b \in o.l)
        /\ \A k \in 12 .. 15 : v.cc[k] = o.cc[k]
    BY <1>9, <2>3, <2>4
  <2> QED
    BY <2>1, <2>4, <2>5 DEF ScoNear, Agree
<1> QED
  BY <1>4, <1>10, <1>17, <1>18, <1>19

(* UnixWare's struct termios.                                              *)
Uw7Near(o, t) == Agree(o, t, {VEOF}, {}, {})

(* Saving, going raw and restoring with it.                                *)
LEMMA Uw7Round ==
    ASSUME NEW o, NEW t, IsTty(o), Uw7Near(o, t)
    PROVE  LET s == TiocTcgets(o) IN
           /\ Uw7Near(o, TiocTcsets(t, s)) /\ Restored("uw7", o, TiocTcsets(t, s))
           /\ Uw7Near(o, TiocTcsets(t, RawCopy("uw7", s)))
<1>0. IsTty(t) /\ t.cc[VEOF] = o.cc[VEOF]
  BY DEF Uw7Near, Agree
<1>1. PICK s : s = TiocTcgets(o)
  OBVIOUS
<1>2. PICK canon \in BOOLEAN : canon <=> ICANON \in o.l
  OBVIOUS
<1>3. /\ DOMAIN s = {"i", "o", "c", "l", "cc"} /\ s.c = o.c \cap 0 .. 15
      /\ s.l = (o.l \cap 0 .. 9) \cup (IF FLUSHO \in o.l THEN {13} ELSE {})
      /\ s.cc = [k \in 0 .. 15 |->
                   CASE k = 4 -> IF canon THEN o.cc[VEOF] ELSE o.cc[VMIN]
                     [] k = 5 -> IF canon THEN o.cc[VEOL] ELSE o.cc[VTIME]
                     [] OTHER -> o.cc[Uw7At[k]]]
  BY <1>1, <1>2 DEF TiocTcgets
<1>4. /\ \A k \in Svr4Same : Uw7At[k] = k
      /\ Uw7At[6] = VEOL2
  BY DEF Uw7At, Svr4Same
<1>5. /\ \A k \in Svr4Same : s.cc[k] = o.cc[k]
      /\ s.cc[4] = IF canon THEN o.cc[VEOF] ELSE o.cc[VMIN]
      /\ s.cc[5] = IF canon THEN o.cc[VEOL] ELSE o.cc[VTIME]
      /\ s.cc[6] = o.cc[VEOL2]
  <2>1. \A k \in Svr4Same : k \in 0 .. 15 /\ k # 4 /\ k # 5
    BY DEF Svr4Same
  <2>2. \A k \in Svr4Same : s.cc[k] = o.cc[Uw7At[k]]
    BY <1>3, <2>1
  <2>3. s.cc[6] = o.cc[Uw7At[6]]
    BY <1>3
  <2> QED
    BY <1>3, <1>4, <2>2, <2>3
<1>6. ASSUME NEW z, NEW w, w = TiocTcsets(t, z), z.l \subseteq 0 .. 13, z.c = s.c
      PROVE  /\ IsTty(w) /\ w.c = s.c
             /\ w.l = (z.l \ {12}) \cup (IF 13 \in z.l THEN {12} ELSE {})
             /\ \A k \in Svr4Same : w.cc[k] = z.cc[k]
             /\ w.cc[VEOL2] = z.cc[6]
             /\ w.cc[VEOF] = IF ICANON \in z.l THEN z.cc[4] ELSE o.cc[VEOF]
             /\ ICANON \in z.l => w.cc[VEOL] = z.cc[5]
             /\ ICANON \notin z.l => w.cc[VTIME] = z.cc[5] /\ w.cc[VMIN] = z.cc[4]
  <2>1. PICK c \in BOOLEAN : c <=> ICANON \in z.l
    OBVIOUS
  <2>2. PICK cc :
          cc = [k \in Slots |->
                 CASE k \in 0 .. 3 \cup 7 .. 10 \cup 12 .. 15 -> z.cc[k]
                   [] k = VEOL2 -> z.cc[6]
                   [] k = VEOF /\ c -> z.cc[4]
                   [] k = VEOL -> IF c THEN z.cc[5] ELSE z.cc[6]
                   [] k = VMIN /\ ~c -> z.cc[4]
                   [] k = VTIME /\ ~c -> z.cc[5]
                   [] OTHER -> t.cc[k]]
    OBVIOUS
  <2>3. /\ DOMAIN w = {"i", "o", "c", "l", "cc", "excl"} /\ w.c = z.c
        /\ w.l = (z.l \ {12}) \cup (IF 13 \in z.l THEN {FLUSHO} ELSE {}) /\ w.cc = cc
    BY <1>0, <1>6, <2>1, <2>2 DEF TiocTcsets, IsTty
  <2>4. IsTty(w) /\ w.c = s.c /\ w.l = (z.l \ {12}) \cup (IF 13 \in z.l THEN {12} ELSE {})
    BY <1>3, <1>6, <2>3 DEF IsTty, FLUSHO
  <2> USE DEF Slots, Svr4Same, VEOL2, VEOF, VEOL, VTIME, VMIN
  <2>5. \A k \in Svr4Same : cc[k] = z.cc[k]
    BY <2>2
  <2>6. cc[VEOL2] = z.cc[6] /\ cc[VEOF] = IF c THEN z.cc[4] ELSE t.cc[VEOF]
    BY <2>2
  <2>7. c => cc[VEOL] = z.cc[5]
    BY <2>2
  <2>8. ~c => cc[VTIME] = z.cc[5] /\ cc[VMIN] = z.cc[4]
    BY <2>2
  <2> QED
    BY <1>0, <2>1, <2>3, <2>4, <2>5, <2>6, <2>7, <2>8
<1>7. PICK w : w = TiocTcsets(t, s)
  OBVIOUS
<1>8. /\ IsTty(w) /\ w.c = s.c /\ w.l = (s.l \ {12}) \cup (IF 13 \in s.l THEN {12} ELSE {})
      /\ \A k \in Svr4Same : w.cc[k] = s.cc[k]
      /\ w.cc[VEOL2] = s.cc[6]
      /\ w.cc[VEOF] = IF canon THEN s.cc[4] ELSE o.cc[VEOF]
      /\ canon => w.cc[VEOL] = s.cc[5]
      /\ ~canon => w.cc[VTIME] = s.cc[5] /\ w.cc[VMIN] = s.cc[4]
  <2>1. s.l \subseteq 0 .. 13 /\ (ICANON \in s.l <=> canon)
    BY <1>2, <1>3 DEF ICANON
  <2> QED
    BY <1>6, <1>7, <2>1
<1>9. /\ \A k \in Svr4Same \cup {VEOL2, VEOF} : w.cc[k] = o.cc[k]
      /\ canon => w.cc[VEOL] = o.cc[VEOL]
      /\ ~canon => w.cc[VTIME] = o.cc[VTIME] /\ w.cc[VMIN] = o.cc[VMIN]
  BY <1>5, <1>8
<1>10. \A k \in Slots \ LostChars("uw7", o) : w.cc[k] = o.cc[k]
  <2>1. CASE canon
    <3>1. LostChars("uw7", o) = {VMIN, VTIME}
      BY <1>2, <2>1 DEF LostChars
    <3> QED
      BY <1>9, <2>1, <3>1 DEF Slots, Svr4Same, VMIN, VTIME, VEOL2, VEOL, VEOF
  <2>2. CASE ~canon
    <3>1. LostChars("uw7", o) = {VEOL}
      BY <1>2, <2>2 DEF LostChars
    <3> QED
      BY <1>9, <2>2, <3>1 DEF Slots, Svr4Same, VMIN, VTIME, VEOL2, VEOL, VEOF
  <2> QED
    BY <2>1, <2>2
<1>11. w.l \cap KeptLocal("uw7", o) = o.l \cap KeptLocal("uw7", o)
  <2>1. KeptLocal("uw7", o) = 0 .. 9 \cup {12}
    BY DEF KeptLocal, FLUSHO
  <2>2. (12 \in w.l <=> 12 \in o.l) /\ \A b \in 0 .. 9 : b \in w.l <=> b \in o.l
    BY <1>3, <1>8 DEF FLUSHO
  <2> QED
    BY <2>1, <2>2
<1>12. w.c \cap 0 .. 11 = o.c \cap 0 .. 11
  BY <1>3, <1>8
<1>13. Restored("uw7", o, w)
  BY <1>10, <1>11, <1>12 DEF Restored
<1>14. Uw7Near(o, w)
  BY <1>8, <1>9 DEF Uw7Near, Agree
<1>15. Uw7Near(o, TiocTcsets(t, RawCopy("uw7", s)))
  <2>1. PICK r : r = RawCopy("uw7", s)
    OBVIOUS
  <2>2. r.l = s.l \ {ICANON} /\ r.c = s.c
    BY <1>3, <2>1 DEF RawCopy
  <2>3. r.l \subseteq 0 .. 13 /\ ICANON \notin r.l
    BY <1>3, <2>2
  <2>4. PICK v : v = TiocTcsets(t, r)
    OBVIOUS
  <2>5. IsTty(v) /\ v.cc[VEOF] = o.cc[VEOF]
    BY <1>6, <2>2, <2>3, <2>4
  <2> QED
    BY <2>1, <2>4, <2>5 DEF Uw7Near, Agree
<1> QED
  BY <1>1, <1>7, <1>13, <1>14, <1>15

(* BSD's struct termios.                                                   *)
BsdNear(o, t) == Agree(o, t, {}, {2, 3, 6}, {})

(* Every character has a slot in it.                                       *)
LEMMA BsdSlots == \A k \in Slots : \E j \in 0 .. 17 : BsdAt[j] = k
<1>1. /\ BsdAt[0] = 4 /\ BsdAt[1] = 11 /\ BsdAt[2] = 16 /\ BsdAt[3] = 2
      /\ BsdAt[4] = 14 /\ BsdAt[5] = 3 /\ BsdAt[6] = 12
  BY DEF BsdAt, VEOF, VEOL, VEOL2, VERASE, VWERASE, VKILL, VREPRINT
<1>2. /\ BsdAt[7] = 7 /\ BsdAt[8] = 0 /\ BsdAt[9] = 1 /\ BsdAt[10] = 10 /\ BsdAt[12] = 8
      /\ BsdAt[13] = 9
  BY DEF BsdAt, VSWTC, VINTR, VQUIT, VSUSP, VSTART, VSTOP
<1>3. BsdAt[14] = 15 /\ BsdAt[15] = 13 /\ BsdAt[16] = 6 /\ BsdAt[17] = 5
  BY DEF BsdAt, VLNEXT, VDISCARD, VMIN, VTIME
<1> QED
  BY <1>1, <1>2, <1>3 DEF Slots

(* The local flags of BSD.                                                 *)
LEMMA BsdLocal ==
    ASSUME NEW o, IsTty(o), NEW s, s = LinuxToBsdTermios(o)
    PROVE  /\ (1 \in s.l <=> 4 \in o.l) /\ (2 \in s.l <=> 5 \in o.l)
           /\ (7 \in s.l <=> 0 \in o.l) /\ (8 \in s.l <=> 1 \in o.l)
           /\ 22 \in s.l <=> 8 \in o.l
           /\ 10 \notin o.l => (6 \in s.l <=> 9 \in o.l) /\ (10 \in s.l <=> 15 \in o.l)
<1>1. s.l = (o.l \cap ({3, 10, 11, 13} \cup 16 .. 29))
             \cup Shl(o.l \cap {0, 1}, 7) \cup Shr(o.l \cap {4, 5, 6, 9}, 3)
             \cup Shl(o.l \cap {8}, 14) \cup Shr(o.l \cap {10}, 4)
             \cup Shr(o.l \cap {11}, 11) \cup Shl(o.l \cap {12}, 11)
             \cup Shl(o.l \cap {14}, 15) \cup Shr(o.l \cap {15}, 5)
  BY DEF LinuxToBsdTermios
<1>2. \A b \in Int : b \in s.l <=>
         \/ b \in o.l /\ b \in {3, 10, 11, 13, 16}
         \/ b - 7 \in o.l /\ b - 7 \in {0, 1}
         \/ b + 3 \in o.l /\ b + 3 \in {4, 5, 6, 9}
         \/ b - 14 \in o.l /\ b - 14 = 8
         \/ b + 4 \in o.l /\ b + 4 = 10
         \/ b + 11 \in o.l /\ b + 11 = 11
         \/ b - 11 \in o.l /\ b - 11 = 12
         \/ b - 15 \in o.l /\ b - 15 = 14
         \/ b + 5 \in o.l /\ b + 5 = 15
  <2> SUFFICES ASSUME NEW b \in Int
               PROVE  b \in s.l <=>
                         \/ b \in o.l /\ b \in {3, 10, 11, 13, 16}
                         \/ b - 7 \in o.l /\ b - 7 \in {0, 1}
                         \/ b + 3 \in o.l /\ b + 3 \in {4, 5, 6, 9}
                         \/ b - 14 \in o.l /\ b - 14 = 8
                         \/ b + 4 \in o.l /\ b + 4 = 10
                         \/ b + 11 \in o.l /\ b + 11 = 11
                         \/ b - 11 \in o.l /\ b - 11 = 12
                         \/ b - 15 \in o.l /\ b - 15 = 14
                         \/ b + 5 \in o.l /\ b + 5 = 15
    OBVIOUS
  <2>0. b \in o.l \cap ({3, 10, 11, 13} \cup 16 .. 29)
          <=> b \in o.l /\ b \in {3, 10, 11, 13, 16}
    BY DEF IsTty
  <2>1. b \in Shl(o.l \cap {0, 1}, 7) <=> b - 7 \in o.l /\ b - 7 \in {0, 1}
    BY Shifted
  <2>2. b \in Shr(o.l \cap {4, 5, 6, 9}, 3) <=> b + 3 \in o.l /\ b + 3 \in {4, 5, 6, 9}
    BY Shifted
  <2>3. b \in Shl(o.l \cap {8}, 14) <=> b - 14 \in o.l /\ b - 14 = 8
    BY Shifted
  <2>4. b \in Shr(o.l \cap {10}, 4) <=> b + 4 \in o.l /\ b + 4 = 10
    BY Shifted
  <2>5. b \in Shr(o.l \cap {11}, 11) <=> b + 11 \in o.l /\ b + 11 = 11
    BY Shifted
  <2>6. b \in Shl(o.l \cap {12}, 11) <=> b - 11 \in o.l /\ b - 11 = 12
    BY Shifted
  <2>7. b \in Shl(o.l \cap {14}, 15) <=> b - 15 \in o.l /\ b - 15 = 14
    BY Shifted
  <2>8. b \in Shr(o.l \cap {15}, 5) <=> b + 5 \in o.l /\ b + 5 = 15
    BY Shifted
  <2> QED
    BY <1>1, <2>0, <2>1, <2>2, <2>3, <2>4, <2>5, <2>6, <2>7, <2>8
<1> QED
  BY <1>2

(* The words that BSD's structure sets.                                    *)
BsdLocalWord(L, S) ==
    (L \ ({0, 1, 4, 5} \cup 7 .. 12 \cup {14, 15}))
      \cup Shl(S \cap {0}, 12) \cup Shl(S \cap {1, 2, 6}, 3)
      \cup Shl(S \cap {5, 10}, 5) \cup Shr(S \cap {7, 8}, 7)
      \cup Shr(S \cap {22}, 14) \cup Shr(S \cap {23, 25}, 11)
      \cup Shr(S \cap {31}, 24)
BsdTold(C) ==
    (C \cap 12 .. 30) \cup Shl(C \cap 4 .. 11, 4)
      \cup (IF CRTSCTS \in C THEN {16, 17} ELSE {})
BsdLocalSet(t, S, l) ==
    /\ l \subseteq 0 .. 16
    /\ \A b \in {2, 3, 6} : b \in l <=> b \in t.l
    /\ (0 \in l <=> 7 \in S) /\ (1 \in l <=> 8 \in S) /\ (4 \in l <=> 1 \in S)
    /\ (5 \in l <=> 2 \in S) /\ (8 \in l <=> 22 \in S) /\ (9 \in l <=> 6 \in S)
    /\ 15 \in l <=> 10 \in S
BsdControlSet(o, d) ==
    /\ d \subseteq Int /\ d \cap 13 .. 15 = {}
    /\ CBAUDEX \notin o.c => d \cap 0 .. 11 = o.c \cap 0 .. 11
BsdFlow(c) == IF c \cap {16, 17} # {} THEN {CRTSCTS} ELSE {}

(* Setting the local flags.                                                *)
LEMMA BsdSetLocal ==
    ASSUME NEW t, IsTty(t), NEW S, NEW l, l = BsdLocalWord(t.l, S)
    PROVE  BsdLocalSet(t, S, l)
<1>1. \A b \in Int : b \in l <=>
         \/ b \in t.l /\ b \in {2, 3, 6, 13, 16}
         \/ b - 12 \in S /\ b - 12 = 0
         \/ b - 3 \in S /\ b - 3 \in {1, 2, 6}
         \/ b - 5 \in S /\ b - 5 \in {5, 10}
         \/ b + 7 \in S /\ b + 7 \in {7, 8}
         \/ b + 14 \in S /\ b + 14 = 22
         \/ b + 11 \in S /\ b + 11 \in {23, 25}
         \/ b + 24 \in S /\ b + 24 = 31
  <2> SUFFICES ASSUME NEW b \in Int
               PROVE  b \in l <=>
                         \/ b \in t.l /\ b \in {2, 3, 6, 13, 16}
                         \/ b - 12 \in S /\ b - 12 = 0
                         \/ b - 3 \in S /\ b - 3 \in {1, 2, 6}
                         \/ b - 5 \in S /\ b - 5 \in {5, 10}
                         \/ b + 7 \in S /\ b + 7 \in {7, 8}
                         \/ b + 14 \in S /\ b + 14 = 22
                         \/ b + 11 \in S /\ b + 11 \in {23, 25}
                         \/ b + 24 \in S /\ b + 24 = 31
    OBVIOUS
  <2>0. b \in t.l \ ({0, 1, 4, 5} \cup 7 .. 12 \cup {14, 15})
          <=> b \in t.l /\ b \in {2, 3, 6, 13, 16}
    BY DEF IsTty
  <2>1. b \in Shl(S \cap {0}, 12) <=> b - 12 \in S /\ b - 12 = 0
    BY Shifted
  <2>2. b \in Shl(S \cap {1, 2, 6}, 3) <=> b - 3 \in S /\ b - 3 \in {1, 2, 6}
    BY Shifted
  <2>3. b \in Shl(S \cap {5, 10}, 5) <=> b - 5 \in S /\ b - 5 \in {5, 10}
    BY Shifted
  <2>4. b \in Shr(S \cap {7, 8}, 7) <=> b + 7 \in S /\ b + 7 \in {7, 8}
    BY Shifted
  <2>5. b \in Shr(S \cap {22}, 14) <=> b + 14 \in S /\ b + 14 = 22
    BY Shifted
  <2>6. b \in Shr(S \cap {23, 25}, 11) <=> b + 11 \in S /\ b + 11 \in {23, 25}
    BY Shifted
  <2>7. b \in Shr(S \cap {31}, 24) <=> b + 24 \in S /\ b + 24 = 31
    BY Shifted
  <2> QED
    BY <2>0, <2>1, <2>2, <2>3, <2>4, <2>5, <2>6, <2>7 DEF BsdLocalWord
<1>2. l \subseteq Int
  <2>1. t.l \subseteq Int
    BY DEF IsTty
  <2>2. /\ Shl(S \cap {0}, 12) \subseteq Int /\ Shl(S \cap {1, 2, 6}, 3) \subseteq Int
        /\ Shl(S \cap {5, 10}, 5) \subseteq Int /\ Shr(S \cap {7, 8}, 7) \subseteq Int
    BY ShiftedBits
  <2>3. /\ Shr(S \cap {22}, 14) \subseteq Int /\ Shr(S \cap {23, 25}, 11) \subseteq Int
        /\ Shr(S \cap {31}, 24) \subseteq Int
    BY ShiftedBits
  <2> QED
    BY <2>1, <2>2, <2>3 DEF BsdLocalWord
<1>3. l \subseteq 0 .. 16
  <2> SUFFICES ASSUME NEW b \in l PROVE b \in 0 .. 16
    OBVIOUS
  <2> QED
    BY <1>1, <1>2
<1>4. \A b \in {2, 3, 6} : b \in l <=> b \in t.l
  BY <1>1
<1>5. (0 \in l <=> 7 \in S) /\ (1 \in l <=> 8 \in S) /\ (4 \in l <=> 1 \in S)
  BY <1>1
<1>6. (5 \in l <=> 2 \in S) /\ (8 \in l <=> 22 \in S) /\ (9 \in l <=> 6 \in S)
  BY <1>1
<1>7. 15 \in l <=> 10 \in S
  BY <1>1
<1> QED
  BY <1>3, <1>4, <1>5, <1>6, <1>7 DEF BsdLocalSet

(* The speed and the other control flags, at 38400 baud or less.           *)
LEMMA BsdControl ==
    ASSUME NEW o, IsTty(o), NEW t, IsTty(t), NEW speed, speed = LinuxToBsdSpeed(o.c),
           NEW c, c = (t.c \ 0 .. 11) \cup Shr(BsdTold(o.c) \cap 8 .. 15, 4)
    PROVE  BsdControlSet(o, c \cup BsdFlow(c) \cup speed \cup Shl(speed, 16))
<1>0. o.c \subseteq Int /\ t.c \subseteq Int /\ o.c \cap 13 .. 15 = {} /\ t.c \cap 13 .. 15 = {}
  BY DEF IsTty
<1>1. PICK C : C = BsdTold(o.c)
  OBVIOUS
<1>2. C \cap 8 .. 15 \in SUBSET Int /\ speed \in SUBSET Int /\ speed \subseteq 0 .. 12
  BY DEF LinuxToBsdSpeed
<1>3. \A b \in Int : b \in Shr(C \cap 8 .. 15, 4) <=> b + 4 \in C /\ b + 4 \in 8 .. 15
  <2> SUFFICES ASSUME NEW b \in Int
               PROVE  b \in Shr(C \cap 8 .. 15, 4) <=> b + 4 \in C \cap 8 .. 15
    OBVIOUS
  <2> QED
    BY <1>2, Shifted
<1>4. PICK moved : moved = Shr(C \cap 8 .. 15, 4)
  OBVIOUS
<1>5. PICK high : high = Shl(speed, 16)
  OBVIOUS
<1>6. moved \subseteq Int /\ high \subseteq Int
  <2>1. Shr(C \cap 8 .. 15, 4) \subseteq Int
    BY <1>2, ShiftedBits
  <2>2. Shl(speed, 16) \subseteq Int
    BY <1>2, ShiftedBits
  <2> QED
    BY <1>4, <1>5, <2>1, <2>2
<1>7. PICK d : d = c \cup BsdFlow(c) \cup speed \cup high
  OBVIOUS
<1>10. \A b \in Int : b \in c <=> (b \in t.c /\ b \notin 0 .. 11) \/ b \in moved
  BY <1>1, <1>4
<1>11. BsdFlow(c) \subseteq {31}
  BY DEF BsdFlow, CRTSCTS
<1>12. d \subseteq Int
  <2>1. BsdFlow(c) \subseteq Int
    BY <1>11
  <2>2. c \subseteq Int
    BY <1>0, <1>1, <1>4, <1>6
  <2> QED
    BY <1>2, <1>6, <1>7, <2>1, <2>2
<1>13. \A b \in 0 .. 15 : b \in d <=> b \in c \/ b \in speed
  <2> SUFFICES ASSUME NEW b \in 0 .. 15 PROVE b \in d <=> b \in c \/ b \in speed
    OBVIOUS
  <2>1. b \notin high
    <3>1. b \in Shl(speed, 16) <=> b - 16 \in speed
      BY <1>2, Shifted
    <3>2. b - 16 \notin speed
      BY <1>2
    <3> QED
      BY <1>5, <3>1, <3>2
  <2>2. b \notin BsdFlow(c)
    BY <1>11
  <2> QED
    BY <1>7, <2>1, <2>2
<1>8. d \cap 13 .. 15 = {}
  <2> SUFFICES ASSUME NEW b \in 13 .. 15 PROVE b \notin d
    OBVIOUS
  <2>1. b \notin t.c /\ b \notin speed /\ b \notin moved
    BY <1>0, <1>2, <1>3, <1>4
  <2> QED
    BY <1>10, <1>13, <2>1
<1>9. CBAUDEX \notin o.c => \A b \in 0 .. 11 : b \in d <=> b \in o.c
  <2> SUFFICES ASSUME 12 \notin o.c, NEW b \in 0 .. 11
               PROVE  b \in d <=> b \in o.c
    BY DEF CBAUDEX
  <2>1. b \in d <=> (b + 4 \in C /\ b + 4 \in 8 .. 15) \/ b \in speed
    <3>1. b \in c <=> b \in moved
      BY <1>10
    <3> QED
      BY <1>3, <1>4, <1>13, <3>1
  <2>2. CASE b \in 4 .. 11
    <3>1. b + 4 \in C <=> b + 4 \in Shl(o.c \cap 4 .. 11, 4)
      <4>1. b + 4 \notin o.c \cap 12 .. 30
        BY <1>0, <2>2
      <4>2. b + 4 \notin {16, 17}
        BY <2>2
      <4> QED
        BY <1>1, <4>1, <4>2 DEF BsdTold
    <3>2. b + 4 \in Shl(o.c \cap 4 .. 11, 4) <=> b \in o.c
      <4>1. b + 4 \in Int /\ (b + 4) - 4 = b
        OBVIOUS
      <4>2. b + 4 \in Shl(o.c \cap 4 .. 11, 4) <=> b \in o.c \cap 4 .. 11
        BY <4>1, Shifted
      <4> QED
        BY <2>2, <4>2
    <3>3. b \notin speed /\ b + 4 \in 8 .. 15
      BY <2>2 DEF LinuxToBsdSpeed
    <3> QED
      BY <2>1, <3>1, <3>2, <3>3
  <2>3. CASE b \in 0 .. 3
    <3>1. (b \in speed <=> b \in o.c) /\ b + 4 \notin 8 .. 15
      BY <2>3 DEF LinuxToBsdSpeed
    <3> QED
      BY <2>1, <3>1
  <2> QED
    BY <2>2, <2>3
<1> QED
  BY <1>5, <1>7, <1>8, <1>9, <1>12 DEF BsdControlSet

(* Saving, going raw and restoring with BSD's structure.                   *)
LEMMA BsdRound ==
    ASSUME NEW o, NEW t, IsTty(o), BsdNear(o, t)
    PROVE  LET s == LinuxToBsdTermios(o) IN
           /\ BsdNear(o, BsdToLinuxTermios(t, s))
           /\ Restored("bsd", o, BsdToLinuxTermios(t, s))
           /\ BsdNear(o, BsdToLinuxTermios(t, RawCopy("bsd", s)))
<1>0. IsTty(t) /\ \A b \in {2, 3, 6} : b \in t.l <=> b \in o.l
  BY DEF BsdNear, Agree
<1>1. PICK s : s = LinuxToBsdTermios(o)
  OBVIOUS
<1>2. /\ s.cc = [k \in 0 .. 17 |-> o.cc[BsdAt[k]]]
      /\ DOMAIN s = {"i", "o", "c", "speed", "l", "cc"}
      /\ s.c = BsdTold(o.c) /\ s.speed = LinuxToBsdSpeed(o.c)
  BY <1>1 DEF LinuxToBsdTermios, BsdTold
<1>3. ASSUME NEW z, NEW w, w = BsdToLinuxTermios(t, z), z.c = s.c, z.speed = s.speed
      PROVE  /\ IsTty(w) /\ (CBAUDEX \notin o.c => w.c \cap 0 .. 11 = o.c \cap 0 .. 11)
             /\ \A b \in {2, 3, 6} : b \in w.l <=> b \in o.l
             /\ (0 \in w.l <=> 7 \in z.l) /\ (1 \in w.l <=> 8 \in z.l)
             /\ (4 \in w.l <=> 1 \in z.l) /\ (5 \in w.l <=> 2 \in z.l)
             /\ (8 \in w.l <=> 22 \in z.l) /\ (9 \in w.l <=> 6 \in z.l)
             /\ 15 \in w.l <=> 10 \in z.l
             /\ \A k \in Slots : w.cc[k] = z.cc[CHOOSE j \in 0 .. 17 : BsdAt[j] = k]
  <2>1. PICK c : c = (t.c \ 0 .. 11) \cup Shr(z.c \cap 8 .. 15, 4)
    OBVIOUS
  <2>2. /\ DOMAIN w = {"i", "o", "c", "l", "cc", "excl"}
        /\ w.c = c \cup BsdFlow(c) \cup z.speed \cup Shl(z.speed, 16)
        /\ w.l = BsdLocalWord(t.l, z.l)
        /\ w.cc = [k \in Slots |-> z.cc[CHOOSE j \in 0 .. 17 : BsdAt[j] = k]]
    BY <1>0, <1>3, <2>1 
       DEF BsdToLinuxTermios, BsdToLinuxSpeed, BsdFlow, BsdLocalWord, IsTty
  <2>3. /\ w.c \subseteq Int /\ w.c \cap 13 .. 15 = {}
        /\ CBAUDEX \notin o.c => w.c \cap 0 .. 11 = o.c \cap 0 .. 11
    <3>1. PICK speed : speed = LinuxToBsdSpeed(o.c)
      OBVIOUS
    <3>2. /\ c = (t.c \ 0 .. 11) \cup Shr(BsdTold(o.c) \cap 8 .. 15, 4)
          /\ w.c = c \cup BsdFlow(c) \cup speed \cup Shl(speed, 16)
      BY <1>2, <1>3, <2>1, <2>2, <3>1
    <3>3. BsdControlSet(o, w.c)
      <4>1. c = (t.c \ 0 .. 11) \cup Shr(BsdTold(o.c) \cap 8 .. 15, 4)
        BY <3>2
      <4>2. IsTty(t)
        BY <1>0
      <4>3. BsdControlSet(o, c \cup BsdFlow(c) \cup speed \cup Shl(speed, 16))
        BY <3>1, <4>1, <4>2, BsdControl
      <4> QED
        BY <3>2, <4>3
    <3> QED
      BY <3>3 DEF BsdControlSet
  <2>4. /\ w.l \subseteq 0 .. 16
        /\ \A b \in {2, 3, 6} : b \in w.l <=> b \in t.l
        /\ (0 \in w.l <=> 7 \in z.l) /\ (1 \in w.l <=> 8 \in z.l) /\ (4 \in w.l <=> 1 \in z.l)
        /\ (5 \in w.l <=> 2 \in z.l) /\ (8 \in w.l <=> 22 \in z.l) /\ (9 \in w.l <=> 6 \in z.l)
        /\ 15 \in w.l <=> 10 \in z.l
    <3>1. PICK l : l = w.l
      OBVIOUS
    <3>2. PICK S : S = z.l
      OBVIOUS
    <3>3. l = BsdLocalWord(t.l, S)
      BY <2>2, <3>1, <3>2
    <3>4. BsdLocalSet(t, S, l)
      BY <1>0, <3>3, BsdSetLocal, Zenon
    <3> QED
      BY <3>1, <3>2, <3>4 DEF BsdLocalSet
  <2>5. IsTty(w)
    BY <2>2, <2>3, <2>4 DEF IsTty
  <2>6. \A k \in Slots : w.cc[k] = z.cc[CHOOSE j \in 0 .. 17 : BsdAt[j] = k]
    BY <2>2
  <2> QED
    BY <1>0, <2>3, <2>4, <2>5, <2>6
<1>4. PICK w : w = BsdToLinuxTermios(t, s)
  OBVIOUS
<1>5. /\ IsTty(w) /\ (CBAUDEX \notin o.c => w.c \cap 0 .. 11 = o.c \cap 0 .. 11)
      /\ \A b \in {2, 3, 6} : b \in w.l <=> b \in o.l
      /\ (0 \in w.l <=> 7 \in s.l) /\ (1 \in w.l <=> 8 \in s.l)
      /\ (4 \in w.l <=> 1 \in s.l) /\ (5 \in w.l <=> 2 \in s.l)
      /\ (8 \in w.l <=> 22 \in s.l) /\ (9 \in w.l <=> 6 \in s.l)
      /\ 15 \in w.l <=> 10 \in s.l
      /\ \A k \in Slots : w.cc[k] = s.cc[CHOOSE j \in 0 .. 17 : BsdAt[j] = k]
  BY <1>3, <1>4
<1>6. \A k \in Slots : w.cc[k] = o.cc[k]
  <2> SUFFICES ASSUME NEW k \in Slots PROVE w.cc[k] = o.cc[k]
    OBVIOUS
  <2>1. PICK j : j = CHOOSE i \in 0 .. 17 : BsdAt[i] = k
    OBVIOUS
  <2>2. j \in 0 .. 17 /\ BsdAt[j] = k
    BY <2>1, BsdSlots
  <2>3. w.cc[k] = s.cc[j]
    BY <1>5, <2>1
  <2>4. s.cc[j] = o.cc[BsdAt[j]]
    BY <1>2, <2>2
  <2> QED
    BY <2>2, <2>3, <2>4
<1>7. /\ (1 \in s.l <=> 4 \in o.l) /\ (2 \in s.l <=> 5 \in o.l)
      /\ (7 \in s.l <=> 0 \in o.l) /\ (8 \in s.l <=> 1 \in o.l) /\ (22 \in s.l <=> 8 \in o.l)
      /\ 10 \notin o.l => (6 \in s.l <=> 9 \in o.l) /\ (10 \in s.l <=> 15 \in o.l)
  BY <1>1, BsdLocal
<1>8. w.l \cap KeptLocal("bsd", o) = o.l \cap KeptLocal("bsd", o)
  <2>1. KeptLocal("bsd", o) = {0, 1, 2, 3, 4, 5, 6, 8}
                                \cup (IF 10 \in o.l THEN {} ELSE {9, 15})
    BY DEF KeptLocal, ECHOPRT, ECHOCTL, IEXTEN
  <2>2. \A b \in {0, 1, 2, 3, 4, 5, 6, 8} : b \in w.l <=> b \in o.l
    BY <1>5, <1>7
  <2>3. 10 \notin o.l => \A b \in {9, 15} : b \in w.l <=> b \in o.l
    BY <1>5, <1>7
  <2> QED
    BY <2>1, <2>2, <2>3
<1>9. Restored("bsd", o, w)
  BY <1>5, <1>6, <1>8 DEF Restored
<1>10. BsdNear(o, w)
  BY <1>5 DEF BsdNear, Agree
<1>11. BsdNear(o, BsdToLinuxTermios(t, RawCopy("bsd", s)))
  <2>1. PICK r : r = RawCopy("bsd", s)
    OBVIOUS
  <2>2. r.c = s.c /\ r.speed = s.speed
    BY <1>2, <2>1 DEF RawCopy
  <2>3. PICK v : v = BsdToLinuxTermios(t, r)
    OBVIOUS
  <2>4. IsTty(v) /\ \A b \in {2, 3, 6} : b \in v.l <=> b \in o.l
    BY <1>3, <2>2, <2>3
  <2> QED
    BY <2>1, <2>3, <2>4 DEF BsdNear, Agree
<1> QED
  BY <1>1, <1>4, <1>9, <1>10, <1>11

(* V7's struct sgttyb.                                                     *)
SgttyNear(o, t) ==
    Agree(o, t, Slots \ {VERASE, VKILL, VMIN, VTIME}, {}, 0 .. 11 \cup {CRTSCTS})

(* Saving, going raw and restoring with it.                                *)
LEMMA SgttyRound ==
    ASSUME NEW o, NEW t, IsTty(o), SgttyNear(o, t)
    PROVE  LET s == Tiocgetp(o) IN
           /\ SgttyNear(o, Tiocsetp(t, s)) /\ Restored("sgtty", o, Tiocsetp(t, s))
           /\ SgttyNear(o, Tiocsetp(t, RawCopy("sgtty", s)))
<1>0. /\ IsTty(t) /\ \A k \in Slots \ {VERASE, VKILL, VMIN, VTIME} : t.cc[k] = o.cc[k]
      /\ \A b \in 0 .. 11 \cup {CRTSCTS} : b \in t.c <=> b \in o.c
  BY DEF SgttyNear, Agree
<1>1. PICK s : s = Tiocgetp(o)
  OBVIOUS
<1>2. PICK mode : mode = CASE ICANON \in o.l -> {}
                           [] ICANON \notin o.l /\ ISIG \in o.l -> {1}
                           [] OTHER -> {5}
  OBVIOUS
<1>3. PICK others : others =
        Shr(o.c \cap {9}, 3) \cup Shr(o.c \cap {8}, 1)
          \cup (IF 0 \in o.c THEN {} ELSE {21})
          \cup Shl(o.o \cap {2}, 2) \cup (o.o \cap {8, 14})
          \cup (IF o.o \cap {11, 12} # {} THEN {10} ELSE {})
          \cup Shl(o.o \cap {9, 10}, 3) \cup Shl(o.o \cap {13}, 2)
  OBVIOUS
<1>4. /\ s.flags = others \cup (o.l \cap {2, ECHO}) \cup mode
      /\ s.cc = [k \in {VERASE, VKILL} |-> o.cc[k]] /\ DOMAIN s = {"flags", "cc"}
  BY <1>1, <1>2, <1>3 DEF Tiocgetp
<1>5. \A b \in {1, 3, 5} : b \notin others
  <2> SUFFICES ASSUME NEW b \in {1, 3, 5} PROVE b \notin others
    OBVIOUS
  <2>1. b \notin Shr(o.c \cap {9}, 3) /\ b \notin Shr(o.c \cap {8}, 1)
    <3>1. b \in Shr(o.c \cap {9}, 3) <=> b + 3 \in o.c \cap {9}
      BY Shifted
    <3>2. b \in Shr(o.c \cap {8}, 1) <=> b + 1 \in o.c \cap {8}
      BY Shifted
    <3> QED
      BY <3>1, <3>2
  <2>2. /\ b \notin Shl(o.o \cap {2}, 2) /\ b \notin Shl(o.o \cap {9, 10}, 3)
        /\ b \notin Shl(o.o \cap {13}, 2)
    <3>1. b \in Shl(o.o \cap {2}, 2) <=> b - 2 \in o.o \cap {2}
      BY Shifted
    <3>2. b \in Shl(o.o \cap {9, 10}, 3) <=> b - 3 \in o.o \cap {9, 10}
      BY Shifted
    <3>3. b \in Shl(o.o \cap {13}, 2) <=> b - 2 \in o.o \cap {13}
      BY Shifted
    <3> QED
      BY <3>1, <3>2, <3>3
  <2>3. /\ b \notin o.o \cap {8, 14}
        /\ b \notin (IF 0 \in o.c THEN {} ELSE {21})
        /\ b \notin (IF o.o \cap {11, 12} # {} THEN {10} ELSE {})
    OBVIOUS
  <2> QED
    BY <1>3, <2>1, <2>2, <2>3, Zenon
<1>6. ICANON \in o.l => 1 \notin mode /\ 5 \notin mode
  BY <1>2
<1>7. ICANON \notin o.l /\ ISIG \in o.l => 1 \in mode /\ 5 \notin mode
  BY <1>2
<1>8. ICANON \notin o.l /\ ISIG \notin o.l => 5 \in mode /\ 1 \notin mode
  BY <1>2
<1>9. 3 \notin mode
  <2>1. mode \in {{}, {1}, {5}}
    BY <1>2
  <2> QED
    BY <2>1
<1>10. /\ 1 \in s.flags <=> ICANON \notin o.l /\ ISIG \in o.l
       /\ 5 \in s.flags <=> ICANON \notin o.l /\ ISIG \notin o.l
       /\ 3 \in s.flags <=> 3 \in o.l
  BY <1>4, <1>5, <1>6, <1>7, <1>8, <1>9 DEF ECHO
<1>11. ASSUME NEW z, NEW w, w = Tiocsetp(t, z), z.cc = s.cc
       PROVE  /\ SgttyNear(o, w)
              /\ \A k \in {VERASE, VKILL} : w.cc[k] = o.cc[k]
              /\ 0 \in w.l <=> 5 \notin z.flags
              /\ 1 \in w.l <=> 5 \notin z.flags /\ 1 \notin z.flags
              /\ 3 \in w.l <=> 3 \in z.flags
  <2>1. PICK l : l = ({ISIG, ICANON} \ ((IF 1 \in z.flags THEN {ICANON} ELSE {})
                                \cup (IF 5 \in z.flags THEN {ISIG, ICANON} ELSE {})))
                     \cup (IF ECHO \in z.flags THEN {3, 4, 5, 9, 11, 15} ELSE {})
    OBVIOUS
  <2>2. PICK cc : cc = [k \in Slots |->
                            CASE k \in {VERASE, VKILL} -> z.cc[k]
                              [] k = VMIN /\ ICANON \notin l -> 1
                              [] k = VTIME /\ ICANON \notin l -> 0
                              [] OTHER -> t.cc[k]]
    OBVIOUS
  <2>3. /\ DOMAIN w = {"i", "o", "c", "l", "cc", "excl"}
        /\ w.l = l /\ w.c = t.c /\ w.cc = cc
    BY <1>0, <1>11, <2>1, <2>2 DEF Tiocsetp, IsTty
  <2>4. /\ l \subseteq 0 .. 16 /\ (0 \in l <=> 5 \notin z.flags)
        /\ 1 \in l <=> 5 \notin z.flags /\ 1 \notin z.flags
        /\ 3 \in l <=> 3 \in z.flags
    BY <2>1 DEF ISIG, ICANON, ECHO
  <2>5. IsTty(w)
    BY <1>0, <2>3, <2>4 DEF IsTty
  <2>6. \A k \in {VERASE, VKILL} : w.cc[k] = o.cc[k]
    BY <1>4, <1>11, <2>2, <2>3 DEF VERASE, VKILL, VMIN, VTIME, Slots
  <2>7. \A k \in Slots \ {VERASE, VKILL, VMIN, VTIME} : w.cc[k] = o.cc[k]
    BY <1>0, <2>2, <2>3
  <2> QED
    BY <1>0, <2>3, <2>4, <2>5, <2>6, <2>7 DEF SgttyNear, Agree
<1>12. PICK w : w = Tiocsetp(t, s)
  OBVIOUS
<1>13. /\ SgttyNear(o, w) /\ \A k \in {VERASE, VKILL} : w.cc[k] = o.cc[k]
       /\ 0 \in w.l <=> 5 \notin s.flags
       /\ 1 \in w.l <=> 5 \notin s.flags /\ 1 \notin s.flags
       /\ 3 \in w.l <=> 3 \in s.flags
  BY <1>11, <1>12
<1>14. Restored("sgtty", o, w)
  <2>1. \A k \in Slots \ LostChars("sgtty", o) : w.cc[k] = o.cc[k]
    <3>1. LostChars("sgtty", o) = {VMIN, VTIME}
      BY DEF LostChars
    <3> QED
      BY <1>13, <3>1 DEF SgttyNear, Agree
  <2>2. w.l \cap KeptLocal("sgtty", o) = o.l \cap KeptLocal("sgtty", o)
    <3>1. KeptLocal("sgtty", o)
            = IF {ICANON, ISIG} \cap o.l = {ICANON} THEN {ECHO} ELSE {ICANON, ISIG, ECHO}
      BY DEF KeptLocal
    <3>2. 3 \in w.l <=> 3 \in o.l
      BY <1>10, <1>13
    <3>3. ~(1 \in o.l /\ 0 \notin o.l)
             => (0 \in w.l <=> 0 \in o.l) /\ (1 \in w.l <=> 1 \in o.l)
      BY <1>10, <1>13 DEF ICANON, ISIG
    <3>4. CASE 1 \in o.l /\ 0 \notin o.l
      <4>1. KeptLocal("sgtty", o) = {3}
        BY <3>1, <3>4 DEF ICANON, ISIG, ECHO
      <4> QED
        BY <3>2, <4>1
    <3>5. CASE ~(1 \in o.l /\ 0 \notin o.l)
      <4>1. KeptLocal("sgtty", o) \subseteq {0, 1, 3}
        BY <3>1 DEF ICANON, ISIG, ECHO
      <4> QED
        BY <3>2, <3>3, <3>5, <4>1
    <3> QED
      BY <3>4, <3>5
  <2>3. /\ w.c \cap 0 .. 11 = o.c \cap 0 .. 11
        /\ CRTSCTS \in w.c <=> CRTSCTS \in o.c
    BY <1>13 DEF SgttyNear, Agree
  <2> QED
    BY <2>1, <2>2, <2>3 DEF Restored
<1>15. SgttyNear(o, Tiocsetp(t, RawCopy("sgtty", s)))
  <2>1. PICK r : r = RawCopy("sgtty", s)
    OBVIOUS
  <2>2. r.cc = s.cc
    BY <1>4, <2>1 DEF RawCopy
  <2>3. PICK v : v = Tiocsetp(t, r)
    OBVIOUS
  <2>4. SgttyNear(o, v)
    BY <1>11, <2>2, <2>3
  <2> QED
    BY <2>1, <2>3, <2>4
<1> QED
  BY <1>1, <1>12, <1>13, <1>14, <1>15

(* The structures that a program does not use to go raw.                   *)
Unchanged(o, t) == Agree(o, t, Slots, 0 .. 16, 0 .. 11 \cup {CRTSCTS})

(* Settings that agree in everything are restored.                         *)
LEMMA UnchangedRestored ==
    ASSUME NEW f \in {"tchars", "ltchars", "termiox"}, NEW o, NEW w, Unchanged(o, w)
    PROVE  Restored(f, o, w)
<1>1. KeptLocal(f, o) = 0 .. 16
  BY DEF KeptLocal
<1> QED
  BY <1>1 DEF Restored, Unchanged, Agree

(* Saving and restoring with struct tchars or struct ltchars.              *)
LEMMA CharsRound ==
    ASSUME NEW o, NEW t, IsTty(o), Unchanged(o, t), NEW at
    PROVE  Unchanged(o, SetChars(at, t, GetChars(at, o)))
<1>1. PICK s : s = GetChars(at, o)
  OBVIOUS
<1>2. PICK w : w = SetChars(at, t, s)
  OBVIOUS
<1>3. /\ DOMAIN w = {"i", "o", "c", "l", "cc", "excl"} /\ w.l = t.l /\ w.c = t.c
      /\ \A k \in Slots : w.cc[k] = IF {g \in DOMAIN at : at[g] = k} = {} THEN t.cc[k]
                                    ELSE s[CHOOSE g \in {g \in DOMAIN at : at[g] = k} : TRUE]
  BY <1>2 DEF SetChars, Unchanged, Agree, IsTty
<1>4. \A k \in Slots : w.cc[k] = o.cc[k]
  <2> SUFFICES ASSUME NEW k \in Slots PROVE w.cc[k] = o.cc[k]
    OBVIOUS
  <2>1. PICK f : f = {g \in DOMAIN at : at[g] = k}
    OBVIOUS
  <2>2. CASE f = {}
    BY <1>3, <2>1, <2>2 DEF Unchanged, Agree
  <2>3. CASE f # {}
    <3>1. PICK h : h = CHOOSE g \in f : TRUE
      OBVIOUS
    <3>2. h \in f
      BY <2>3, <3>1
    <3>3. s[h] = o.cc[k]
      BY <1>1, <2>1, <3>2 DEF GetChars
    <3> QED
      BY <1>3, <2>1, <2>3, <3>1, <3>3
  <2> QED
    BY <2>2, <2>3
<1> QED
  BY <1>1, <1>2, <1>3, <1>4 DEF Unchanged, Agree, IsTty

(* Saving and restoring with struct termiox.                               *)
LEMMA TermioxRound ==
    ASSUME NEW o, NEW t, IsTty(o), Unchanged(o, t)
    PROVE  Unchanged(o, TermioxSet(t, TermioxGet(o)))
<1>1. PICK w : w = TermioxSet(t, TermioxGet(o))
  OBVIOUS
<1>2. /\ DOMAIN w = {"i", "o", "c", "l", "cc", "excl"} /\ w.l = t.l /\ w.cc = t.cc
      /\ w.c = IF CRTSCTS \in o.c THEN t.c \cup {CRTSCTS} ELSE t.c \ {CRTSCTS}
  BY <1>1 DEF TermioxSet, TermioxGet, Unchanged, Agree, IsTty
<1>3. IsTty(w)
  BY <1>2 DEF Unchanged, Agree, IsTty, CRTSCTS
<1>4. \A b \in 0 .. 11 \cup {CRTSCTS} : b \in w.c <=> b \in o.c
  BY <1>2 DEF Unchanged, Agree, CRTSCTS
<1> QED
  BY <1>1, <1>2, <1>3, <1>4 DEF Unchanged, Agree

(* The settings t may be those that were saved as o in a structure f, with *)
(* the structure set any number of times since, as it was or raw.          *)
Formats == {"termio", "svr4", "sco", "uw7", "bsd", "sgtty", "tchars", "ltchars", "termiox"}
RawFormats == {"termio", "svr4", "sco", "uw7", "bsd", "sgtty"}
Near(f, o, t) ==
    /\ f = "termio" => TermioNear(o, t)
    /\ f = "svr4" => Svr4Near(o, t)
    /\ f = "sco" => ScoNear(o, t)
    /\ f = "uw7" => Uw7Near(o, t)
    /\ f = "bsd" => BsdNear(o, t)
    /\ f = "sgtty" => SgttyNear(o, t)
    /\ f \in {"tchars", "ltchars", "termiox"} => Unchanged(o, t)

(* Whether they are does not depend on the exclusive use of the terminal.  *)
LEMMA NearAgain ==
    ASSUME NEW f, NEW o, NEW t, Near(f, o, t), NEW u, IsTty(u),
           u.cc = t.cc, u.l = t.l, u.c = t.c
    PROVE  Near(f, o, u)
BY DEF Near, TermioNear, Svr4Near, ScoNear, Uw7Near, BsdNear, SgttyNear, Unchanged, Agree

(* They are when they are saved.                                           *)
LEMMA NearAtFirst ==
    ASSUME NEW f, NEW o, IsTty(o)
    PROVE  Near(f, o, o)
BY DEF Near, TermioNear, Svr4Near, ScoNear, Uw7Near, BsdNear, SgttyNear, Unchanged, Agree

(* Settings near to others are settings.                                   *)
LEMMA NearIsTty ==
    ASSUME NEW f \in Formats, NEW o, NEW t, Near(f, o, t)
    PROVE  IsTty(t)
BY DEF Formats, Near, TermioNear, Svr4Near, ScoNear, Uw7Near, BsdNear, SgttyNear,
       Unchanged, Agree

(* Restoring restores, and going raw can be undone.                        *)
LEMMA Round ==
    ASSUME NEW f \in Formats, NEW o, NEW t, IsTty(o), Near(f, o, t), NEW junk
    PROVE  LET s == Read(f, o, junk) IN
           /\ Near(f, o, Written(f, t, s)) /\ Restored(f, o, Written(f, t, s))
           /\ f \in RawFormats => Near(f, o, Written(f, t, RawCopy(f, s)))
<1> USE DEF Read, Written, Near
<1>1. CASE f = "termio"
  BY <1>1, TermioRound
<1>2. CASE f = "svr4"
  BY <1>2, Svr4Round
<1>3. CASE f = "sco"
  BY <1>3, ScoRound
<1>4. CASE f = "uw7"
  BY <1>4, Uw7Round
<1>5. CASE f = "bsd"
  BY <1>5, BsdRound
<1>6. CASE f = "sgtty"
  BY <1>6, SgttyRound
<1>7. CASE f = "tchars"
  BY <1>7, CharsRound, UnchangedRestored DEF RawFormats
<1>8. CASE f = "ltchars"
  BY <1>8, CharsRound, UnchangedRestored DEF RawFormats
<1>9. CASE f = "termiox"
  BY <1>9, TermioxRound, UnchangedRestored DEF RawFormats
<1> QED
  BY <1>1, <1>2, <1>3, <1>4, <1>5, <1>6, <1>7, <1>8, <1>9 DEF Formats

(* What the program holds is the structure of the saved settings, and the  *)
(* terminal has settings from which it restores them.                      *)
Holds(f, junk) == tcopy = [format |-> f, data |-> Read(f, saved, junk)]
TermInv ==
    /\ IsTty(tty) /\ IsTty(saved) /\ termDone \in {"none", "got", "raw", "restored"}
    /\ termDone # "none" => \E f \in Formats, junk \in Junk :
                                Holds(f, junk) /\ Near(f, saved, tty)
    /\ TerminalRestored

(* A program that saves the terminal's settings in any of the nine         *)
(* structures, goes raw and sets what it saved last, any number of times   *)
(* and with TIOCEXCL in between, has restored them up to the losses that   *)
(* TerminalRestored names, whatever flags were set (the converters of      *)
(* termios.c and ioctl of each personality).                               *)
THEOREM SettingsComeBack == TerminalSpec => []TerminalRestored
<1>1. TerminalInit => TermInv
  <2> SUFFICES ASSUME TerminalInit PROVE TermInv
    OBVIOUS
  <2>1. PICK i \in InFlags, o \in OutFlags, c \in CtlFlags, l \in LocalFlags :
          tty = FirstTty(i, o, c, l)
    BY DEF TerminalInit
  <2>2. c \subseteq 0 .. 12 \cup 16 .. 31 /\ l \subseteq 0 .. 16
    BY TerminalAssumption
  <2>3. IsTty(tty)
    BY <2>1, <2>2 DEF FirstTty, IsTty
  <2> QED
    BY <2>3 DEF TerminalInit, TermInv, TerminalRestored
<1>2. TermInv /\ [TerminalNext]_terminalVars => TermInv'
  <2> SUFFICES ASSUME TermInv, [TerminalNext]_terminalVars PROVE TermInv'
    OBVIOUS
  <2>0. IsTty(tty) /\ IsTty(saved)
    BY DEF TermInv
  <2>1. ASSUME NEW f \in Svr4Ioctl \cup ScoIoctl \cup Uw7Ioctl, NEW junk \in Junk,
               TermGet(f, junk)
        PROVE  TermInv'
    <3>1. f \in Formats
      BY DEF Formats, Svr4Ioctl, ScoIoctl, Uw7Ioctl, BsdIoctlTermios
    <3>2. /\ tcopy' = [format |-> f, data |-> Read(f, tty, junk)]
          /\ saved' = tty /\ termDone' = "got" /\ tty' = tty
      BY <2>1 DEF TermGet
    <3>3. Holds(f, junk)'
      BY <3>2 DEF Holds
    <3>4. Near(f, saved', tty')
      BY <2>0, <3>2, NearAtFirst
    <3> QED
      BY <2>0, <3>1, <3>2, <3>3, <3>4 DEF TermInv, TerminalRestored
  <2>2. ASSUME TermRaw PROVE TermInv'
    <3>1. termDone = "got"
      BY <2>2 DEF TermRaw
    <3>2. PICK f \in Formats, junk \in Junk : Holds(f, junk) /\ Near(f, saved, tty)
      BY <3>1 DEF TermInv
    <3>3. PICK s : s = Read(f, saved, junk)
      OBVIOUS
    <3>4. tcopy.format = f /\ tcopy.data = s
      BY <3>2, <3>3 DEF Holds
    <3>5. /\ f \in RawFormats /\ tty' = Written(f, tty, RawCopy(f, s))
          /\ termDone' = "raw" /\ UNCHANGED <<tcopy, saved>>
      BY <2>2, <3>4 DEF TermRaw, RawCopy, RawFormats
    <3>6. Near(f, saved, tty')
      BY <2>0, <3>2, <3>3, <3>5, Round
    <3>7. Holds(f, junk)' /\ Near(f, saved', tty')
      BY <3>2, <3>5, <3>6 DEF Holds
    <3>8. IsTty(tty') /\ IsTty(saved')
      BY <2>0, <3>5, <3>6, NearIsTty
    <3> QED
      BY <3>5, <3>7, <3>8 DEF TermInv, TerminalRestored
  <2>3. ASSUME TermRestore PROVE TermInv'
    <3>1. termDone # "none"
      BY <2>3 DEF TermRestore
    <3>2. PICK f \in Formats, junk \in Junk : Holds(f, junk) /\ Near(f, saved, tty)
      BY <3>1 DEF TermInv
    <3>3. PICK s : s = Read(f, saved, junk)
      OBVIOUS
    <3>4. tcopy.format = f /\ tcopy.data = s
      BY <3>2, <3>3 DEF Holds
    <3>5. /\ tty' = Written(f, tty, s) /\ termDone' = "restored" /\ UNCHANGED <<tcopy, saved>>
      BY <2>3, <3>4 DEF TermRestore
    <3>6. Near(f, saved, tty') /\ Restored(f, saved, tty')
      BY <2>0, <3>2, <3>3, <3>5, Round
    <3>7. Holds(f, junk)' /\ Near(f, saved', tty')
      BY <3>2, <3>5, <3>6 DEF Holds
    <3>8. IsTty(tty') /\ IsTty(saved')
      BY <2>0, <3>5, <3>6, NearIsTty
    <3>9. TerminalRestored'
      BY <3>4, <3>5, <3>6 DEF TerminalRestored, Restored
    <3> QED
      BY <3>5, <3>7, <3>8, <3>9 DEF TermInv
  <2>4. ASSUME NEW on \in BOOLEAN, Tiocexcl(on) PROVE TermInv'
    <3>1. UNCHANGED <<tcopy, saved, termDone>> /\ tty' = [tty EXCEPT !.excl = on]
      BY <2>4 DEF Tiocexcl
    <3>2. /\ IsTty(tty') /\ tty'.cc = tty.cc /\ tty'.l = tty.l /\ tty'.c = tty.c
      BY <2>0, <3>1 DEF IsTty
    <3>3. \A f : Near(f, saved, tty) => Near(f, saved, tty')
      BY <3>2, NearAgain
    <3>4. TerminalRestored'
      BY <3>1, <3>2 DEF TermInv, TerminalRestored
    <3>5. \A f, junk : Holds(f, junk) => Holds(f, junk)'
      BY <3>1 DEF Holds
    <3> QED
      BY <2>0, <3>1, <3>2, <3>3, <3>4, <3>5 DEF TermInv
  <2>6. ASSUME NEW on \in BOOLEAN, Tiochpcl(on) PROVE TermInv'
    <3>1. termDone' = "none" /\ saved' = saved
      BY <2>6 DEF Tiochpcl
    <3>2. IsTty(tty')
      BY <2>0, <2>6 DEF Tiochpcl, IsTty
    <3> QED
      BY <2>0, <3>1, <3>2 DEF TermInv, TerminalRestored
  <2>5. CASE UNCHANGED terminalVars
    BY <2>5 DEF terminalVars, TermInv, TerminalRestored, Holds
  <2> QED
    BY <2>1, <2>2, <2>3, <2>4, <2>5, <2>6 DEF TerminalNext
<1>3. TermInv => TerminalRestored
  BY DEF TermInv
<1> QED
  BY <1>1, <1>2, <1>3, PTL DEF TerminalSpec
=============================================================================
