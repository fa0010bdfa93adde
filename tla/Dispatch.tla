------------------------------ MODULE Dispatch ------------------------------
(***************************************************************************)
(* From the trapped call to its handler and back: the lcall7 handlers of   *)
(* the personalities, their sub-tables, the indirect call syscall(2)       *)
(* (lcall7_syscall) and lcall7_dispatch, both in ibcs/sysent.c.            *)
(*                                                                         *)
(* The program leaves a number in AX and its arguments on its stack, from  *)
(* one word above the stack pointer on.  syscall(2), and sysisc, take the  *)
(* number of the real call from there; cxenix and Wyse's classes take it   *)
(* from the second byte of AX.  What a handler does is not modelled here:  *)
(* it fails with some Linux error, or it does not.                         *)
(***************************************************************************)
EXTENDS Personality

CONSTANTS
    MaxDepth,       \* how often a syscall(2) may name itself
    Subs,           \* the numbers used with a sub-table
    Errnos          \* Linux errors a handler may fail with

ASSUME DispatchAssumption ==
    MaxDepth \in Nat /\ Subs \subseteq Nat /\ Errnos \subseteq Nat \ {0}

VARIABLES
    pers,       \* the personality of the program
    pc,         \* where the emulator is
    regs,       \* AX, the carry flag, and SP in words from where it was
    pending,    \* calls of lcall7_syscall that are not over
    entry,      \* the table entry being dispatched
    off,        \* where its arguments start, from SP
    call,       \* what the program asked for: see Trap
    error       \* the Linux error the call failed with, or 0

dispatchVars == <<pers, pc, regs, pending, entry, off, call, error>>

NoEntry == [handler |-> "none", nargs |-> 0]
NoCall == [depth |-> 0, code |-> 0, sub |-> 0]

DispatchInit ==
    /\ pers \in Personalities /\ pc = "user"
    /\ regs = [ax |-> 0, carry |-> FALSE, sp |-> 0]
    /\ pending = 0 /\ entry = NoEntry /\ off = 0
    /\ call = NoCall /\ error = 0
-----------------------------------------------------------------------------
(* The words above the return address: the numbers syscall(2) is to call,  *)
(* then the call's own arguments; only the first is ever a number.         *)
Word(i) ==
    CASE i < call.depth -> 0
      [] i = call.depth -> call.code
      [] i = call.depth + 1 -> call.sub
      [] OTHER -> 0

(* The program traps: number code, through depth calls of syscall(2).      *)
Trap(code, depth, sub) ==
    /\ pc = "user"
    /\ call' = [depth |-> depth, code |-> code + 256 * sub, sub |-> sub]
    /\ regs' = [regs EXCEPT !.ax = IF depth = 0 THEN code + 256 * sub ELSE 0]
    /\ pc' = "handler" /\ error' = 0
    /\ UNCHANGED <<pers, pending, entry, off>>

(* set_error and, back in lcall7_syscall, the stack pointer.               *)
Fail(errno, mapped) ==
    /\ regs' = [regs EXCEPT !.ax = mapped, !.carry = TRUE]
    /\ error' = errno /\ pc' = "return"

(* Look a number up: beyond the table iABI_errors is given -EINVAL, which  *)
(* no map has.                                                             *)
LookUp(table, sysno, from) ==
    LET known == sysno \in DOMAIN Tables[table].calls
    IN  \/ /\ sysno >= Tables[table].size
           /\ Fail(EINVAL, IAbiErrors(pers, -EINVAL))
           /\ UNCHANGED <<pers, pending, entry, off, call>>
        \/ /\ sysno < Tables[table].size /\ known
           /\ entry' = Tables[table].calls[sysno] /\ off' = from
           /\ pc' = "dispatch"
           /\ UNCHANGED <<pers, regs, pending, call, error>>
        \/ /\ sysno < Tables[table].size /\ ~known
           /\ Fail(ENOSYS, IAbiErrors(pers, ENOSYS))
           /\ UNCHANGED <<pers, pending, entry, off, call>>

(* isc_lcall7, sco_lcall7, solaris_lcall7, uw7_lcall7, wyse_lcall7.        *)
Lcall7 == pc = "handler" /\ LookUp(pers, regs.ax % 256, 1)

InHandler(name) == pc = "regs" /\ entry.handler = name

(* lcall7_syscall, up to the call of the handler.                          *)
Lcall7Syscall ==
    /\ InHandler("abi_syscall")
    /\ regs' = [regs EXCEPT !.ax = Word(regs.sp + 1), !.sp = regs.sp + 1]
    /\ pending' = pending + 1 /\ pc' = "handler"
    /\ UNCHANGED <<pers, entry, off, call, error>>

(* lcall7_syscall, after it.                                               *)
Lcall7SyscallReturn ==
    /\ pc = "return" /\ pending > 0
    /\ regs' = [regs EXCEPT !.sp = regs.sp - 1]
    /\ pending' = pending - 1
    /\ UNCHANGED <<pers, pc, entry, off, call, error>>

(* Mutant: sysisc passes its sub-number on as the first argument.          *)
IscSysiscOff1 == InHandler("isc_sysisc") /\ LookUp("sysisc", Word(regs.sp + 1), 1)

Cxenix == InHandler("cxenix") /\ LookUp("cxenix", (regs.ax % 65536) \div 256, 1)
IscSysisc == InHandler("isc_sysisc") /\ LookUp("sysisc", Word(regs.sp + 1), 2)
WyseClassTcp == InHandler("wyse_class_tcp") /\ LookUp("tcp", regs.ax \div 256, 1)
WyseClassNfs == InHandler("wyse_class_nfs") /\ LookUp("nfs", regs.ax \div 256, 1)
-----------------------------------------------------------------------------
(* lcall7_dispatch: by the entry's convention, the handler is called with  *)
(* words of the stack ("args") or with the registers ("regs"), or not.     *)
Lcall7Dispatch ==
    /\ pc = "dispatch"
    /\ \/ entry.nargs <= 6 /\ pc' = "args" /\ UNCHANGED <<regs, error>>
       \/ entry.nargs \in {Fast, Spl} /\ pc' = "regs" /\ UNCHANGED <<regs, error>>
       \/ /\ entry.nargs > 6 /\ entry.nargs \notin {Fast, Spl}
          /\ Fail(ENOSYS, IAbiErrors(pers, ENOSYS))
    /\ UNCHANGED <<pers, pending, entry, off, call>>

Nested == {"abi_syscall", "cxenix", "isc_sysisc", "wyse_class_tcp", "wyse_class_nfs"}

(* Mutant: success does not clear the carry flag.                          *)
ReturnsKeepsCarry ==
    /\ pc \in {"args", "regs"} /\ (pc = "regs" => entry.handler \notin Nested)
    /\ \/ \E e \in Errnos : Fail(e, IAbiErrors(pers, e))
       \/ /\ regs' = [regs EXCEPT !.ax = 0]
          /\ error' = 0 /\ pc' = "return"
    /\ UNCHANGED <<pers, pending, entry, off, call>>

(* The handler returns: an error, or a result.  A Fast handler sets the    *)
(* registers in the same way itself.                                       *)
Returns ==
    /\ pc \in {"args", "regs"} /\ (pc = "regs" => entry.handler \notin Nested)
    /\ \/ \E e \in Errnos : Fail(e, IAbiErrors(pers, e))
       \/ /\ regs' = [regs EXCEPT !.ax = 0, !.carry = FALSE]
          /\ error' = 0 /\ pc' = "return"
    /\ UNCHANGED <<pers, pending, entry, off, call>>

(* Back in the program, which may trap again.                              *)
Resume ==
    /\ pc = "return" /\ pending = 0
    /\ pc' = "user" /\ call' = NoCall /\ entry' = NoEntry /\ off' = 0
    /\ UNCHANGED <<pers, regs, pending, error>>

DispatchNext ==
    \/ \E code \in 1 .. 255, depth \in 0 .. MaxDepth : Trap(code, depth, 0)
    \/ \E code \in {40, 48, 105, 131, 132}, depth \in 0 .. MaxDepth,
          sub \in Subs : Trap(code, depth, sub)
    \/ Lcall7 \/ Lcall7Syscall \/ Lcall7SyscallReturn
    \/ Cxenix \/ IscSysisc \/ WyseClassTcp \/ WyseClassNfs
    \/ Lcall7Dispatch \/ Returns \/ Resume

DispatchSpec == DispatchInit /\ [][DispatchNext]_dispatchVars
-----------------------------------------------------------------------------
(* Entries whose convention is not that of their handler: get/putpmsg want *)
(* the registers and are given the first argument in their place; and a    *)
(* sigsuspend through sysisc reads sysisc's own number as its mask.        *)
Misfits == {"svr4_getpmsg", "svr4_putpmsg"}

(* The first parameter a handler reads is the program's first argument, by *)
(* whichever tables and through however many syscall(2) it was reached, in *)
(* every personality: the offset lcall7_dispatch is given, the stack       *)
(* pointer lcall7_syscall moves, and the handler's own convention agree.   *)
(* However deeply the calls were nested and wherever they failed, the      *)
(* program continues with its own stack pointer.                           *)
StackKept ==
    LET first == call.depth + 1 + IF pers = "isc" /\ call.code % 256 = 105
                                  THEN 1 ELSE 0
    IN  /\ pc = "args" /\ entry.nargs # Linux =>
              entry.handler \notin TakesRegs \ Misfits
        /\ pc = "args" => regs.sp + off = first
        /\ pc = "regs" => entry.handler \in TakesRegs
        /\ pc = "regs" /\ entry.handler \notin Nested =>
              regs.sp + 1 = first \/ entry.handler = "abi_sigsuspend"
        /\ pc = "user" => regs.sp = 0 /\ pending = 0

(* The program sees the carry flag exactly when its call failed, with a    *)
(* number that is EPERM only for EPERM, for an error no table has, and for *)
(* a number beyond the table; an interrupted call is always EINTR.         *)
ErrorReported ==
    pc = "user" =>
        /\ regs.carry <=> error # 0
        /\ regs.carry /\ regs.ax = EPERM =>
              error \in {EPERM, EINVAL} \/ (error > 122 /\ error \notin 512 .. 514)
        /\ error \in {EINTR, 512, 513, 514} => regs.ax = EINTR
=============================================================================
