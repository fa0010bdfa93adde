------------------------------- MODULE Lcall -------------------------------
(***************************************************************************)
(* How the emulated program's system calls reach the emulator, and the     *)
(* signals that share the road: ibcs/sysent.c (lcall_sigsegv),             *)
(* ibcs/linux26-compat.c (linux26_rt_sigaction, the semaphores) and        *)
(* per-svr4/signal.c.                                                      *)
(*                                                                         *)
(* A system call is an lcall instruction.  It faults; the SIGSEGV handler  *)
(* lcall_sigsegv rewrites it into a call of the emulator and it is run     *)
(* again.  So SIGSEGV belongs to the emulator, which keeps what the        *)
(* program asked for in _linux26_sigtab and acts on it when the fault was  *)
(* a genuine one.  There is one lcall per system call: the stub in the     *)
(* program's library.                                                      *)
(*                                                                         *)
(* SEGV is SIGSEGV, USR any other signal the program uses.  lcall_sigsegv  *)
(* runs with all signals blocked and makes no call that waits: it is one   *)
(* step.  Everything else can be interrupted by USR between two steps.     *)
(***************************************************************************)
EXTENDS Integers, Sequences, FiniteSets

CONSTANT
    Programs    \* the programs that may be run

SEGV == "SIGSEGV"
USR == "SIGUSR"
Sig == {SEGV, USR}

(* A program: the system calls (and "fault") of its main part, those of    *)
(* its signal handlers ("longjmp" included), the signals it sets a handler *)
(* for and those it puts into a mask or may have inherited in one, the     *)
(* actions of SIGSEGV it may start with, and a bound on nested signal      *)
(* handlers.                                                               *)
ASSUME ProgramsAssumption ==
    \A p \in Programs :
        /\ p.handled \subseteq Sig /\ p.blocked \subseteq Sig
        /\ p.inherited \subseteq {"dfl", "ign"} /\ p.maxFrames \in Nat

(* struct sigaction.  "H" is a function of the program, "trap" is          *)
(* lcall_sigsegv; sysv stands for SA_ONESHOT | SA_NOMASK.  Fields: h,      *)
(* siginfo, mask, sysv.                                                    *)

(* Where the process is: in the program, at an instruction that faults,    *)
(* inside a system call holding or awaiting a semaphore, between the two   *)
(* halves of sigset(), or in sigsuspend() with the mask to go back to.     *)
User == <<"user">>
Faulting == <<"faulting">>
Held == <<"held">>
Waiting == <<"waiting">>
Unhold(sig) == <<"unhold", sig>>
Suspended(m) == <<"suspended", m>>

VARIABLES
    prog,       \* the program
    patched,    \* the lcalls already rewritten
    kact,       \* the kernel's action for each signal
    sigtab,     \* _linux26_sigtab[SIGSEGV]
    mask,       \* the kernel's mask of blocked signals
    pending,    \* USR was sent and not delivered
    pc,         \* where the process is
    frames,     \* the interrupted places below it, innermost first
    sem,        \* rw_semaphore_futex of uts_sem: 1 free, 0 taken
    status,     \* "running", or what killed the process
    asked,      \* the handler the program believes it has for each signal
    told        \* what a call last returned, and what it should have

vars == <<prog, patched, kact, sigtab, mask, pending, pc, frames, sem, status,
          asked, told>>
signals == <<kact, sigtab, asked, told>>

Plain(h) == [h |-> h, siginfo |-> FALSE, mask |-> {}, sysv |-> FALSE]
NoAnswer == [call |-> "none", res |-> "none", want |-> "none"]

(* What sysent_initialise installs.                                        *)
TrapAction == [h |-> "trap", siginfo |-> TRUE, mask |-> Sig, sysv |-> FALSE]

(* linux26_compat_init reads the inherited actions, sysent_initialise then *)
(* installs the trap.  The mask stays as it was inherited.                 *)
Init ==
    /\ prog \in Programs
    /\ \E h \in prog.inherited :
          /\ sigtab = Plain(h)
          /\ asked = [s \in Sig |-> IF s = SEGV THEN h ELSE "dfl"]
    /\ kact = [s \in Sig |-> IF s = SEGV THEN TrapAction ELSE Plain("dfl")]
    /\ patched = {}
    /\ mask \in SUBSET prog.blocked /\ pending = FALSE
    /\ pc = User /\ frames = <<>>
    /\ sem = 1
    /\ status = "running"
    /\ told = NoAnswer

Running == status = "running"
May(c) == Running /\ pc = User
             /\ c \in (IF frames = <<>> THEN prog.calls ELSE prog.handlers)
Enter(c) == May(c) /\ c \in patched

-----------------------------------------------------------------------------
(* lcall_sigsegv.  The kernel runs it unless SIGSEGV is blocked, in which  *)
(* case a fault kills the process whatever the action is.                  *)

Trapped == kact[SEGV].h = "trap" /\ SEGV \notin mask

LcallPatch(c) ==
    /\ May(c) /\ c \notin patched \cup {"fault", "longjmp"}
    /\ Trapped
    /\ patched' = patched \cup {c}
    /\ UNCHANGED <<mask, pending, pc, frames, sem, status, signals>>

LcallKill(c) ==
    /\ May(c) /\ c \notin patched \cup {"fault", "longjmp"}
    /\ ~Trapped
    /\ status' = "lcall"
    /\ UNCHANGED <<patched, mask, pending, pc, frames, sem, signals>>

(* The program comes to an instruction that really faults.                 *)
FaultStart ==
    /\ May("fault") /\ Len(frames) < prog.maxFrames
    /\ pc' = Faulting
    /\ UNCHANGED <<patched, mask, pending, frames, sem, status, signals>>

FaultKill ==
    /\ Running /\ pc = Faulting
    /\ ~Trapped
    /\ status' = "fault"
    /\ UNCHANGED <<patched, mask, pending, pc, frames, sem, signals>>

(* The program's handler is called from the trap, every signal blocked.    *)
FaultHandler ==
    /\ Running /\ pc = Faulting
    /\ Trapped /\ sigtab.h = "H"
    /\ frames' = <<[from |-> pc, saved |-> mask]>> \o frames
    /\ mask' = Sig
    /\ pc' = User
    /\ asked' = [asked EXCEPT ![SEGV] = IF sigtab.sysv THEN "dfl" ELSE @]
    /\ UNCHANGED <<patched, pending, sem, status, kact, sigtab, told>>

(* SA_SIGINFO is looked at first: SIG_DFL and SIG_IGN are called as        *)
(* functions at addresses 0 and 1, which faults with SIGSEGV blocked.      *)
FaultWild ==
    /\ Running /\ pc = Faulting
    /\ Trapped /\ sigtab.h # "H" /\ sigtab.siginfo
    /\ status' = "fault"
    /\ UNCHANGED <<patched, mask, pending, pc, frames, sem, signals>>

(* Mutant: the default action is not put back.                             *)
FaultReturnNoop ==
    /\ Running /\ pc = Faulting
    /\ Trapped /\ sigtab.h # "H" /\ ~sigtab.siginfo
    /\ UNCHANGED vars

(* SIG_IGN returns to the instruction, and so does SIG_DFL after it has    *)
(* put the default action back.                                            *)
FaultReturn ==
    /\ Running /\ pc = Faulting
    /\ Trapped /\ sigtab.h # "H" /\ ~sigtab.siginfo
    /\ kact' = IF sigtab.h = "ign" THEN kact ELSE [kact EXCEPT ![SEGV] = sigtab]
    /\ UNCHANGED <<patched, mask, pending, pc, frames, sem, status, sigtab,
                   asked, told>>

Fault == FaultKill \/ FaultHandler \/ FaultWild \/ FaultReturn
-----------------------------------------------------------------------------
(* The kernel: signals from outside, and the return from a handler.        *)

Post ==
    /\ Running
    /\ pending' = TRUE
    /\ UNCHANGED <<patched, mask, pc, frames, sem, status, signals>>

Deliverable == Running /\ pending /\ USR \notin mask

DeliverHandler ==
    LET suspended == pc[1] = "suspended"
        a == kact[USR]
    IN  /\ Deliverable /\ a.h = "H" /\ Len(frames) < prog.maxFrames
        /\ pending' = FALSE
        /\ frames' = <<[from |-> IF suspended THEN User ELSE pc,
                        saved |-> IF suspended THEN pc[2] ELSE mask]>> \o frames
        /\ mask' = mask \cup a.mask \cup (IF a.sysv THEN {} ELSE {USR})
        /\ pc' = User
        /\ kact' = [kact EXCEPT ![USR].h = IF a.sysv THEN "dfl" ELSE @]
        /\ asked' = [asked EXCEPT ![USR] = IF a.sysv THEN "dfl" ELSE @]
        /\ UNCHANGED <<patched, sem, status, sigtab, told>>

DeliverDefault ==
    /\ Deliverable /\ kact[USR].h # "H"
    /\ pending' = FALSE
    /\ status' = IF kact[USR].h = "ign" THEN status ELSE "signal"
    /\ UNCHANGED <<patched, mask, pc, frames, sem, signals>>

(* sigreturn.  A SIGSEGV handler may have mended what faulted.             *)
HandlerReturn ==
    /\ Running /\ pc = User /\ frames # <<>>
    /\ frames' = Tail(frames)
    /\ mask' = Head(frames).saved
    /\ \/ pc' = Head(frames).from
       \/ pc' = User /\ Head(frames).from = Faulting
    /\ UNCHANGED <<patched, pending, sem, status, signals>>

Longjmp ==
    /\ May("longjmp") /\ frames # <<>>
    /\ frames' = Tail(frames)
    /\ UNCHANGED <<patched, mask, pending, pc, sem, status, signals>>
-----------------------------------------------------------------------------
(* Mutants of linux26_rt_sigaction: SIGSEGV gets to the kernel; the old    *)
(* action is read after it has been overwritten.                           *)
RtSigactionOverride(sig, a) ==
    /\ kact' = [kact EXCEPT ![sig] = a]
    /\ sigtab' = IF sig = SEGV THEN a ELSE sigtab
    /\ told' = [call |-> "handler", want |-> asked[sig], res |-> asked[sig]]
    /\ asked' = [asked EXCEPT ![sig] = a.h]
RtSigactionLate(sig, a) ==
    /\ kact' = IF sig = SEGV THEN kact ELSE [kact EXCEPT ![sig] = a]
    /\ sigtab' = IF sig = SEGV THEN a ELSE sigtab
    /\ told' = [call |-> "handler", want |-> asked[sig],
                res |-> IF sig = SEGV THEN a.h ELSE kact[sig].h]
    /\ asked' = [asked EXCEPT ![sig] = a.h]

(* linux26_rt_sigaction: SIGSEGV stops at the table.  The table's other    *)
(* entries are written and never read; they are left out.                  *)
RtSigaction(sig, a) ==
    /\ kact' = IF sig = SEGV THEN kact ELSE [kact EXCEPT ![sig] = a]
    /\ sigtab' = IF sig = SEGV THEN a ELSE sigtab
    /\ told' = [call |-> "handler", want |-> asked[sig],
                res |-> IF sig = SEGV THEN sigtab.h ELSE kact[sig].h]
    /\ asked' = [asked EXCEPT ![sig] = a.h]

(* abi_sig_handler.                                                        *)
SigHandler(sig, h, oneshot) ==
    RtSigaction(sig, [h |-> h, siginfo |-> TRUE, mask |-> {}, sysv |-> oneshot])

AbiSignal(sig, h) ==
    /\ Enter("signal")
    /\ SigHandler(sig, h, TRUE)
    /\ UNCHANGED <<patched, mask, pending, pc, frames, sem, status>>

(* abi_sigset: the handler first, then the mask.                           *)
AbiSigset(sig, h) ==
    /\ Enter("sigset")
    /\ SigHandler(sig, h, FALSE)
    /\ pc' = Unhold(sig)
    /\ UNCHANGED <<patched, mask, pending, frames, sem, status>>

SigsetUnhold ==
    /\ Running /\ pc[1] = "unhold"
    /\ mask' = mask \ {pc[2]}
    /\ pc' = User
    /\ UNCHANGED <<patched, pending, frames, sem, status, signals>>

SetMask(m) ==
    /\ mask' = m
    /\ UNCHANGED <<patched, pending, pc, frames, sem, status, signals>>

(* abi_sighold, and abi_sigset with SIG_HOLD.                              *)
AbiSighold(sig) == Enter("sighold") /\ SetMask(mask \cup {sig})
AbiSigrelse(sig) == Enter("sigrelse") /\ SetMask(mask \ {sig})
AbiSigprocmask(set) ==
    /\ Enter("sigprocmask")
    /\ \E m \in {mask \cup set, mask \ set, set} : SetMask(m)

AbiSigignore(sig) ==
    /\ Enter("sigignore")
    /\ RtSigaction(sig, [Plain("ign") EXCEPT !.siginfo = TRUE])
    /\ UNCHANGED <<patched, mask, pending, pc, frames, sem, status>>

(* abi_sigaction.  SVR4_SA_RESETHAND and SVR4_SA_NODEFER are set together  *)
(* or not at all, as a call of its own so that a run can leave it out.     *)
AbiSigaction(sig, h, set) ==
    /\ \E sysv \in BOOLEAN :
          /\ Enter(IF sysv THEN "sigaction_sysv" ELSE "sigaction")
          /\ RtSigaction(sig, [h |-> h, siginfo |-> TRUE, mask |-> set,
                               sysv |-> sysv])
    /\ UNCHANGED <<patched, mask, pending, pc, frames, sem, status>>

(* abi_sigpause hands rt_sigsuspend the mask where the kernel wants its    *)
(* address, and no size: the kernel refuses.                               *)
AbiSigpause(sig) ==
    /\ Enter("sigpause")
    /\ told' = NoAnswer
    /\ UNCHANGED <<patched, kact, sigtab, mask, pending, pc, frames, sem,
                   status, asked>>

AbiSigsuspend(set) ==
    /\ Enter("sigsuspend")
    /\ pc' = Suspended(mask)
    /\ mask' = set
    /\ UNCHANGED <<patched, pending, frames, sem, status, signals>>

(* A system call that takes a semaphore: uname() and uts_sem.  When it is  *)
(* taken, the holder is further down this very stack, so the futex wait    *)
(* has nobody to end it.                                                   *)
DownRead ==
    /\ Enter("uname")
    /\ IF sem = 1 THEN sem' = 0 /\ pc' = Held
                  ELSE sem' = sem /\ pc' = Waiting
    /\ UNCHANGED <<patched, mask, pending, frames, status, signals>>

(* Mutant: an early return skips up_read.                                  *)
UpReadSkipped ==
    /\ Running /\ pc = Held
    /\ pc' = User
    /\ UNCHANGED <<patched, mask, pending, frames, sem, status, signals>>

UpRead ==
    /\ Running /\ pc = Held
    /\ sem' = 1
    /\ pc' = User
    /\ UNCHANGED <<patched, mask, pending, frames, status, signals>>

Ended == ~Running /\ UNCHANGED vars

Handler == {"dfl", "ign", "H"}

Step ==
    \/ \E c \in prog.calls \cup prog.handlers : LcallPatch(c) \/ LcallKill(c)
    \/ FaultStart \/ Fault
    \/ Post \/ DeliverHandler \/ DeliverDefault \/ HandlerReturn \/ Longjmp
    \/ \E sig \in prog.handled :
          \/ AbiSigignore(sig)
          \/ \E h \in Handler : AbiSignal(sig, h) \/ AbiSigset(sig, h)
          \/ \E h \in Handler, set \in SUBSET prog.blocked :
                AbiSigaction(sig, h, set)
    \/ SigsetUnhold
    \/ \E sig \in prog.blocked :
          AbiSighold(sig) \/ AbiSigrelse(sig) \/ AbiSigpause(sig)
    \/ \E set \in SUBSET prog.blocked : AbiSigprocmask(set) \/ AbiSigsuspend(set)
    \/ DownRead \/ UpRead
    \/ Ended

Next == Step /\ UNCHANGED prog

Spec == Init /\ [][Next]_vars

(* The processor executes the faulting instruction again, and the kernel   *)
(* acts on the fault, for as long as the process is there.                 *)
FairSpec == Spec /\ WF_vars(Fault /\ UNCHANGED prog)
-----------------------------------------------------------------------------
(* The program can fault genuinely; it asks for one-shot SIGSEGV handlers. *)
Faults == "fault" \in prog.calls \cup prog.handlers
OneShotSegv ==
    /\ SEGV \in prog.handled
    /\ {"signal", "sigaction_sysv"} \cap (prog.calls \cup prog.handlers) # {}

(* A system call never kills the process: "lcall's causing a SIGSEGV" are  *)
(* patched and the program is restarted (sysent.c:422-432), whatever the   *)
(* program did to its signals before; it may not block SIGSEGV, be started *)
(* with it blocked, or go on after a genuine fault.                        *)
LcallNeverKills ==
    SEGV \notin prog.blocked /\ ~Faults => status # "lcall"

(* "The emulated program can't be allowed to override the SIGSEGV          *)
(* sigaction() it installed" (linux26-compat.c:1772): the trap goes only   *)
(* when a genuine fault meets the default action.                          *)
TrapStays ==
    [][kact'[SEGV] # kact[SEGV] =>
          pc = Faulting /\ sigtab.h = "dfl" /\ ~sigtab.siginfo]_vars

(* signal(), sigset() and sigaction() return the handler that was in       *)
(* force, SIGSEGV's from the table and the others' from the kernel.  Not   *)
(* so after a genuine fault was given to a one-shot SIGSEGV handler: the   *)
(* table keeps what the kernel would have reset.                           *)
OldactTruthful ==
    ~(Faults /\ OneShotSegv) /\ told.call = "handler" => told.res = told.want

(* SIGSEGV is ignored because it was when the emulator was started, and    *)
(* the program never set it.                                               *)
IgnoredFromStart == sigtab.h = "ign" /\ ~sigtab.siginfo

(* A genuine fault ends the process or gets to the program's handler: the  *)
(* trap does not return to the faulting instruction for ever.  It does     *)
(* when SIGSEGV was inherited ignored (sysent.c:471): lcall_sigsegv then   *)
(* does nothing at all, where the kernel would have ended the process.     *)
FaultEnds ==
    (Running /\ pc = Faulting /\ ~IgnoredFromStart) ~> (~Running \/ pc # Faulting)

(* The semaphore is taken exactly while one system call, running or        *)
(* interrupted, holds it, and none waits for it, as the one holding it     *)
(* would be below it on the same stack.  Handlers that make a call that    *)
(* takes it, or leave by longjmp, do block for ever.                       *)
SemHeldByOne ==
    {"uname", "longjmp"} \cap prog.handlers = {} =>
        /\ 1 - sem = (IF pc = Held THEN 1 ELSE 0)
                     + Cardinality({i \in DOMAIN frames : frames[i].from = Held})
        /\ pc # Waiting
=============================================================================
