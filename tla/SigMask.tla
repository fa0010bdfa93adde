------------------------------- MODULE SigMask -------------------------------
(***************************************************************************)
(* Signals by number: what the program blocks, handles and is told, in its *)
(* numbers, against what Linux does, in Linux's: abi_sigprocmask,          *)
(* abi_sigaction and xnx_sigaction, abi_kill, the pending set of           *)
(* xnx_sigpending, the handler's argument and the status of abi_wait,      *)
(* svr4_waitid and wyse_wait3.  How signals interrupt the calls is in      *)
(* Lcall.                                                                  *)
(***************************************************************************)
EXTENDS Personality, FiniteSets

CONSTANTS
    Signals,        \* the program's signals that are used
    MaxMasked       \* how many of them a mask may name

ASSUME SignalsAssumption == Signals \subseteq 1 .. 31 /\ MaxMasked \in Nat

LinuxSig == 1 .. 32
Unmaskable == {9, 19}       \* SIGKILL, SIGSTOP

VARIABLES
    sigpers,    \* the personality
    kmask,      \* the signals Linux blocks
    kpend,      \* the signals Linux holds pending
    khand,      \* for each signal of Linux, the signal the program last
                \* installed a handler for there, or 0
    asked,      \* the signals the program has blocked, to its knowledge
    sent,       \* the signals the program has sent itself while blocked
    told        \* what it was last told, by whom, and what it should be

sigmaskVars == <<sigpers, kmask, kpend, khand, asked, sent, told>>

Masks == {m \in SUBSET Signals : Cardinality(m) <= MaxMasked}
Nothing == [by |-> "none", set |-> {}, was |-> {}]
ToLinux(s) == SignalMap[sigpers][s]

SigMaskInit ==
    /\ sigpers \in Personalities
    /\ kmask = {} /\ kpend = {} /\ khand = [l \in LinuxSig |-> 0]
    /\ asked = {} /\ sent = {} /\ told = Nothing
-----------------------------------------------------------------------------
(* Mutant: the old mask is translated with the map for the other way.      *)
ProgramSetWrongWay(vec) == SigvecFromKernel(vec, SignalMap[sigpers])

ProgramSet(vec) == SigvecFromKernel(vec, SignalInvmap[sigpers])

(* howcnv: 0 and 3 set the mask, 1 blocks, 2 unblocks.  A call without a   *)
(* new set only reports.  Unblocked signals are delivered.                 *)
Sigprocmask(how, set) ==
    LET new == SigvecToKernel(set, SignalMap[sigpers])
        Apply(m, s) == CASE how \in {0, 3} -> s
                         [] how = 1 -> m \cup s
                         [] how = 2 -> m \ s
    IN  /\ told' = [by |-> "mask", set |-> ProgramSet(kmask), was |-> asked]
        /\ kmask' = Apply(kmask, new) \ Unmaskable
        /\ asked' = Apply(asked, set)
        /\ kpend' = kpend \cap kmask'
        /\ sent' = {s \in sent : ToLinux(s) \in kmask'}
        /\ UNCHANGED <<sigpers, khand>>

(* abi_sigaction refuses a signal Linux does not have, xnx_sigaction lets  *)
(* Linux refuse it; Linux refuses to handle what cannot be blocked.        *)
Sigaction(sig) ==
    /\ ToLinux(sig) \notin Unmaskable \cup {-1}
    /\ khand' = [khand EXCEPT ![ToLinux(sig)] = sig]
    /\ told' = Nothing
    /\ UNCHANGED <<sigpers, kmask, kpend, asked, sent>>

(* abi_kill of the process itself, for a signal it has blocked.            *)
Kill(sig) ==
    /\ ToLinux(sig) \in kmask
    /\ kpend' = kpend \cup {ToLinux(sig)}
    /\ sent' = sent \cup {sig}
    /\ told' = Nothing
    /\ UNCHANGED <<sigpers, kmask, khand, asked>>

(* Reached through cxenix, which only these tables have; svr4_sigpending,  *)
(* in the others, answers -EINVAL.                                         *)
XnxSigpending ==
    /\ sigpers \in {"sco", "xenix"}
    /\ told' = [by |-> "pending", set |-> ProgramSet(kpend), was |-> sent]
    /\ UNCHANGED <<sigpers, kmask, kpend, khand, asked, sent>>

(* A signal from outside: the handler was given to Linux as it is, and     *)
(* Linux calls it with its own number.                                     *)
Arrive(l) ==
    /\ l \notin kmask /\ khand[l] # 0
    /\ told' = [by |-> "handler", set |-> {l}, was |-> {khand[l]}]
    /\ UNCHANGED <<sigpers, kmask, kpend, khand, asked, sent>>

(* A child was killed, or stopped, by a signal the program sent it.  Xenix *)
(* wait() puts Linux's status in DX; the others, and wait3, use the map    *)
(* that leads to Linux's numbers once more.                                *)
Wait(sig) ==
    LET l == ToLinux(sig)
    IN  /\ l # -1
        /\ told' = [by |-> "wait", was |-> {sig},
                     set |-> {IF sigpers = "xenix" THEN l ELSE ToLinux(l)}]
        /\ UNCHANGED <<sigpers, kmask, kpend, khand, asked, sent>>

(* svr4_waitid maps back, but takes the number for a killed child from the *)
(* byte that holds a stopped one's: 0, which is no signal.                 *)
SvrWaitid(sig, stopped) ==
    LET l == ToLinux(sig)
    IN  /\ l # -1 /\ sigpers = "uw7"
        /\ told' = [by |-> "waitid", was |-> {sig},
                     set |-> IF stopped THEN ProgramSet({l}) ELSE {}]
        /\ UNCHANGED <<sigpers, kmask, kpend, khand, asked, sent>>

SigMaskNext ==
    \/ \E how \in 0 .. 3, set \in Masks : Sigprocmask(how, set)
    \/ \E sig \in Signals : Sigaction(sig) \/ Kill(sig) \/ Wait(sig)
    \/ \E sig \in Signals, stopped \in BOOLEAN : SvrWaitid(sig, stopped)
    \/ XnxSigpending
    \/ \E l \in LinuxSig : Arrive(l)

SigMaskSpec == SigMaskInit /\ [][SigMaskNext]_sigmaskVars
-----------------------------------------------------------------------------
(* The program's signals that share their Linux signal with no other.      *)
Own(s) == /\ ToLinux(s) \notin Unmaskable \cup {-1}
          /\ \A r \in 1 .. 31 : ToLinux(r) = ToLinux(s) => r = s

(* A signal with a Linux signal of its own comes back under its number: it *)
(* is reported blocked, or pending, exactly when the program has blocked,  *)
(* or sent, it.  (EMT, BUS and SYS share a signal in every personality but *)
(* SCO's, where IOT and EMT do.)                                           *)
SignalsKeepTheirNumber ==
    told.by \in {"mask", "pending"} =>
        \A s \in Signals : Own(s) => (s \in told.set <=> s \in told.was)
=============================================================================
