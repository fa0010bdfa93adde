---------------------------- MODULE LcallProofs ----------------------------
(***************************************************************************)
(* Proofs about Lcall for every set of programs: whatever system calls     *)
(* they make, in their main part and in their handlers, and however deep   *)
(* their signal handlers nest.                                             *)
(***************************************************************************)
EXTENDS Lcall, SequenceTheorems, FiniteSetTheorems, TLAPS

Action ==
    [h : Handler \cup {"trap"}, siginfo : BOOLEAN, mask : SUBSET Sig,
     sysv : BOOLEAN]
UserAction ==
    [h : Handler, siginfo : BOOLEAN, mask : SUBSET Sig, sysv : BOOLEAN]

(* Where a signal can find the process and bring it back to, and where the *)
(* process can be.                                                         *)
ReturnPlace == {User, Faulting, Held, Waiting} \cup {Unhold(s) : s \in Sig}
Place == ReturnPlace \cup {Suspended(m) : m \in SUBSET Sig}
Frame == [from : ReturnPlace, saved : SUBSET Sig]

(* Every variable of Lcall holds a value of its kind; the table's entry    *)
(* for SIGSEGV and the actions of the other signals are the program's.     *)
TypeOK ==
    /\ prog \in Programs
    /\ kact \in [Sig -> Action] /\ kact[USR] \in UserAction
    /\ sigtab \in UserAction
    /\ mask \in SUBSET Sig
    /\ pending \in BOOLEAN
    /\ pc \in Place
    /\ frames \in Seq(Frame)
    /\ sem \in {0, 1}
    /\ status \in {"running", "lcall", "fault", "signal"}
    /\ asked \in [Sig -> Handler]

-----------------------------------------------------------------------------
(* The places are different from each other, whatever they carry.          *)
LEMMA PlacesDiffer ==
    ASSUME NEW p \in Place
    PROVE  /\ Faulting # User /\ Held # User /\ Waiting # User
           /\ Held # Faulting /\ Waiting # Faulting /\ Held # Waiting
           /\ \A s : Unhold(s) \notin {User, Faulting, Held, Waiting}
           /\ \A m : Suspended(m) \notin {User, Faulting, Held, Waiting}
           /\ p[1] = "unhold" => p \in {Unhold(s) : s \in Sig} /\ p[2] \in Sig
           /\ p[1] = "suspended" => p[2] \in SUBSET Sig
           /\ p[1] # "suspended" => p \in ReturnPlace
<1>1. /\ User[1] = "user" /\ Faulting[1] = "faulting" /\ Held[1] = "held"
      /\ Waiting[1] = "waiting"
      /\ \A s : Unhold(s)[1] = "unhold" /\ Unhold(s)[2] = s
      /\ \A m : Suspended(m)[1] = "suspended" /\ Suspended(m)[2] = m
  BY DEF User, Faulting, Held, Waiting, Unhold, Suspended
<1> QED
  BY <1>1 DEF Place, ReturnPlace

(* An interrupted place is put on top of the others.                       *)
LEMMA Pushed ==
    ASSUME NEW fs \in Seq(Frame), NEW f \in Frame
    PROVE  LET gs == <<f>> \o fs IN
           /\ gs \in Seq(Frame)
           /\ gs # <<>>
           /\ Len(gs) = Len(fs) + 1
           /\ gs[1] = f
           /\ \A i \in 2..Len(gs) : gs[i] = fs[i - 1]
           /\ DOMAIN gs = 1..Len(gs)
<1>1. <<f>> \in Seq(Frame) /\ Len(<<f>>) = 1 /\ <<f>>[1] = f
  OBVIOUS
<1>2. /\ Len(<<f>> \o fs) = 1 + Len(fs) /\ <<f>> \o fs \in Seq(Frame)
      /\ \A i \in 1..(1 + Len(fs)) :
            (<<f>> \o fs)[i] = IF i <= 1 THEN <<f>>[i] ELSE fs[i - 1]
  BY <1>1, ConcatProperties
<1>3. Len(fs) \in Nat
  BY LenProperties
<1>4. \A gs \in Seq(Frame) : DOMAIN gs = 1..Len(gs) /\ (gs = <<>> => Len(gs) = 0)
  BY LenProperties
<1> QED
  BY <1>1, <1>2, <1>3, <1>4

(* The innermost interrupted place is gone back to.                        *)
LEMMA Popped ==
    ASSUME NEW fs \in Seq(Frame), fs # <<>>
    PROVE  /\ Tail(fs) \in Seq(Frame)
           /\ Head(fs) = fs[1] /\ fs[1] \in Frame
           /\ Len(fs) \in Nat \ {0} /\ Len(Tail(fs)) = Len(fs) - 1
           /\ \A i \in 1..(Len(fs) - 1) : Tail(fs)[i] = fs[i + 1]
           /\ DOMAIN Tail(fs) = 1..(Len(fs) - 1)
           /\ Len(fs) = 1 => Tail(fs) = <<>>
<1>1. Tail(fs) \in Seq(Frame) /\ Head(fs) \in Frame /\ Len(Tail(fs)) = Len(fs) - 1
      /\ \A i \in 1..Len(Tail(fs)) : Tail(fs)[i] = fs[i + 1]
  BY HeadTailProperties
<1>2. \A gs \in Seq(Frame) : /\ Len(gs) \in Nat /\ DOMAIN gs = 1..Len(gs)
                             /\ Len(gs) = 0 <=> gs = <<>>
  BY LenProperties, EmptySeq
<1>3. Head(fs) = fs[1]
  OBVIOUS
<1> QED
  BY <1>1, <1>2, <1>3

(* linux26_rt_sigaction keeps the types, and SIGSEGV's action.             *)
LEMMA RtSigactionKeeps ==
    ASSUME TypeOK, NEW sig \in Sig, NEW a \in UserAction, RtSigaction(sig, a)
    PROVE  /\ kact' \in [Sig -> Action] /\ kact'[USR] \in UserAction
           /\ kact'[SEGV] = kact[SEGV]
           /\ sigtab' \in UserAction
           /\ asked' \in [Sig -> Handler]
<1>1. SEGV \in Sig /\ USR \in Sig /\ SEGV # USR /\ Sig = {SEGV, USR}
  BY DEF Sig, SEGV, USR
<1>2. a \in Action /\ a.h \in Handler
  BY DEF Action, UserAction
<1>3. CASE sig = SEGV
  BY <1>1, <1>2, <1>3 DEF RtSigaction, TypeOK
<1>4. CASE sig = USR
  BY <1>1, <1>2, <1>4 DEF RtSigaction, TypeOK
<1> QED
  BY <1>1, <1>3, <1>4

(* The actions signal(), sigset(), sigignore() and sigaction() ask for.    *)
LEMMA AskedActions ==
    ASSUME NEW h \in Handler, NEW set \in SUBSET Sig, NEW sysv \in BOOLEAN
    PROVE  /\ [h |-> h, siginfo |-> TRUE, mask |-> set, sysv |-> sysv]
                 \in UserAction
           /\ [h |-> h, siginfo |-> TRUE, mask |-> {}, sysv |-> sysv]
                 \in UserAction
           /\ Plain(h) \in UserAction
           /\ [Plain("ign") EXCEPT !.siginfo = TRUE] \in UserAction
<1>1. Plain("ign") = [h |-> "ign", siginfo |-> FALSE, mask |-> {}, sysv |-> FALSE]
  BY DEF Plain
<1>2. "ign" \in Handler
  BY DEF Handler
<1> QED
  BY <1>1, <1>2 DEF UserAction, Plain

(* signal(), sigset(), sigignore() and sigaction() in one: what they have  *)
(* in common is a call of linux26_rt_sigaction.                            *)
SigactionStep ==
    \E sig \in prog.handled :
       \/ AbiSigignore(sig)
       \/ \E h \in Handler : AbiSignal(sig, h) \/ AbiSigset(sig, h)
       \/ \E h \in Handler, set \in SUBSET prog.blocked :
             AbiSigaction(sig, h, set)

(* Such a call has pc and the one action to set, and leaves the rest alone. *)
LEMMA SigactionEffect ==
    ASSUME TypeOK, SigactionStep
    PROVE  \E sig \in prog.handled, a \in UserAction :
              /\ RtSigaction(sig, a)
              /\ a.mask \subseteq prog.blocked
              /\ a.sysv => {"signal", "sigaction_sysv"}
                              \cap (prog.calls \cup prog.handlers) # {}
              /\ pc = User /\ pc' \in {User, Unhold(sig)}
              /\ UNCHANGED <<patched, mask, pending, frames, sem, status>>
<1>0. PICK sig \in prog.handled :
         \/ AbiSigignore(sig)
         \/ \E h \in Handler : AbiSignal(sig, h) \/ AbiSigset(sig, h)
         \/ \E h \in Handler, set \in SUBSET prog.blocked :
               AbiSigaction(sig, h, set)
  BY DEF SigactionStep
<1>1. prog.handled \subseteq Sig /\ prog.blocked \subseteq Sig
  BY ProgramsAssumption DEF TypeOK
<1>2. CASE AbiSigignore(sig)
  <2> DEFINE a == [Plain("ign") EXCEPT !.siginfo = TRUE]
  <2>1. a \in UserAction
    BY AskedActions DEF Handler
  <2>2. a.mask = {} /\ a.sysv = FALSE
    BY DEF Plain
  <2>3. RtSigaction(sig, a) /\ pc = User /\ pc' = User
        /\ UNCHANGED <<patched, mask, pending, frames, sem, status>>
    BY <1>2 DEF AbiSigignore, Enter, May
  <2> HIDE DEF a
  <2> QED
    BY <2>1, <2>2, <2>3
<1>3. ASSUME NEW h \in Handler, AbiSignal(sig, h) \/ AbiSigset(sig, h)
      PROVE  \E o \in BOOLEAN :
                /\ RtSigaction(sig, [h |-> h, siginfo |-> TRUE, mask |-> {},
                                     sysv |-> o])
                /\ o => "signal" \in prog.calls \cup prog.handlers
                /\ pc = User /\ pc' \in {User, Unhold(sig)}
                /\ UNCHANGED <<patched, mask, pending, frames, sem, status>>
  BY <1>3 DEF AbiSignal, AbiSigset, SigHandler, Enter, May
<1>4. ASSUME NEW h \in Handler, NEW set \in SUBSET prog.blocked,
             AbiSigaction(sig, h, set)
      PROVE  \E o \in BOOLEAN :
                /\ RtSigaction(sig, [h |-> h, siginfo |-> TRUE, mask |-> set,
                                     sysv |-> o])
                /\ o => "sigaction_sysv" \in prog.calls \cup prog.handlers
                /\ pc = User /\ pc' \in {User, Unhold(sig)}
                /\ UNCHANGED <<patched, mask, pending, frames, sem, status>>
  BY <1>4 DEF AbiSigaction, Enter, May
<1>5. ASSUME NEW h \in Handler, NEW set \in SUBSET Sig, NEW o \in BOOLEAN
      PROVE  LET a == [h |-> h, siginfo |-> TRUE, mask |-> set, sysv |-> o]
             IN  a \in UserAction /\ a.mask = set /\ a.sysv = o
  BY <1>5, AskedActions
<1>6. CASE \E h \in Handler : AbiSignal(sig, h) \/ AbiSigset(sig, h)
  <2>1. PICK h \in Handler, o \in BOOLEAN :
           /\ RtSigaction(sig, [h |-> h, siginfo |-> TRUE, mask |-> {},
                                sysv |-> o])
           /\ o => "signal" \in prog.calls \cup prog.handlers
           /\ pc = User /\ pc' \in {User, Unhold(sig)}
           /\ UNCHANGED <<patched, mask, pending, frames, sem, status>>
    BY <1>3, <1>6
  <2> DEFINE a == [h |-> h, siginfo |-> TRUE, mask |-> {}, sysv |-> o]
  <2>2. a \in UserAction /\ a.mask = {} /\ a.sysv = o
    BY <1>5
  <2>3. RtSigaction(sig, a)
    BY <2>1
  <2> HIDE DEF a
  <2> QED
    BY <2>1, <2>2, <2>3
<1>7. CASE \E h \in Handler, set \in SUBSET prog.blocked : AbiSigaction(sig, h, set)
  <2>1. PICK h \in Handler, set \in SUBSET prog.blocked, o \in BOOLEAN :
           /\ RtSigaction(sig, [h |-> h, siginfo |-> TRUE, mask |-> set,
                                sysv |-> o])
           /\ o => "sigaction_sysv" \in prog.calls \cup prog.handlers
           /\ pc = User /\ pc' \in {User, Unhold(sig)}
           /\ UNCHANGED <<patched, mask, pending, frames, sem, status>>
    BY <1>4, <1>7
  <2> DEFINE a == [h |-> h, siginfo |-> TRUE, mask |-> set, sysv |-> o]
  <2>2. a \in UserAction /\ a.mask = set /\ a.sysv = o
    BY <1>1, <1>5
  <2>3. RtSigaction(sig, a)
    BY <2>1
  <2> HIDE DEF a
  <2> QED
    BY <2>1, <2>2, <2>3
<1> QED
  BY <1>0, <1>2, <1>6, <1>7

(* The types hold at the start.                                            *)
LEMMA InitTypeOK == Init => TypeOK
<1> SUFFICES ASSUME Init PROVE TypeOK
  OBVIOUS
<1>1. SEGV \in Sig /\ USR \in Sig /\ SEGV # USR /\ Sig = {SEGV, USR}
  BY DEF Sig, SEGV, USR
<1>2. prog \in Programs /\ prog.inherited \subseteq {"dfl", "ign"}
  BY ProgramsAssumption DEF Init
<1>3. \A h \in Handler : Plain(h) \in UserAction
  BY AskedActions
<1>4. UserAction \subseteq Action /\ TrapAction \in Action
  BY DEF UserAction, Action, TrapAction
<1>5. PICK h \in prog.inherited :
          sigtab = Plain(h) /\ asked = [s \in Sig |-> IF s = SEGV THEN h ELSE "dfl"]
  BY DEF Init
<1>6. h \in Handler /\ "dfl" \in Handler
  BY <1>2 DEF Handler
<1>7. sigtab \in UserAction /\ asked \in [Sig -> Handler]
  BY <1>3, <1>5, <1>6
<1>8. kact \in [Sig -> Action] /\ kact[USR] \in UserAction
  <2>1. kact = [s \in Sig |-> IF s = SEGV THEN TrapAction ELSE Plain("dfl")]
    BY DEF Init
  <2>2. Plain("dfl") \in UserAction
    BY <1>3, <1>6
  <2> QED
    BY <2>1, <2>2, <1>1, <1>4
<1>9. pc \in Place /\ frames \in Seq(Frame)
  BY EmptySeq DEF Init, Place, ReturnPlace
<1>10. mask \subseteq Sig
  BY ProgramsAssumption DEF Init
<1> QED
  BY <1>2, <1>7, <1>8, <1>9, <1>10 DEF Init, TypeOK

(* Every step keeps the types.                                             *)
LEMMA NextTypeOK == TypeOK /\ [Next]_vars => TypeOK'
<1> SUFFICES ASSUME TypeOK, [Next]_vars PROVE TypeOK'
  OBVIOUS
<1>1. SEGV \in Sig /\ USR \in Sig /\ SEGV # USR /\ Sig = {SEGV, USR}
  BY DEF Sig, SEGV, USR
<1>2. prog.handled \subseteq Sig /\ prog.blocked \subseteq Sig
  BY ProgramsAssumption DEF TypeOK
<1>3. UNCHANGED vars => TypeOK'
  BY DEF vars, TypeOK
<1> SUFFICES ASSUME Step, UNCHANGED prog PROVE TypeOK'
  BY <1>3 DEF Next
<1> USE DEF signals
<1>4. ASSUME NEW c, LcallPatch(c) \/ LcallKill(c) PROVE TypeOK'
  BY <1>4 DEF LcallPatch, LcallKill, TypeOK
<1>5. CASE FaultStart
  BY <1>5 DEF FaultStart, TypeOK, Place, ReturnPlace
<1>6. CASE FaultKill \/ FaultWild
  BY <1>6 DEF FaultKill, FaultWild, TypeOK
<1>7. CASE FaultHandler
  <2>1. [from |-> pc, saved |-> mask] \in Frame
    BY <1>7 DEF FaultHandler, TypeOK, Frame, ReturnPlace
  <2>2. frames' \in Seq(Frame)
    BY <1>7, <2>1, Pushed DEF FaultHandler, TypeOK
  <2>3. asked' \in [Sig -> Handler]
    BY <1>7 DEF FaultHandler, TypeOK, Handler
  <2> QED
    BY <1>7, <2>2, <2>3 DEF FaultHandler, TypeOK, Place, ReturnPlace
<1>8. CASE FaultReturn
  <2>1. sigtab \in Action
    BY DEF TypeOK, UserAction, Action
  <2>2. kact' \in [Sig -> Action] /\ kact'[USR] = kact[USR]
    BY <1>8, <1>1, <2>1 DEF FaultReturn, TypeOK
  <2> QED
    BY <1>8, <2>2 DEF FaultReturn, TypeOK
<1>9. CASE Post
  BY <1>9 DEF Post, TypeOK
<1>10. CASE DeliverHandler
  <2> DEFINE susp == pc[1] = "suspended"
             f == [from |-> IF susp THEN User ELSE pc,
                   saved |-> IF susp THEN pc[2] ELSE mask]
  <2>1. f \in Frame
    BY PlacesDiffer DEF TypeOK, Frame, ReturnPlace
  <2>2. frames' \in Seq(Frame)
    <3>1. frames' = <<f>> \o frames
      BY <1>10 DEF DeliverHandler
    <3> QED
      BY <2>1, <3>1, Pushed DEF TypeOK
  <2>3. asked' \in [Sig -> Handler]
    BY <1>10 DEF DeliverHandler, TypeOK, Handler
  <2>4. kact' \in [Sig -> Action] /\ kact'[USR] \in UserAction
    <3>1. kact' = [kact EXCEPT ![USR] =
                     [kact[USR] EXCEPT !.h = IF kact[USR].sysv THEN "dfl" ELSE @]]
      BY <1>10 DEF DeliverHandler
    <3>2. [kact[USR] EXCEPT !.h = IF kact[USR].sysv THEN "dfl" ELSE @] \in UserAction
      BY DEF TypeOK, UserAction, Handler
    <3>3. UserAction \subseteq Action
      BY DEF UserAction, Action
    <3> QED
      BY <3>1, <3>2, <3>3, <1>1 DEF TypeOK
  <2>5. mask' \in SUBSET Sig
    BY <1>10, <1>1 DEF DeliverHandler, TypeOK, UserAction
  <2> QED
    BY <1>10, <2>2, <2>3, <2>4, <2>5 DEF DeliverHandler, TypeOK, Place, ReturnPlace
<1>11. CASE DeliverDefault
  BY <1>11 DEF DeliverDefault, TypeOK
<1>12. CASE HandlerReturn
  <2>1. Head(frames) \in Frame /\ Tail(frames) \in Seq(Frame)
    BY <1>12, Popped DEF HandlerReturn, TypeOK
  <2> QED
    BY <1>12, <2>1 DEF HandlerReturn, TypeOK, Frame, Place, ReturnPlace
<1>13. CASE Longjmp
  <2>1. Tail(frames) \in Seq(Frame)
    BY <1>13, Popped DEF Longjmp, TypeOK
  <2> QED
    BY <1>13, <2>1 DEF Longjmp, TypeOK
<1>14. CASE SigactionStep
  <2>1. PICK sig \in prog.handled, a \in UserAction :
           /\ RtSigaction(sig, a) /\ pc' \in {User, Unhold(sig)}
           /\ UNCHANGED <<patched, mask, pending, frames, sem, status>>
    BY <1>14, SigactionEffect
  <2>2. User \in Place /\ Unhold(sig) \in Place
    BY <1>2 DEF Place, ReturnPlace
  <2> QED
    BY <1>2, <2>1, <2>2, RtSigactionKeeps DEF TypeOK
<1>15. CASE SigsetUnhold
  BY <1>15 DEF SigsetUnhold, TypeOK, Place, ReturnPlace
<1>16. ASSUME NEW sig \in prog.blocked,
              AbiSighold(sig) \/ AbiSigrelse(sig) \/ AbiSigpause(sig)
       PROVE  TypeOK'
  BY <1>16, <1>2 DEF AbiSighold, AbiSigrelse, AbiSigpause, SetMask, TypeOK
<1>17. ASSUME NEW set \in SUBSET prog.blocked, AbiSigprocmask(set) PROVE TypeOK'
  BY <1>17, <1>2 DEF AbiSigprocmask, SetMask, TypeOK
<1>18. ASSUME NEW set \in SUBSET prog.blocked, AbiSigsuspend(set) PROVE TypeOK'
  BY <1>18, <1>2 DEF AbiSigsuspend, TypeOK, Place
<1>19. CASE DownRead
  BY <1>19 DEF DownRead, TypeOK, Place, ReturnPlace
<1>20. CASE UpRead
  BY <1>20 DEF UpRead, TypeOK, Place, ReturnPlace
<1>21. CASE Ended
  BY <1>21, <1>3 DEF Ended
<1> QED
  BY <1>4, <1>5, <1>6, <1>7, <1>8, <1>9, <1>10, <1>11, <1>12, <1>13, <1>14,
     <1>15, <1>16, <1>17, <1>18, <1>19, <1>20, <1>21
  DEF Step, Fault, SigactionStep

(* The variables of the trap and of the signals keep their types.          *)
THEOREM TypeCorrect == Spec => []TypeOK
BY InitTypeOK, NextTypeOK, PTL DEF Spec

-----------------------------------------------------------------------------
(* The trap stays: "the emulated program can't be allowed to override the  *)
(* SIGSEGV sigaction()" the emulator installed, linux26-compat.c:1772.     *)
THEOREM TrapKept == Spec => TrapStays
<1>1. ASSUME TypeOK, [Next]_vars
      PROVE  kact'[SEGV] # kact[SEGV] =>
                 pc = Faulting /\ sigtab.h = "dfl" /\ ~sigtab.siginfo
  <2>1. SEGV \in Sig /\ USR \in Sig /\ SEGV # USR
    BY DEF Sig, SEGV, USR
  <2>2. prog.handled \subseteq Sig /\ prog.blocked \subseteq Sig
    BY <1>1, ProgramsAssumption DEF TypeOK
  <2>3. CASE UNCHANGED kact
    BY <2>3
  <2>4. CASE FaultReturn
    BY <1>1, <2>4 DEF FaultReturn, TypeOK, UserAction, Handler
  <2>5. CASE DeliverHandler
    BY <1>1, <2>1, <2>5 DEF DeliverHandler, TypeOK
  <2>6. CASE SigactionStep
    <3>1. PICK sig \in prog.handled, a \in UserAction : RtSigaction(sig, a)
      BY <1>1, <2>6, SigactionEffect
    <3> QED
      BY <1>1, <2>2, <3>1, RtSigactionKeeps
  <2>7. UNCHANGED kact \/ FaultReturn \/ DeliverHandler \/ SigactionStep
    BY <1>1 DEF Next, Step, Fault, SigactionStep, vars, signals, LcallPatch,
       LcallKill, FaultStart, FaultKill, FaultHandler, FaultWild, Post,
       DeliverDefault, HandlerReturn, Longjmp, SigsetUnhold, AbiSighold,
       AbiSigrelse, AbiSigpause, SetMask, AbiSigprocmask, AbiSigsuspend,
       DownRead, UpRead, Ended
  <2> QED
    BY <2>3, <2>4, <2>5, <2>6, <2>7
<1> QED
  BY <1>1, TypeCorrect, PTL DEF Spec, TrapStays

-----------------------------------------------------------------------------
(* A process is at a faulting instruction, or was interrupted at one, only *)
(* when its program can fault.                                             *)
FaultPlaces ==
    /\ pc = Faulting => Faults
    /\ \A i \in DOMAIN frames : frames[i].from = Faulting => Faults

(* Every step keeps it.                                                    *)
LEMMA FaultPlacesKept ==
    ASSUME TypeOK, FaultPlaces, [Next]_vars
    PROVE  FaultPlaces'
<1>0. frames \in Seq(Frame) /\ pc \in Place
  BY DEF TypeOK
<1>1. UNCHANGED prog
  BY DEF Next, vars
<1>2. Faults' <=> Faults
  BY <1>1 DEF Faults
<1>3. CASE pc' = pc /\ frames' = frames
  BY <1>2, <1>3 DEF FaultPlaces
<1>4. CASE FaultStart
  BY <1>4, <1>2 DEF FaultStart, May, Faults, FaultPlaces
<1>5. CASE FaultHandler
  BY <1>2, <1>5 DEF FaultHandler, FaultPlaces
<1>6. CASE DeliverHandler
  <2> DEFINE f == [from |-> IF pc[1] = "suspended" THEN User ELSE pc,
                   saved |-> IF pc[1] = "suspended" THEN pc[2] ELSE mask]
  <2>1. f \in Frame /\ (f.from = Faulting => pc = Faulting)
    BY PlacesDiffer DEF TypeOK, Frame, ReturnPlace
  <2>2. frames' = <<f>> \o frames /\ pc' = User
    BY <1>6 DEF DeliverHandler
  <2> HIDE DEF f
  <2>3. frames'[1] = f /\ \A i \in 2..Len(frames') : frames'[i] = frames[i - 1]
    BY <1>0, <2>1, <2>2, Pushed
  <2>4. DOMAIN frames' = 1..Len(frames') /\ Len(frames') = Len(frames) + 1
        /\ DOMAIN frames = 1..Len(frames) /\ Len(frames) \in Nat
    BY <1>0, <2>1, <2>2, Pushed, LenProperties
  <2>5. ASSUME NEW i \in DOMAIN frames', frames'[i].from = Faulting PROVE Faults
    <3>1. CASE i = 1
      BY <2>1, <2>3, <2>5, <3>1 DEF FaultPlaces
    <3>2. CASE i # 1
      BY <2>3, <2>4, <2>5, <3>2 DEF FaultPlaces
    <3> QED
      BY <3>1, <3>2
  <2>6. pc' # Faulting
    BY <1>0, <2>2, PlacesDiffer
  <2> QED
    BY <1>2, <2>5, <2>6 DEF FaultPlaces
<1>7. CASE HandlerReturn \/ Longjmp
  <2>1. frames # <<>> /\ frames' = Tail(frames)
    BY <1>7 DEF HandlerReturn, Longjmp
  <2>2. Head(frames) = frames[1] /\ 1 \in DOMAIN frames
    BY <1>0, <2>1, Popped, LenProperties
  <2>3. \A i \in DOMAIN frames' : i + 1 \in DOMAIN frames /\ frames'[i] = frames[i + 1]
    BY <1>0, <2>1, Popped, LenProperties
  <2>4. pc' = Faulting => Faults
    BY <1>7, <2>2 DEF HandlerReturn, Longjmp, May, FaultPlaces
  <2> QED
    BY <1>2, <2>3, <2>4 DEF FaultPlaces
<1>8. CASE frames' = frames /\ \/ pc' \in {User, Held, Waiting}
                               \/ \E x : pc' = Unhold(x) \/ pc' = Suspended(x)
  <2>1. pc' # Faulting
    BY <1>0, <1>8, PlacesDiffer
  <2> QED
    BY <1>2, <1>8, <2>1 DEF FaultPlaces
<1>9. CASE SigactionStep
  BY <1>8, <1>9, SigactionEffect
<1> QED
  BY <1>3, <1>4, <1>5, <1>6, <1>7, <1>8, <1>9
  DEF Next, Step, Fault, SigactionStep, vars, signals, LcallPatch, LcallKill,
      FaultKill, FaultWild, FaultReturn, Post, DeliverDefault, SigsetUnhold,
      AbiSighold, AbiSigrelse, AbiSigpause, SetMask, AbiSigprocmask,
      AbiSigsuspend, DownRead, UpRead, Ended

(* Such places stay out of programs that cannot fault.                     *)
LEMMA FaultPlacesHold == Spec => []FaultPlaces
<1>1. Init => FaultPlaces
  <2>1. ASSUME Init PROVE pc = User /\ DOMAIN frames = {} /\ pc \in Place
    BY <2>1 DEF Init, Place, ReturnPlace
  <2> QED
    BY <2>1, PlacesDiffer DEF FaultPlaces
<1> QED
  BY <1>1, FaultPlacesKept, TypeCorrect, PTL DEF Spec

-----------------------------------------------------------------------------
(* SIGSEGV is deliverable to the trap now and after any return from a      *)
(* handler or from sigsuspend().                                           *)
SegvOpen ==
    SEGV \notin prog.blocked /\ ~Faults =>
        /\ kact[SEGV].h = "trap"
        /\ SEGV \notin mask /\ SEGV \notin kact[USR].mask
        /\ pc[1] = "suspended" => SEGV \notin pc[2]
        /\ \A i \in DOMAIN frames : SEGV \notin frames[i].saved
        /\ status # "lcall"

(* Every step keeps it, if the program does not block SIGSEGV or fault.    *)
LEMMA SegvOpenKept ==
    ASSUME TypeOK, FaultPlaces, SegvOpen, [Next]_vars
    PROVE  SegvOpen'
<1>0. frames \in Seq(Frame) /\ pc \in Place /\ SEGV # USR /\ USR \in Sig /\ SEGV \in Sig
  BY DEF TypeOK, SEGV, USR, Sig
<1>1. UNCHANGED prog
  BY DEF Next, vars
<1> SUFFICES ASSUME SEGV \notin prog.blocked, ~Faults
             PROVE  /\ kact'[SEGV].h = "trap"
                    /\ SEGV \notin mask' /\ SEGV \notin kact'[USR].mask
                    /\ pc'[1] = "suspended" => SEGV \notin pc'[2]
                    /\ \A i \in DOMAIN frames' : SEGV \notin frames'[i].saved
                    /\ status' # "lcall"
  BY <1>1 DEF SegvOpen, Faults
<1>2. /\ kact[SEGV].h = "trap"
      /\ SEGV \notin mask /\ SEGV \notin kact[USR].mask
      /\ pc[1] = "suspended" => SEGV \notin pc[2]
      /\ \A i \in DOMAIN frames : SEGV \notin frames[i].saved
      /\ status # "lcall"
      /\ pc # Faulting
  BY DEF SegvOpen, FaultPlaces
<1>3. Trapped
  BY <1>2 DEF Trapped
<1>4. CASE UNCHANGED <<kact, mask, pc, frames, status>>
  BY <1>2, <1>4
<1>5. CASE DeliverHandler
  <2> DEFINE f == [from |-> IF pc[1] = "suspended" THEN User ELSE pc,
                   saved |-> IF pc[1] = "suspended" THEN pc[2] ELSE mask]
  <2>1. f \in Frame /\ SEGV \notin f.saved
    BY <1>2, PlacesDiffer DEF TypeOK, Frame, ReturnPlace
  <2>2. frames' = <<f>> \o frames
    BY <1>5 DEF DeliverHandler
  <2> HIDE DEF f
  <2>3. frames'[1] = f /\ \A i \in 2..Len(frames') : frames'[i] = frames[i - 1]
    BY <1>0, <2>1, <2>2, Pushed
  <2>4. DOMAIN frames' = 1..Len(frames') /\ Len(frames') = Len(frames) + 1
        /\ DOMAIN frames = 1..Len(frames) /\ Len(frames) \in Nat
    BY <1>0, <2>1, <2>2, Pushed, LenProperties
  <2>5. ASSUME NEW i \in DOMAIN frames' PROVE SEGV \notin frames'[i].saved
    <3>1. CASE i = 1
      BY <2>1, <2>3, <3>1
    <3>2. CASE i # 1
      <4>1. i - 1 \in DOMAIN frames /\ frames'[i] = frames[i - 1]
        BY <2>3, <2>4, <3>2
      <4> QED
        BY <1>2, <4>1
    <3> QED
      BY <3>1, <3>2
  <2>6. kact' = [kact EXCEPT ![USR] =
                   [kact[USR] EXCEPT !.h = IF kact[USR].sysv THEN "dfl" ELSE @]]
    BY <1>5 DEF DeliverHandler
  <2>7. kact'[SEGV] = kact[SEGV] /\ kact'[USR].mask = kact[USR].mask
    BY <1>0, <2>6 DEF TypeOK, UserAction
  <2>8. SEGV \notin mask' /\ pc' = User /\ status' = status
    BY <1>0, <1>2, <1>5 DEF DeliverHandler
  <2>9. User[1] # "suspended"
    BY DEF User
  <2> QED
    BY <1>2, <2>5, <2>7, <2>8, <2>9
<1>6. CASE HandlerReturn
  <2>1. frames # <<>> /\ frames' = Tail(frames) /\ mask' = Head(frames).saved
        /\ pc' \in {Head(frames).from, User} /\ UNCHANGED <<kact, status>>
    BY <1>6 DEF HandlerReturn, signals
  <2>2. Head(frames) = frames[1] /\ 1 \in DOMAIN frames /\ frames[1] \in Frame
    BY <1>0, <2>1, Popped, LenProperties
  <2>3. \A i \in DOMAIN frames' : i + 1 \in DOMAIN frames /\ frames'[i] = frames[i + 1]
    BY <1>0, <2>1, Popped, LenProperties
  <2>4. pc' \in ReturnPlace
    BY <2>1, <2>2 DEF Frame, ReturnPlace
  <2>5. \A p \in ReturnPlace : p[1] # "suspended"
    BY DEF ReturnPlace, User, Faulting, Held, Waiting, Unhold
  <2> QED
    BY <1>2, <2>1, <2>2, <2>3, <2>4, <2>5
<1>7. CASE Longjmp
  <2>1. frames # <<>> /\ frames' = Tail(frames) /\ UNCHANGED <<kact, mask, pc, status>>
    BY <1>7 DEF Longjmp, signals
  <2>2. \A i \in DOMAIN frames' : i + 1 \in DOMAIN frames /\ frames'[i] = frames[i + 1]
    BY <1>0, <2>1, Popped, LenProperties
  <2> QED
    BY <1>2, <2>1, <2>2
<1>8. CASE SigactionStep
  <2>1. PICK sig \in prog.handled, a \in UserAction :
           /\ RtSigaction(sig, a) /\ a.mask \subseteq prog.blocked
           /\ pc' \in {User, Unhold(sig)}
           /\ UNCHANGED <<mask, frames, status>>
    BY <1>8, SigactionEffect
  <2>2. sig \in Sig
    BY ProgramsAssumption DEF TypeOK
  <2>3. kact'[SEGV] = kact[SEGV]
    BY <2>1, <2>2, RtSigactionKeeps
  <2>4. kact'[USR].mask = kact[USR].mask \/ kact'[USR].mask = a.mask
    BY <2>1, <2>2, <1>0 DEF RtSigaction, TypeOK
  <2>5. pc'[1] # "suspended"
    BY <2>1 DEF User, Unhold
  <2> QED
    BY <1>2, <2>1, <2>3, <2>4, <2>5
<1>9. CASE \E set \in SUBSET prog.blocked : AbiSigsuspend(set)
  <2>1. PICK set \in SUBSET prog.blocked : AbiSigsuspend(set)
    BY <1>9
  <2>2. mask' = set /\ pc' = Suspended(mask) /\ UNCHANGED <<kact, frames, status>>
    BY <2>1 DEF AbiSigsuspend, signals
  <2>3. Suspended(mask)[2] = mask
    BY DEF Suspended
  <2> QED
    BY <1>2, <2>2, <2>3
<1>10. CASE /\ UNCHANGED <<kact, frames>> /\ status' # "lcall"
            /\ SEGV \notin mask'
            /\ pc' \in {pc, User, Held, Waiting}
  <2>1. User[1] # "suspended" /\ Held[1] # "suspended" /\ Waiting[1] # "suspended"
    BY DEF User, Held, Waiting
  <2> QED
    BY <1>2, <1>10, <2>1
<1>11. CASE \E sig \in prog.blocked :
               AbiSighold(sig) \/ AbiSigrelse(sig) \/ AbiSigpause(sig)
  BY <1>2, <1>10, <1>11 DEF AbiSighold, AbiSigrelse, AbiSigpause, SetMask, signals
<1>12. CASE \E set \in SUBSET prog.blocked : AbiSigprocmask(set)
  BY <1>2, <1>10, <1>12 DEF AbiSigprocmask, SetMask, signals
<1>13. ~FaultStart
  BY DEF FaultStart, May, Faults
<1>14. ~Fault
  BY <1>2 DEF Fault, FaultKill, FaultHandler, FaultWild, FaultReturn
<1>15. CASE SigsetUnhold
  BY <1>2, <1>10, <1>15 DEF SigsetUnhold, signals
<1>16. CASE DeliverDefault
  BY <1>2, <1>10, <1>16 DEF DeliverDefault, signals
<1>17. CASE DownRead \/ UpRead
  BY <1>2, <1>10, <1>17 DEF DownRead, UpRead, signals
<1>18. CASE \E c : LcallPatch(c) \/ LcallKill(c)
  BY <1>3, <1>4, <1>18 DEF LcallPatch, LcallKill, signals
<1>19. CASE Post \/ Ended \/ UNCHANGED vars
  BY <1>4, <1>19 DEF Post, Ended, vars, signals
<1> QED
  BY <1>5, <1>6, <1>7, <1>8, <1>9, <1>11, <1>12, <1>13, <1>14, <1>15, <1>16,
     <1>17, <1>18, <1>19
  DEF Next, Step, SigactionStep

(* No system call kills a program that neither blocks SIGSEGV nor faults:  *)
(* lcall_sigsegv is reached by every lcall, sysent.c:422-432.              *)
THEOREM LcallsSurvive == Spec => []LcallNeverKills
<1>1. Init => SegvOpen
  <2> SUFFICES ASSUME Init PROVE SegvOpen
    OBVIOUS
  <2>1. kact[SEGV] = TrapAction /\ kact[USR] = Plain("dfl")
    BY DEF Init, Sig, SEGV, USR
  <2>2. /\ pc[1] # "suspended" /\ DOMAIN frames = {} /\ mask \subseteq prog.blocked
        /\ status = "running"
    BY DEF Init, User
  <2> QED
    BY <2>1, <2>2 DEF SegvOpen, TrapAction, Plain
<1>2. SegvOpen => LcallNeverKills
  BY DEF SegvOpen, LcallNeverKills
<1> QED
  BY <1>1, <1>2, SegvOpenKept, FaultPlacesHold, TypeCorrect, PTL DEF Spec

-----------------------------------------------------------------------------
(* The handler in force is the one the program believes in: SIGSEGV's in   *)
(* the table, the other signals' in the kernel.                            *)
AskedInForce ==
    ~(Faults /\ OneShotSegv) =>
        /\ asked[SEGV] = sigtab.h /\ asked[USR] = kact[USR].h
        /\ sigtab.sysv => OneShotSegv
        /\ told.call = "handler" => told.res = told.want

(* Every step keeps it.                                                    *)
LEMMA AskedInForceKept ==
    ASSUME TypeOK, FaultPlaces, AskedInForce, [Next]_vars
    PROVE  AskedInForce'
<1>0. SEGV # USR /\ Sig = {SEGV, USR} /\ SEGV \in Sig /\ USR \in Sig
      /\ asked \in [Sig -> Handler] /\ kact \in [Sig -> Action]
  BY DEF TypeOK, SEGV, USR, Sig
<1>1. UNCHANGED prog
  BY DEF Next, vars
<1>2. (Faults' <=> Faults) /\ (OneShotSegv' <=> OneShotSegv)
  BY <1>1 DEF Faults, OneShotSegv
<1> SUFFICES ASSUME ~(Faults /\ OneShotSegv)
             PROVE  /\ asked'[SEGV] = sigtab'.h /\ asked'[USR] = kact'[USR].h
                    /\ sigtab'.sysv => OneShotSegv
                    /\ told'.call = "handler" => told'.res = told'.want
  BY <1>2 DEF AskedInForce
<1>3. /\ asked[SEGV] = sigtab.h /\ asked[USR] = kact[USR].h
      /\ sigtab.sysv => OneShotSegv
      /\ told.call = "handler" => told.res = told.want
  BY DEF AskedInForce
<1>4. CASE UNCHANGED signals
  BY <1>3, <1>4 DEF signals
<1>5. CASE FaultHandler
  <2>1. ~sigtab.sysv
    BY <1>3, <1>5 DEF FaultHandler, FaultPlaces
  <2>2. asked' = asked /\ UNCHANGED <<kact, sigtab, told>>
    BY <1>0, <1>5, <2>1 DEF FaultHandler
  <2> QED
    BY <1>3, <2>2
<1>6. CASE FaultReturn
  <2>1. kact'[USR] = kact[USR] /\ UNCHANGED <<sigtab, asked, told>>
    BY <1>0, <1>6 DEF FaultReturn
  <2> QED
    BY <1>3, <2>1
<1>7. CASE DeliverHandler
  <2>1. kact' = [kact EXCEPT ![USR] =
                   [kact[USR] EXCEPT !.h = IF kact[USR].sysv THEN "dfl" ELSE @]]
        /\ asked' = [asked EXCEPT ![USR] = IF kact[USR].sysv THEN "dfl" ELSE @]
        /\ UNCHANGED <<sigtab, told>>
    BY <1>7 DEF DeliverHandler
  <2>2. kact[USR] \in UserAction
    BY DEF TypeOK
  <2>3. kact'[USR].h = IF kact[USR].sysv THEN "dfl" ELSE kact[USR].h
    BY <1>0, <2>1, <2>2 DEF UserAction
  <2>4. /\ asked'[USR] = IF kact[USR].sysv THEN "dfl" ELSE asked[USR]
        /\ asked'[SEGV] = asked[SEGV]
    BY <1>0, <2>1
  <2> QED
    BY <1>3, <2>1, <2>3, <2>4
<1>8. CASE SigactionStep
  <2>1. PICK sig \in prog.handled, a \in UserAction :
           /\ RtSigaction(sig, a)
           /\ a.sysv => {"signal", "sigaction_sysv"}
                           \cap (prog.calls \cup prog.handlers) # {}
    BY <1>8, SigactionEffect
  <2>2. sig \in Sig
    BY ProgramsAssumption DEF TypeOK
  <2>3. CASE sig = SEGV
    <3>1. sigtab' = a /\ kact' = kact /\ asked' = [asked EXCEPT ![SEGV] = a.h]
          /\ told' = [call |-> "handler", want |-> asked[SEGV], res |-> sigtab.h]
      BY <2>1, <2>3 DEF RtSigaction
    <3>2. a.sysv => OneShotSegv
      BY <2>1, <2>3 DEF OneShotSegv
    <3> QED
      BY <1>0, <1>3, <3>1, <3>2
  <2>4. CASE sig = USR
    <3>1. sigtab' = sigtab /\ kact' = [kact EXCEPT ![USR] = a]
          /\ asked' = [asked EXCEPT ![USR] = a.h]
          /\ told' = [call |-> "handler", want |-> asked[USR], res |-> kact[USR].h]
      BY <1>0, <2>1, <2>4 DEF RtSigaction
    <3> QED
      BY <1>0, <1>3, <3>1
  <2> QED
    BY <1>0, <2>2, <2>3, <2>4
<1>9. CASE \E sig \in prog.blocked : AbiSigpause(sig)
  BY <1>3, <1>9 DEF AbiSigpause, NoAnswer
<1> QED
  BY <1>4, <1>5, <1>6, <1>7, <1>8, <1>9
  DEF Next, Step, Fault, SigactionStep, vars, signals, LcallPatch, LcallKill,
      FaultStart, FaultKill, FaultWild, Post, DeliverDefault, HandlerReturn,
      Longjmp, SigsetUnhold, AbiSighold, AbiSigrelse, SetMask, AbiSigprocmask,
      AbiSigsuspend, DownRead, UpRead, Ended

(* signal(), sigset() and sigaction() return the handler that was in force *)
(* (linux26_rt_sigaction), unless a genuine fault met a one-shot handler.  *)
THEOREM OldactReported == Spec => []OldactTruthful
<1>1. Init => AskedInForce
  <2> SUFFICES ASSUME Init PROVE AskedInForce
    OBVIOUS
  <2>1. PICK h \in prog.inherited :
           sigtab = Plain(h) /\ asked = [s \in Sig |-> IF s = SEGV THEN h ELSE "dfl"]
    BY DEF Init
  <2>2. kact[USR] = Plain("dfl") /\ asked[SEGV] = h /\ asked[USR] = "dfl"
    BY <2>1 DEF Init, Sig, SEGV, USR
  <2>3. told.call # "handler"
    BY DEF Init, NoAnswer
  <2> QED
    BY <2>1, <2>2, <2>3 DEF AskedInForce, Plain
<1>2. AskedInForce => OldactTruthful
  BY DEF AskedInForce, OldactTruthful
<1> QED
  BY <1>1, <1>2, AskedInForceKept, FaultPlacesHold, TypeCorrect, PTL DEF Spec

-----------------------------------------------------------------------------
(* Handlers that neither take the semaphore nor are left by longjmp.       *)
PlainHandlers == {"uname", "longjmp"} \cap prog.handlers = {}

(* The call that holds the semaphore was made by the main part of the      *)
(* program: it is the outermost interrupted place, or it runs with nothing *)
(* interrupted below it.                                                   *)
HolderIsOutermost ==
    PlainHandlers =>
        /\ pc # Waiting
        /\ pc = Held => frames = <<>>
        /\ \A i \in DOMAIN frames :
              /\ frames[i].from # Waiting
              /\ frames[i].from = Held => i = Len(frames)
        /\ sem = 0 <=> \/ pc = Held
                       \/ frames # <<>> /\ frames[Len(frames)].from = Held

(* Every step keeps it.                                                    *)
LEMMA HolderIsOutermostKept ==
    ASSUME TypeOK, HolderIsOutermost, [Next]_vars
    PROVE  HolderIsOutermost'
<1>0. frames \in Seq(Frame) /\ pc \in Place /\ sem \in {0, 1}
  BY DEF TypeOK
<1>1. UNCHANGED prog
  BY DEF Next, vars
<1> DEFINE Below(fs) == fs # <<>> /\ fs[Len(fs)].from = Held
           Lower(fs) == \A i \in DOMAIN fs :
                           /\ fs[i].from # Waiting
                           /\ fs[i].from = Held => i = Len(fs)
<1> SUFFICES ASSUME PlainHandlers
             PROVE  /\ pc' # Waiting /\ (pc' = Held => frames' = <<>>)
                    /\ Lower(frames')
                    /\ sem' = 0 <=> pc' = Held \/ Below(frames')
  BY <1>1 DEF HolderIsOutermost, PlainHandlers
<1>2. /\ pc # Waiting /\ (pc = Held => frames = <<>>)
      /\ Lower(frames)
      /\ sem = 0 <=> pc = Held \/ Below(frames)
  BY DEF HolderIsOutermost
<1>3. ASSUME NEW f \in Frame, frames' = <<f>> \o frames,
             f.from # Waiting, f.from = Held <=> pc = Held,
             pc' = User, sem' = sem
      PROVE  /\ pc' # Waiting /\ (pc' = Held => frames' = <<>>)
             /\ Lower(frames')
             /\ sem' = 0 <=> pc' = Held \/ Below(frames')
  <2>1. /\ frames' # <<>> /\ Len(frames') = Len(frames) + 1 /\ Len(frames) \in Nat
        /\ DOMAIN frames' = 1..Len(frames') /\ DOMAIN frames = 1..Len(frames)
        /\ frames'[1] = f
        /\ \A i \in 2..Len(frames') : frames'[i] = frames[i - 1]
    BY <1>0, <1>3, Pushed, LenProperties
  <2>2. Len(frames) = 0 <=> frames = <<>>
    BY <1>0, EmptySeq, LenProperties
  <2>3. pc' # Waiting /\ pc' # Held
    BY <1>0, <1>3, PlacesDiffer
  <2>4. CASE frames = <<>>
    <3>1. Len(frames') = 1 /\ DOMAIN frames' = {1}
      BY <2>1, <2>2, <2>4
    <3>2. Below(frames') <=> pc = Held
      BY <1>3, <2>1, <3>1
    <3>3. Lower(frames')
      BY <1>3, <2>1, <3>1
    <3> QED
      BY <1>2, <1>3, <2>3, <2>4, <3>2, <3>3
  <2>5. CASE frames # <<>>
    <3>1. frames'[Len(frames')] = frames[Len(frames)]
      BY <2>1, <2>2, <2>5
    <3>2. Below(frames') <=> Below(frames)
      BY <2>1, <2>5, <3>1
    <3>3. ASSUME NEW i \in DOMAIN frames'
          PROVE  /\ frames'[i].from # Waiting
                 /\ frames'[i].from = Held => i = Len(frames')
      <4>1. CASE i = 1
        BY <1>2, <1>3, <2>1, <2>5, <4>1
      <4>2. CASE i # 1
        <5>1. i - 1 \in DOMAIN frames /\ frames'[i] = frames[i - 1]
          BY <2>1, <4>2
        <5>2. i - 1 = Len(frames) => i = Len(frames')
          BY <2>1
        <5> QED
          BY <1>2, <5>1, <5>2
      <4> QED
        BY <4>1, <4>2
    <3> QED
      BY <1>2, <1>3, <2>3, <2>5, <3>2, <3>3
  <2> QED
    BY <2>4, <2>5
<1>4. CASE FaultHandler
  <2>1. pc # Held /\ Faulting # Waiting
    BY <1>0, <1>4, PlacesDiffer DEF FaultHandler
  <2>2. [from |-> pc, saved |-> mask] \in Frame
    BY <1>4 DEF FaultHandler, TypeOK, Frame, ReturnPlace
  <2> QED
    BY <1>3, <1>4, <2>1, <2>2 DEF FaultHandler
<1>5. CASE DeliverHandler
  <2> DEFINE f == [from |-> IF pc[1] = "suspended" THEN User ELSE pc,
                   saved |-> IF pc[1] = "suspended" THEN pc[2] ELSE mask]
  <2>1. pc[1] = "suspended" => pc # Held
    BY DEF Held
  <2>2. f \in Frame /\ f.from # Waiting /\ (f.from = Held <=> pc = Held)
    BY <1>2, <2>1, PlacesDiffer DEF TypeOK, Frame, ReturnPlace
  <2>3. frames' = <<f>> \o frames /\ pc' = User /\ sem' = sem
    BY <1>5 DEF DeliverHandler
  <2> HIDE DEF f
  <2> QED
    BY <1>3, <2>2, <2>3
<1>6. CASE HandlerReturn
  <2>1. /\ pc = User /\ frames # <<>> /\ frames' = Tail(frames) /\ sem' = sem
        /\ \/ pc' = Head(frames).from
           \/ pc' = User /\ Head(frames).from = Faulting
    BY <1>6 DEF HandlerReturn
  <2>2. /\ Head(frames) = frames[1] /\ 1 \in DOMAIN frames
        /\ Len(frames) \in Nat \ {0} /\ frames' \in Seq(Frame)
        /\ Len(frames') = Len(frames) - 1
        /\ \A i \in DOMAIN frames' : i + 1 \in DOMAIN frames /\ frames'[i] = frames[i + 1]
        /\ Len(frames) = 1 => frames' = <<>>
        /\ DOMAIN frames' = 1..Len(frames')
    BY <1>0, <2>1, Popped, LenProperties
  <2>3. pc # Held /\ User # Held /\ User # Waiting /\ Faulting # Held
    BY <1>0, <2>1, PlacesDiffer
  <2>4. pc' # Waiting /\ (pc' = Held <=> frames[1].from = Held)
    BY <1>2, <2>1, <2>2, <2>3
  <2>5. Lower(frames')
    BY <1>2, <2>2
  <2>6. CASE Len(frames) = 1
    BY <1>2, <2>1, <2>2, <2>3, <2>4, <2>5, <2>6
  <2>7. CASE Len(frames) # 1
    <3>1. frames[1].from # Held
      BY <1>2, <2>2, <2>7
    <3>2. Len(frames') \in DOMAIN frames' /\ frames'[Len(frames')] = frames[Len(frames)]
      BY <2>2, <2>7
    <3>3. frames' # <<>>
      BY <2>2, <2>7, EmptySeq
    <3> QED
      BY <1>2, <2>1, <2>3, <2>4, <2>5, <3>1, <3>2, <3>3
  <2> QED
    BY <2>6, <2>7
<1>7. ~Longjmp
  BY DEF Longjmp, May, PlainHandlers
<1>8. CASE DownRead
  <2>1. frames = <<>> /\ pc = User /\ sem \in {0, 1}
    BY <1>0, <1>8 DEF DownRead, Enter, May, PlainHandlers
  <2>2. pc # Held
    BY <1>0, <2>1, PlacesDiffer
  <2>3. sem = 1
    BY <1>2, <2>1, <2>2
  <2>4. sem' = 0 /\ pc' = Held /\ frames' = frames
    BY <1>8, <2>3 DEF DownRead
  <2> QED
    BY <1>0, <1>2, <2>1, <2>4, PlacesDiffer
<1>9. CASE UpRead
  <2>1. pc = Held /\ sem' = 1 /\ pc' = User /\ frames' = frames
    BY <1>9 DEF UpRead
  <2> QED
    BY <1>0, <1>2, <2>1, PlacesDiffer
<1>10. CASE UNCHANGED <<pc, frames, sem>>
  BY <1>2, <1>10
<1>11. CASE /\ pc # Held /\ UNCHANGED <<frames, sem>>
            /\ \/ pc' \in {User, Faulting}
               \/ \E x : pc' = Unhold(x) \/ pc' = Suspended(x)
  <2>1. pc' # Held /\ pc' # Waiting
    BY <1>0, <1>11, PlacesDiffer
  <2> QED
    BY <1>2, <1>11, <2>1
<1>12. CASE SigsetUnhold
  <2>1. pc # Held
    BY <1>12 DEF SigsetUnhold, Held
  <2> QED
    BY <1>11, <1>12, <2>1 DEF SigsetUnhold
<1>13. CASE SigactionStep
  <2>1. pc = User /\ UNCHANGED <<frames, sem>> /\ \/ pc' = User
                                                  \/ \E x : pc' = Unhold(x)
    BY <1>13, SigactionEffect
  <2> QED
    BY <1>0, <1>11, <2>1, PlacesDiffer
<1>14. CASE FaultStart \/ \E set \in SUBSET prog.blocked : AbiSigsuspend(set)
  <2>1. pc = User /\ UNCHANGED <<frames, sem>> /\ \/ pc' = Faulting
                                                  \/ \E x : pc' = Suspended(x)
    BY <1>14 DEF FaultStart, AbiSigsuspend, Enter, May
  <2> QED
    BY <1>0, <1>11, <2>1, PlacesDiffer
<1> QED
  BY <1>4, <1>5, <1>6, <1>7, <1>8, <1>9, <1>10, <1>12, <1>13, <1>14
  DEF Next, Step, Fault, SigactionStep, vars, LcallPatch, LcallKill,
      FaultKill, FaultWild, FaultReturn, Post, DeliverDefault, AbiSighold,
      AbiSigrelse, AbiSigpause, SetMask, AbiSigprocmask, Ended

(* One system call holds uts_sem while it is taken and none waits for it   *)
(* (down_read and up_read of linux26-compat.c), if the handlers are plain. *)
THEOREM OneHolder == Spec => []SemHeldByOne
<1>1. Init => HolderIsOutermost
  <2> SUFFICES ASSUME Init PROVE HolderIsOutermost
    OBVIOUS
  <2>1. pc = User /\ pc \in Place /\ frames = <<>> /\ sem = 1 /\ DOMAIN frames = {}
    BY DEF Init, Place, ReturnPlace
  <2>2. pc # Waiting /\ pc # Held
    BY <2>1, PlacesDiffer
  <2> QED
    BY <2>1, <2>2 DEF HolderIsOutermost
<1>2. TypeOK /\ HolderIsOutermost => SemHeldByOne
  <2> SUFFICES ASSUME TypeOK, HolderIsOutermost, PlainHandlers
               PROVE  /\ 1 - sem = (IF pc = Held THEN 1 ELSE 0) +
                            Cardinality({i \in DOMAIN frames : frames[i].from = Held})
                      /\ pc # Waiting
    BY DEF SemHeldByOne, PlainHandlers
  <2> DEFINE holders == {i \in DOMAIN frames : frames[i].from = Held}
  <2>1. frames \in Seq(Frame) /\ sem \in {0, 1}
    BY DEF TypeOK
  <2>2. /\ DOMAIN frames = 1..Len(frames) /\ Len(frames) \in Nat
        /\ Len(frames) = 0 <=> frames = <<>>
    BY <2>1, LenProperties, EmptySeq
  <2>3. /\ pc # Waiting /\ (pc = Held => frames = <<>>)
        /\ \A i \in DOMAIN frames : frames[i].from = Held => i = Len(frames)
        /\ sem = 0 <=> pc = Held \/ (frames # <<>> /\ frames[Len(frames)].from = Held)
    BY DEF HolderIsOutermost
  <2>4. CASE pc = Held
    <3>1. holders = {}
      BY <2>2, <2>3, <2>4
    <3>2. Cardinality(holders) = 0
      BY <3>1, FS_EmptySet
    <3>3. sem = 0
      BY <2>1, <2>3, <2>4
    <3> HIDE DEF holders
    <3>4. 1 - sem = (IF pc = Held THEN 1 ELSE 0) + Cardinality(holders)
      BY <2>4, <3>2, <3>3
    <3> QED
      BY <2>3, <3>4 DEF holders
  <2>5. CASE pc # Held /\ frames # <<>> /\ frames[Len(frames)].from = Held
    <3>1. holders = {Len(frames)}
      BY <2>2, <2>3, <2>5
    <3>2. Cardinality(holders) = 1
      BY <3>1, FS_Singleton
    <3>3. sem = 0
      BY <2>1, <2>3, <2>5
    <3> HIDE DEF holders
    <3>4. 1 - sem = (IF pc = Held THEN 1 ELSE 0) + Cardinality(holders)
      BY <2>5, <3>2, <3>3
    <3> QED
      BY <2>3, <3>4 DEF holders
  <2>6. CASE pc # Held /\ ~(frames # <<>> /\ frames[Len(frames)].from = Held)
    <3>1. holders = {}
      BY <2>2, <2>3, <2>6
    <3>2. Cardinality(holders) = 0
      BY <3>1, FS_EmptySet
    <3>3. sem = 1
      BY <2>1, <2>3, <2>6
    <3> HIDE DEF holders
    <3>4. 1 - sem = (IF pc = Held THEN 1 ELSE 0) + Cardinality(holders)
      BY <2>6, <3>2, <3>3
    <3> QED
      BY <2>3, <3>4 DEF holders
  <2> QED
    BY <2>4, <2>5, <2>6
<1> QED
  BY <1>1, <1>2, HolderIsOutermostKept, TypeCorrect, PTL DEF Spec
=============================================================================
