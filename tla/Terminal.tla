------------------------------ MODULE Terminal ------------------------------
(***************************************************************************)
(* The terminal ioctls: termio, the termios of SVR4, SCO, UnixWare 7 and   *)
(* BSD, V7's sgttyb, tchars and ltchars, and termiox, each converted from  *)
(* and to Linux's struct termios; and the ioctl switches of the            *)
(* personalities, which decide what converter a request reaches.           *)
(*                                                                         *)
(* A word of flags is the set of its bits; a control character is          *)
(* identified by a number, its slot in the terminal's first settings.      *)
(***************************************************************************)
EXTENDS Integers

CONSTANTS
    InFlags, OutFlags, CtlFlags, LocalFlags,  \* words the terminal may have
    Junk,                                     \* what a stack may hold
    MaxSaves                                  \* times the settings are saved

(* Bits 13 to 15 of c_cflag and those above 16 of c_lflag are none of      *)
(* Linux's.                                                                *)
ASSUME TerminalAssumption ==
    /\ InFlags \cup OutFlags \subseteq SUBSET (0 .. 31)
    /\ CtlFlags \subseteq SUBSET (0 .. 12 \cup 16 .. 31)
    /\ LocalFlags \subseteq SUBSET (0 .. 16)
    /\ Junk \subseteq Nat /\ MaxSaves \in Nat

\* Linux's c_cc slots.
VINTR == 0
VQUIT == 1
VERASE == 2
VKILL == 3
VEOF == 4
VTIME == 5
VMIN == 6
VSWTC == 7
VSTART == 8
VSTOP == 9
VSUSP == 10
VEOL == 11
VREPRINT == 12
VDISCARD == 13
VWERASE == 14
VLNEXT == 15
VEOL2 == 16
Slots == 0 .. 16

\* Bits of Linux's c_lflag and c_cflag.
ISIG == 0
ICANON == 1
ECHO == 3
TOSTOP == 8
ECHOCTL == 9
ECHOPRT == 10
IEXTEN == 15
FLUSHO == 12
CBAUDEX == 12
CRTSCTS == 31

VARIABLES
    per,        \* the personality whose ioctl switch is used
    tty,        \* Linux's settings: words i, o, c, l, characters cc, excl
    tcopy,      \* the structure the program got, and its format
    saved,      \* the terminal's settings when it got it
    saves,      \* how many times it got one
    termDone    \* what the program did last

terminalVars == <<per, tty, tcopy, saved, saves, termDone>>

Shl(S, k) == {b + k : b \in S}
Shr(S, k) == {b - k : b \in S}
-----------------------------------------------------------------------------
(* TCGETA and TCSETA of Linux carry 16 bits and eight characters.          *)
Termio(t) == [i |-> t.i \cap 0 .. 15, o |-> t.o \cap 0 .. 15, c |-> t.c \cap 0 .. 15,
              l |-> t.l \cap 0 .. 15, cc |-> [k \in 0 .. 7 |-> t.cc[k]]]

LinuxToSvrTermio(t) ==
    LET s == Termio(t) IN IF ICANON \in t.l THEN s ELSE [s EXCEPT !.cc[VEOF] = s.cc[VMIN]]

(* Mutant: VMIN is set, and the end-of-file character with it.             *)
SvrToLinuxTermioNoEof(t, s) ==
    LET cc == IF ICANON \in s.l THEN s.cc ELSE [s.cc EXCEPT ![VMIN] = s.cc[VEOF]]
    IN  [t EXCEPT !.i = (t.i \cap 16 .. 31) \cup s.i, !.o = (t.o \cap 16 .. 31) \cup s.o,
                  !.c = (t.c \cap 16 .. 31) \cup (s.c \ 12 .. 15),
                  !.l = (t.l \cap 16 .. 31) \cup s.l,
                  !.cc = [k \in Slots |-> IF k < 8 THEN cc[k] ELSE t.cc[k]]]

(* The terminal's own VEOF survives when the program gives VMIN in its     *)
(* place.  CRTSCTS does not fit in the 16 bits of a struct termio.         *)
SvrToLinuxTermio(t, s) ==
    LET cc == IF ICANON \in s.l THEN s.cc
              ELSE [s.cc EXCEPT ![VMIN] = s.cc[VEOF], ![VEOF] = t.cc[VEOF]]
    IN  [t EXCEPT !.i = (t.i \cap 16 .. 31) \cup s.i, !.o = (t.o \cap 16 .. 31) \cup s.o,
                  !.c = (t.c \cap 16 .. 31) \cup (s.c \ 12 .. 15),
                  !.l = (t.l \cap 16 .. 31) \cup s.l,
                  !.cc = [k \in Slots |-> IF k < 8 THEN cc[k] ELSE t.cc[k]]]
-----------------------------------------------------------------------------
(* The flag words of SVR4 and SCO: IEXTEN and TOSTOP are elsewhere, ECHOCTL *)
(* is unknown, CRTSFL (bit 15) is CRTSCTS.                                 *)
SvrFlags(t, cc) ==
    LET l == t.l \ {ECHOCTL}
        moved == (l \ {8, 15}) \cup Shl(l \cap {8}, 1) \cup Shr(l \cap {15}, 7)
    IN  [i |-> t.i \cap 0 .. 12, o |-> t.o \cap 0 .. 15,
         c |-> (t.c \cap 0 .. 15) \cup (IF CRTSCTS \in t.c THEN {15} ELSE {}),
         l |-> moved \cap 0 .. 9, cc |-> cc]

(* What was in the terminal's ECHOCTL is still there when TOSTOP is moved. *)
LinuxFlags(t, s, cc) ==
    LET l == (t.l \ (0 .. 8 \cup {15})) \cup (s.l \cap 0 .. 15)
        noexcl == l \ {15}
        iexten == (noexcl \ {8}) \cup Shl(noexcl \cap {8}, 7)
        tostop == (iexten \ {9}) \cup Shr(iexten \cap {9}, 1)
    IN  [t EXCEPT !.i = s.i \ {15}, !.o = s.o,
                  !.c = (s.c \cup (IF 15 \in s.c THEN {CRTSCTS} ELSE {})) \ 12 .. 15,
                  !.l = tostop \cup (t.l \cap {ECHOCTL}), !.excl = 15 \in l, !.cc = cc]

(* svr4_cc[16..18] is whatever the stack holds; [6] is VEOL2, [11] VSUSP.  *)
LinuxToSvr4Termios(t, junk) ==
    LET cc == [k \in 0 .. 18 |->
                 CASE k = 4 -> IF ICANON \in t.l THEN t.cc[VEOF] ELSE t.cc[VMIN]
                   [] k = 5 -> IF ICANON \in t.l THEN t.cc[VEOL] ELSE t.cc[VTIME]
                   [] k = 6 -> t.cc[VEOL2]
                   [] k = 11 -> t.cc[VSUSP]
                   [] k > 15 -> junk
                   [] OTHER -> t.cc[k]]
    IN  SvrFlags(t, cc)

Svr4ToLinuxTermios(t, s) ==
    LET same == 0 .. 3 \cup 7 .. 10 \cup 12 .. 16
        canon == ICANON \in s.l
        cc == [k \in Slots |->
                 CASE k \in same -> s.cc[k]
                   [] k = VEOF /\ canon -> s.cc[4]
                   [] k = VEOL -> IF canon THEN s.cc[5] ELSE s.cc[6]
                   [] k = VTIME /\ ~canon -> s.cc[5]
                   [] k = VMIN /\ ~canon -> s.cc[4]
                   [] OTHER -> t.cc[k]]
    IN  LinuxFlags(t, s, cc)

LinuxToScoTermios(t) ==
    LET at == [k \in 0 .. 12 |->
                 CASE k = 4 -> IF ICANON \in t.l THEN VEOF ELSE VMIN
                   [] k = 5 -> IF ICANON \in t.l THEN VEOL ELSE VTIME
                   [] k = 6 -> VEOL2 [] k = 8 -> VEOF [] k = 9 -> VEOL
                   [] k = 11 -> VSTART [] k = 12 -> VSTOP [] OTHER -> k]
    IN  SvrFlags(t, [k \in 0 .. 12 |-> t.cc[at[k]]])

ScoToLinuxTermios(t, s) ==
    LET canon == ICANON \in s.l
        cc == [k \in Slots |->
                 CASE k \in 0 .. 3 \cup {VSWTC, VSUSP} -> s.cc[k]
                   [] k = VSTART -> s.cc[11] [] k = VSTOP -> s.cc[12]
                   [] k = VEOL2 -> s.cc[6]
                   [] k = VEOF -> IF canon THEN s.cc[4] ELSE s.cc[8]
                   [] k = VEOL -> IF canon THEN s.cc[5] ELSE s.cc[9]
                   [] k = VTIME /\ ~canon -> s.cc[5]
                   [] k = VMIN /\ ~canon -> s.cc[4]
                   [] OTHER -> t.cc[k]]
    IN  LinuxFlags(t, s, cc)
-----------------------------------------------------------------------------
(* UnixWare 7: the same bits, but FLUSHO; the high ones are not told.      *)
Uw7At == [k \in 0 .. 15 |->
            CASE k = 6 -> VEOL2 [] k = 11 -> VSUSP [] OTHER -> k]

TiocTcgets(t) ==
    LET canon == ICANON \in t.l
    IN  [i |-> t.i \cap 0 .. 12, o |-> t.o \cap 0 .. 15, c |-> t.c \cap 0 .. 15,
         l |-> (t.l \cap 0 .. 9) \cup (IF FLUSHO \in t.l THEN {13} ELSE {}),
         cc |-> [k \in 0 .. 15 |->
                   CASE k = 4 -> IF canon THEN t.cc[VEOF] ELSE t.cc[VMIN]
                     [] k = 5 -> IF canon THEN t.cc[VEOL] ELSE t.cc[VTIME]
                     [] OTHER -> t.cc[Uw7At[k]]]]

TiocTcsets(t, s) ==
    LET canon == ICANON \in s.l
    IN  [t EXCEPT
           !.i = s.i \ {15}, !.o = s.o, !.c = s.c,
           !.l = (s.l \ {12}) \cup (IF 13 \in s.l THEN {FLUSHO} ELSE {}),
           !.cc = [k \in Slots |->
                     CASE k \in 0 .. 3 \cup 7 .. 10 \cup 12 .. 15 -> s.cc[k]
                       [] k = VEOL2 -> s.cc[6]
                       [] k = VEOF /\ canon -> s.cc[4]
                       [] k = VEOL -> IF canon THEN s.cc[5] ELSE s.cc[6]
                       [] k = VMIN /\ ~canon -> s.cc[4]
                       [] k = VTIME /\ ~canon -> s.cc[5]
                       [] OTHER -> t.cc[k]]]
-----------------------------------------------------------------------------
(* BSD's termios.  VMIN and VTIME have slots of their own.                 *)
BsdAt == [k \in 0 .. 17 |->
            CASE k = 0 -> VEOF [] k = 1 -> VEOL [] k = 2 -> VEOL2 [] k = 3 -> VERASE
              [] k = 4 -> VWERASE [] k = 5 -> VKILL [] k = 6 -> VREPRINT
              [] k = 7 -> VSWTC [] k = 8 -> VINTR [] k = 9 -> VQUIT
              [] k = 10 -> VSUSP [] k = 11 -> VSUSP [] k = 12 -> VSTART
              [] k = 13 -> VSTOP [] k = 14 -> VLNEXT [] k = 15 -> VDISCARD
              [] k = 16 -> VMIN [] k = 17 -> VTIME]

(* The speeds up to 38400 are an index of speed_map; the output speed is   *)
(* told as the input speed when that is 0.                                 *)
LinuxToBsdSpeed(c) == c \cap (0 .. 3 \cup {12})
BsdToLinuxSpeed(speed) == speed

LinuxToBsdTermios(t) ==
    [i |-> (t.i \cap 0 .. 8) \cup Shr(t.i \cap {10}, 1) \cup Shr(t.i \cap {12}, 2)
             \cup Shr(t.i \cap {13}, 4),
     o |-> (t.o \cap {0}) \cup Shr(t.o \cap {2}, 1)
             \cup (IF {11, 12} \subseteq t.o THEN {2} ELSE {}),
     c |-> (t.c \cap 12 .. 30) \cup Shl(t.c \cap 4 .. 11, 4)
             \cup (IF CRTSCTS \in t.c THEN {16, 17} ELSE {}),
     speed |-> LinuxToBsdSpeed(t.c),
     l |-> (t.l \cap ({3, 10, 11, 13} \cup 16 .. 29))
             \cup Shl(t.l \cap {0, 1}, 7) \cup Shr(t.l \cap {4, 5, 6, 9}, 3)
             \cup Shl(t.l \cap {8}, 14) \cup Shr(t.l \cap {10}, 4)
             \cup Shr(t.l \cap {11}, 11) \cup Shl(t.l \cap {12}, 11)
             \cup Shl(t.l \cap {14}, 15) \cup Shr(t.l \cap {15}, 5),
     cc |-> [k \in 0 .. 17 |-> t.cc[BsdAt[k]]]]

BsdToLinuxTermios(t, s) ==
    LET c == (t.c \ 0 .. 11) \cup Shr(s.c \cap 8 .. 15, 4)
    IN  [t EXCEPT
           !.i = (s.i \ {10, 11}) \cup Shl(s.i \cap {10}, 1) \cup Shr(s.i \cap {11}, 1),
           !.o = (t.o \ {0, 2, 11, 12}) \cup (s.o \cap {0, 3}) \cup Shl(s.o \cap {1}, 1)
                   \cup Shl(s.o \cap {2}, 10) \cup Shl(s.o \cap {2}, 9),
           !.c = c \cup (IF c \cap {16, 17} # {} THEN {CRTSCTS} ELSE {})
                   \cup BsdToLinuxSpeed(s.speed) \cup Shl(BsdToLinuxSpeed(s.speed), 16),
           !.l = (t.l \ ({0, 1, 4, 5} \cup 7 .. 12 \cup {14, 15}))
                   \cup Shl(s.l \cap {0}, 12) \cup Shl(s.l \cap {1, 2, 6}, 3)
                   \cup Shl(s.l \cap {5, 10}, 5) \cup Shr(s.l \cap {7, 8}, 7)
                   \cup Shr(s.l \cap {22}, 14) \cup Shr(s.l \cap {23, 25}, 11)
                   \cup Shr(s.l \cap {31}, 24),
           !.cc = [k \in Slots |-> s.cc[CHOOSE j \in 0 .. 17 : BsdAt[j] = k]]]
-----------------------------------------------------------------------------
(* V7's sgttyb: TIOCGETP, TIOCSETP and TIOCSETN.  LITOUT is taken from the *)
(* lowest bit of the speed.                                                *)
Tiocgetp(t) ==
    [flags |-> Shr(t.c \cap {9}, 3) \cup Shr(t.c \cap {8}, 1)
                 \cup (IF 0 \in t.c THEN {} ELSE {21})
                 \cup Shl(t.o \cap {2}, 2) \cup (t.o \cap {8, 14})
                 \cup (IF t.o \cap {11, 12} # {} THEN {10} ELSE {})
                 \cup Shl(t.o \cap {9, 10}, 3) \cup Shl(t.o \cap {13}, 2)
                 \cup (t.l \cap {2, ECHO})
                 \cup (CASE ICANON \in t.l -> {}
                         [] ICANON \notin t.l /\ ISIG \in t.l -> {1}
                         [] OTHER -> {5}),
     cc |-> [k \in {VERASE, VKILL} |-> t.cc[k]]]

Tiocsetp(t, s) ==
    LET raw == 5 \in s.flags
        l == ({ISIG, ICANON} \ ((IF 1 \in s.flags THEN {ICANON} ELSE {})
                                \cup (IF raw THEN {ISIG, ICANON} ELSE {})))
               \cup (IF ECHO \in s.flags THEN {3, 4, 5, 9, 11, 15} ELSE {})
        o == IF 4 \in s.flags THEN {0, 2} ELSE {}
    IN  [t EXCEPT !.i = IF raw THEN {} ELSE {8, 10},
                  !.o = IF 21 \in s.flags THEN o \ {0} ELSE o,
                  !.l = l,
                  !.cc = [k \in Slots |->
                            CASE k \in {VERASE, VKILL} -> s.cc[k]
                              [] k = VMIN /\ ICANON \notin l -> 1
                              [] k = VTIME /\ ICANON \notin l -> 0
                              [] OTHER -> t.cc[k]]]

(* TIOCGETC and TIOCSETC: t_brkc is VEOL2.  TIOCGLTC and TIOCSLTC: t_flushc *)
(* is VEOL2 too, and set after t_dsuspc, which is told as VSUSP.           *)
Tchars == [intrc |-> VINTR, quitc |-> VQUIT, startc |-> VSTART, stopc |-> VSTOP,
           eofc |-> VEOF, brkc |-> VEOL2]
Ltchars == [suspc |-> VSUSP, rprntc |-> VREPRINT, flushc |-> VEOL2,
            werasc |-> VWERASE, lnextc |-> VLNEXT]
GetChars(at, t) == [f \in DOMAIN at |-> t.cc[at[f]]]
SetChars(at, t, s) ==
    [t EXCEPT !.cc = [k \in Slots |->
        LET f == {g \in DOMAIN at : at[g] = k}
        IN  IF f = {} THEN @[k] ELSE s[CHOOSE g \in f : TRUE]]]

(* svr4_termiox_ioctl: all of termiox but hardware flow control is refused. *)
TermioxGet(t) == [hflag |-> CRTSCTS \in t.c]
TermioxSet(t, s) ==
    [t EXCEPT !.c = IF s.hflag THEN @ \cup {CRTSCTS} ELSE @ \ {CRTSCTS}]
-----------------------------------------------------------------------------
Read(f, t, junk) ==
    CASE f = "termio" -> LinuxToSvrTermio(t)
      [] f = "svr4" -> LinuxToSvr4Termios(t, junk)
      [] f = "sco" -> LinuxToScoTermios(t)
      [] f = "uw7" -> TiocTcgets(t)
      [] f = "bsd" -> LinuxToBsdTermios(t)
      [] f = "sgtty" -> Tiocgetp(t)
      [] f = "tchars" -> GetChars(Tchars, t)
      [] f = "ltchars" -> GetChars(Ltchars, t)
      [] f = "termiox" -> TermioxGet(t)

Written(f, t, s) ==
    CASE f = "termio" -> SvrToLinuxTermio(t, s)
      [] f = "svr4" -> Svr4ToLinuxTermios(t, s)
      [] f = "sco" -> ScoToLinuxTermios(t, s)
      [] f = "uw7" -> TiocTcsets(t, s)
      [] f = "bsd" -> BsdToLinuxTermios(t, s)
      [] f = "sgtty" -> Tiocsetp(t, s)
      [] f = "tchars" -> SetChars(Tchars, t, s)
      [] f = "ltchars" -> SetChars(Ltchars, t, s)
      [] f = "termiox" -> TermioxSet(t, s)

(* The ioctl switches: the class of a request decides.  UnixWare takes 'T' *)
(* itself and has no termio; 't' is tapes for SVR4, unless it has BSD's    *)
(* high word.  An I_STR request starts again at SVR4's switch.             *)
BsdIoctlTermios == {"bsd", "sgtty", "tchars", "ltchars"}
Svr4Ioctl == {"termio", "svr4", "termiox"} \cup BsdIoctlTermios
ScoIoctl == {"termio", "svr4", "sco"} \cup BsdIoctlTermios
Uw7Ioctl == {"uw7", "termiox"} \cup BsdIoctlTermios
IStr == Svr4Ioctl
Reaches(p) ==
    (CASE p = "svr4" -> Svr4Ioctl [] p = "sco" -> ScoIoctl [] p = "uw7" -> Uw7Ioctl)
    \cup IStr
-----------------------------------------------------------------------------
FirstTty(i, o, c, l) ==
    [i |-> i, o |-> o, c |-> c, l |-> l, cc |-> [k \in Slots |-> k], excl |-> FALSE]
NoCopy == [format |-> "none"]

TerminalInit ==
    /\ per \in {"svr4", "sco", "uw7"}
    /\ \E i \in InFlags, o \in OutFlags, c \in CtlFlags, l \in LocalFlags :
           tty = FirstTty(i, o, c, l)
    /\ tcopy = NoCopy /\ saved = tty /\ saves = 0 /\ termDone = "none"

(* The settings are read, for the first time or again.                     *)
TermGet(f, junk) ==
    /\ f \in Reaches(per) /\ saves < MaxSaves
    /\ tcopy' = [format |-> f, data |-> Read(f, tty, junk)]
    /\ saved' = tty /\ saves' = saves + 1 /\ termDone' = "got"
    /\ UNCHANGED <<per, tty>>

(* The program turns line editing off and asks for single characters, as   *)
(* an editor does.                                                         *)
TermRaw ==
    /\ tcopy.format \in {"termio", "svr4", "sco", "uw7", "bsd", "sgtty"}
    /\ termDone = "got"
    /\ LET f == tcopy.format
           s == tcopy.data
           raw == CASE f = "bsd" -> [s EXCEPT !.l = @ \ {8}, !.cc[16] = 1, !.cc[17] = 0]
                    [] f = "sgtty" -> [s EXCEPT !.flags = @ \cup {1}]
                    [] OTHER -> [s EXCEPT !.l = @ \ {ICANON}, !.cc[4] = 1, !.cc[5] = 0]
       IN  tty' = Written(f, tty, raw)
    /\ termDone' = "raw"
    /\ UNCHANGED <<per, tcopy, saved, saves>>

(* It sets what it got.                                                    *)
TermRestore ==
    /\ tcopy # NoCopy /\ termDone \in {"got", "raw", "restored"}
    /\ tty' = Written(tcopy.format, tty, tcopy.data)
    /\ termDone' = "restored"
    /\ UNCHANGED <<per, tcopy, saved, saves>>

(* TIOCEXCL and TIOCNXCL, at any time.                                     *)
Tiocexcl(on) ==
    /\ tty' = [tty EXCEPT !.excl = on]
    /\ UNCHANGED <<per, tcopy, saved, saves, termDone>>

(* TIOCHPCL.  What it sets a structure without a c_cflag does not set      *)
(* back: the program uses it before it saves anything.                     *)
Tiochpcl(on) ==
    /\ termDone = "none"
    /\ tty' = [tty EXCEPT !.c = IF on THEN @ \cup {10} ELSE @ \ {10}]
    /\ UNCHANGED <<per, tcopy, saved, saves, termDone>>

TerminalNext ==
    \/ \E f \in Svr4Ioctl \cup ScoIoctl \cup Uw7Ioctl, junk \in Junk : TermGet(f, junk)
    \/ TermRaw \/ TermRestore
    \/ \E on \in BOOLEAN : Tiocexcl(on) \/ Tiochpcl(on)

TerminalSpec == TerminalInit /\ [][TerminalNext]_terminalVars
-----------------------------------------------------------------------------
(* Characters that restoring does not bring back: VMIN and VTIME where     *)
(* VEOF and VEOL share their slots; VEOL2, which SVR4's structure tells in *)
(* one slot and takes from another; VEOL, taken from VEOL2 in raw mode.    *)
LostChars(f, t) ==
    CASE f = "svr4" /\ ICANON \notin t.l -> {VEOL, VEOL2}
      [] f = "uw7" /\ ICANON \notin t.l -> {VEOL}
      [] f = "svr4" /\ ICANON \in t.l -> {VMIN, VTIME, VEOL2}
      [] f \in {"sco", "uw7"} /\ ICANON \in t.l -> {VMIN, VTIME}
      [] f = "sgtty" -> {VMIN, VTIME}
      [] OTHER -> {}

(* Local flags that it brings back.                                        *)
KeptLocal(f, t) ==
    CASE f \in {"termio", "tchars", "ltchars", "termiox"} -> 0 .. 16
      [] f \in {"svr4", "sco"} -> IF ECHOCTL \in t.l THEN 0 .. 16 \ {TOSTOP} ELSE 0 .. 16
      [] f = "uw7" -> 0 .. 9 \cup {FLUSHO}
      [] f = "bsd" -> {0, 1, 2, 3, 4, 5, 6, 8}
                       \cup (IF ECHOPRT \in t.l THEN {} ELSE {ECHOCTL, IEXTEN})
      [] f = "sgtty" -> IF {ICANON, ISIG} \cap t.l = {ICANON} THEN {ECHO} ELSE {ICANON, ISIG, ECHO}

(* A program that saves the terminal's settings, with any of the nine      *)
(* structures, turns line editing off and sets what it saved, leaves the   *)
(* terminal as it found it: the same characters, the same line editing,    *)
(* echo and job control flags, up to the losses named above, and the same  *)
(* speed if it is at most 38400.                                           *)
TerminalRestored ==
    termDone = "restored" =>
        /\ \A k \in Slots \ LostChars(tcopy.format, saved) : tty.cc[k] = saved.cc[k]
        /\ tty.l \cap KeptLocal(tcopy.format, saved)
             = saved.l \cap KeptLocal(tcopy.format, saved)
        /\ CBAUDEX \notin saved.c => tty.c \cap 0 .. 11 = saved.c \cap 0 .. 11
        /\ tcopy.format \notin {"uw7", "bsd"} => (CRTSCTS \in tty.c <=> CRTSCTS \in saved.c)
=============================================================================
