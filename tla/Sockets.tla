------------------------------- MODULE Sockets -------------------------------
(***************************************************************************)
(* Socket calls: socket, setsockopt, getsockopt, send and receive, and the *)
(* ioctls on a socket, through the three ways into them: socksys (the SCO, *)
(* ISC and SVR4 calls and the SIOCSOCKSYS ioctl), Wyse's class of tcp      *)
(* calls, and Solaris's own calls.  Families, types, options and flags are *)
(* renumbered on the way; some options are answered here because Linux had *)
(* none.  socksys renumbers in the program's own argument block.           *)
(*                                                                         *)
(* A program uses one socket.  Levels, options and types are the numbers   *)
(* of the code, flag words are sets of bit numbers.                        *)
(***************************************************************************)
EXTENDS Integers, Sequences, FiniteSets

CONSTANTS
    IpOptions,      \* options the program uses at level 0, from 1 on
    SockOptions,    \* and at level 0xffff
    MaxSet,         \* options it sets
    MsgFlags,       \* flag words it gives the message calls
    MaxQueue        \* messages a socket has room for

ASSUME SocketsAssumption ==
    /\ IpOptions \subseteq Nat \ {0} /\ SockOptions \subseteq Nat
    /\ MsgFlags \subseteq SUBSET (1 .. 7) /\ MaxQueue \in Nat /\ MaxSet \in Nat

VARIABLES
    via,        \* the way in
    kopts,      \* the values of Linux's options
    believed,   \* what the program set each of its options to
    meant,      \* what its last call meant
    block,      \* socksys: the argument block of that call, as it is now
    request,    \* what Linux was asked by it: <<>> if nothing
    heard,      \* what the program was told
    queue,      \* messages waiting at the socket
    due         \* those that wait there by the flags the program gave

socketVars == <<via, kopts, believed, meant, block, request, heard, queue, due>>

SolSocket == 65535          \* SOL_SOCKET for the program; 1 for Linux
Ioctl == -1                 \* stands for an ioctl where a level is expected
Unset == -1
ProgramOptions == ({0} \X IpOptions) \cup ({SolSocket} \X SockOptions)
                    \cup ({Ioctl} \X {1, 2})
-----------------------------------------------------------------------------
(* Linux: the options that take a flag, and the process group of a socket. *)
LinuxOptions == ({1} \X {1, 2, 5, 6, 9, 10, 13})
                    \cup ({0} \X ((1 .. 4) \cup (32 .. 36))) \cup {<<Ioctl, 1>>}

(* The *_sockopt_map of the personalities, and map_value: what is not in   *)
(* the map becomes 0.                                                      *)
SockoptMap ==
    {<<1, 1>>, <<2, 65536>>, <<4, 2>>, <<8, 9>>, <<16, 5>>, <<32, 6>>,
     <<64, 65282>>, <<128, 13>>, <<256, 10>>, <<512, 65283>>,
     <<1024, 65284>>, <<4097, 7>>, <<4098, 8>>, <<4099, 19>>, <<4100, 18>>,
     <<4101, 21>>, <<4102, 20>>, <<4103, 4>>, <<4104, 3>>, <<4105, 65289>>}
SocktypeMap == {<<1, 1>>, <<2, 2>>, <<3, 0>>, <<4, 3>>, <<5, 4>>, <<6, 5>>}
AfMap == {<<0, 0>>, <<1, 1>>, <<2, 2>>}

MapValue(map, val) ==
    IF \E m \in map : m[1] = val THEN (CHOOSE m \in map : m[1] = val)[2] ELSE 0

(* The options at level 0: one less, the first is Linux's 4, those above   *)
(* are the multicast options, and the rest are refused (-1).               *)
IpOption(name) ==
    LET n == IF name = 1 THEN 4 ELSE name - 1
        m == IF n + 24 <= 33 THEN n + 23 ELSE n + 24
    IN  IF n <= 4 THEN n ELSE IF m \in 32 .. 36 THEN m ELSE -1

(* Options of Linux's that are answered here, by setsockopt and by         *)
(* getsockopt: accepted, refused, or told to be 0 or 1.                    *)
Linger == 13
Accepted == {65282, 19, 18}             \* USELOOPBACK, SNDLOWAT, RCVLOWAT
Refused == {65283, 21, 20}              \* ORDREL, SNDTIMEO, RCVTIMEO
Prototype == 65289
Imasocket == 65284

OnSet(name, len) ==
    CASE name = Linger /\ len = 4 -> "accept"
      [] name \in Refused \cup {Prototype, Imasocket} -> "refuse"
      [] name \in Accepted -> "accept"
      [] OTHER -> "linux"

OnGet(name, len) ==
    CASE name = Linger /\ len = 4 -> "tell 0"
      [] name = Prototype -> "tell 0"
      [] name \in Refused -> "refuse"
      [] name \in Accepted -> IF via = "wyse" THEN "accept" ELSE "tell 1"
      [] name = Imasocket -> "tell 1"
      [] OTHER -> "linux"

Here(name, len, set) == IF set THEN OnSet(name, len) ELSE OnGet(name, len)
-----------------------------------------------------------------------------
(* What becomes of a call on option b.name at b.level: the level and name  *)
(* Linux will be asked for, and whether it is asked.                       *)
Asks(level, name, how) == [level |-> level, name |-> name, how |-> how]

(* abi_do_setsockopt and abi_do_getsockopt.                                *)
SocksysOption(b, set) ==
    LET name == MapValue(SockoptMap, b.name)
    IN  CASE b.level = 0 -> Asks(0, IpOption(b.name),
                                 IF IpOption(b.name) = -1 THEN "refuse" ELSE "linux")
          [] b.level = SolSocket -> Asks(1, name, Here(name, b.len, set))
          [] OTHER -> Asks(b.level, b.name, "linux")

(* wyse_setsockopt and wyse_getsockopt: the first options of level 0 fall  *)
(* through to those of the socket.                                         *)
WyseOption(b, set) ==
    LET ip == IpOption(b.name)
        name == MapValue(SockoptMap, IF b.level = 0 THEN ip ELSE b.name)
    IN  CASE b.level = 0 /\ ip = -1 -> Asks(0, ip, "refuse")
          [] b.level = 0 /\ ip > 4 -> Asks(0, ip, "linux")
          [] b.level = SolSocket \/ (b.level = 0 /\ ip \in 0 .. 4) ->
                Asks(1, name, Here(name, b.len, set))
          [] OTHER -> Asks(b.level, b.name, "linux")

(* solaris_to_linux_sockopt and sunos_setsockopt.  The level stays.        *)
SolarisOption(b, set) ==
    LET tr == CASE b.name = 4099 -> 19 [] b.name = 4100 -> 18
                [] b.name = 4101 -> 21 [] b.name = 4102 -> 20
                [] b.name = 8192 -> IF set THEN 14 ELSE 8192
                [] OTHER -> b.name
        ip == IF b.level = 0 /\ tr \in 2 .. 6 THEN tr + 30 ELSE tr
    IN  Asks(b.level, ip, IF set /\ tr = 14 THEN "accept" ELSE "linux")

(* Mutant: the process group is answered like the watermarks.              *)
SocketIoctlLies(b, set) ==
    Asks(Ioctl, b.name, CASE set /\ b.name = 1 -> "linux"
                          [] set /\ b.name # 1 -> "accept"
                          [] OTHER -> "tell 0")

(* abi_ioctl_socksys: the process group (1) is Linux's, the watermarks (2) *)
(* are accepted and told to be 0.                                          *)
SocketIoctl(b, set) ==
    Asks(Ioctl, b.name, CASE b.name = 1 -> "linux"
                          [] b.name # 1 /\ set -> "accept"
                          [] OTHER -> "tell 0")

OptionCall(b, set) ==
    IF b.level = Ioctl THEN SocketIoctl(b, set)
    ELSE CASE via = "socksys" -> SocksysOption(b, set)
           [] via = "wyse" -> WyseOption(b, set)
           [] via = "solaris" -> SolarisOption(b, set)

NoBlock == [call |-> "none", level |-> 0, name |-> 0, len |-> 0, value |-> 0,
            again |-> FALSE]

(* Mutant: the level is not put back into the block.                       *)
PutBackNameOnly(b, c) ==
    IF via # "socksys" THEN NoBlock
    ELSE IF b.level \in {0, SolSocket} /\ c.name # -1 THEN [b EXCEPT !.name = c.name]
    ELSE b

(* socksys puts the numbers it is going to use into the argument block.    *)
(* The other ways in leave the arguments alone.                            *)
PutBack(b, c) ==
    IF via # "socksys" THEN NoBlock
    ELSE IF b.level \in {0, SolSocket} /\ c.name # -1
         THEN [b EXCEPT !.level = c.level, !.name = c.name]
         ELSE b

(* What the program knows after it set an option; it no longer knows the   *)
(* options of level 0 once it has repeated a call on one of them.          *)
Knows(b, what, v) ==
    [o \in ProgramOptions |->
        IF b.again /\ b.level = 0 /\ o[1] = 0 THEN Unset
        ELSE IF o = what THEN v ELSE believed[o]]

(* setsockopt with argument block b; what is the option it means.          *)
SetSockopt(b, what, v) ==
    LET c == OptionCall(b, TRUE)
        linux == c.how = "linux" /\ <<c.level, c.name>> \in LinuxOptions
        ok == c.how = "accept" \/ linux
    IN  /\ Cardinality({o \in ProgramOptions : believed[o] # Unset} \cup {what})
              <= MaxSet
        /\ block' = PutBack(b, c) /\ meant' = what
        /\ request' = IF c.how = "linux" THEN <<c.level, c.name>> ELSE <<>>
        /\ kopts' = IF linux THEN [kopts EXCEPT ![<<c.level, c.name>>] = v] ELSE kopts
        /\ believed' = IF ok THEN Knows(b, what, v) ELSE believed
        /\ heard' = [call |-> "set", ok |-> ok, value |-> Unset]
        /\ UNCHANGED <<via, queue, due>>

(* getsockopt.  Unset in "heard" is a buffer that was not written.         *)
GetSockopt(b, what) ==
    LET c == OptionCall(b, FALSE)
        linux == c.how = "linux" /\ <<c.level, c.name>> \in LinuxOptions
        value == CASE linux -> kopts[<<c.level, c.name>>]
                   [] c.how = "tell 0" -> 0
                   [] c.how = "tell 1" -> 1
                   [] OTHER -> Unset
    IN  /\ block' = PutBack(b, c) /\ meant' = what
        /\ request' = IF c.how = "linux" THEN <<c.level, c.name>> ELSE <<>>
        /\ heard' = [call |-> "get", ok |-> linux \/ value # Unset \/ c.how = "accept",
                     value |-> value]
        /\ UNCHANGED <<via, kopts, believed, queue, due>>

(* socksys_socket, wyse_socket, solaris_socket with socket_check.  Linux   *)
(* makes sockets of types 1 to 5 in families 1 and 2.  The program's       *)
(* socket stays the one it has.                                            *)
SolarisTypes == {<<2, 1>>, <<1, 2>>, <<4, 3>>, <<5, 4>>, <<6, 5>>}
Socket(b) ==
    LET family == IF via = "solaris" THEN b.level ELSE MapValue(AfMap, b.level)
        type == CASE via = "socksys" -> MapValue(SocktypeMap, b.name)
                  [] via = "wyse" -> MapValue(SocktypeMap, family)
                  [] OTHER -> MapValue(SolarisTypes, b.name)
        refused == via = "solaris" /\ (family \notin {1, 2} \/ type = 0)
    IN  /\ block' = IF via = "socksys"
                    THEN [b EXCEPT !.level = family, !.name = type]
                    ELSE NoBlock
        /\ meant' = <<b.level, b.name>>
        /\ request' = IF refused THEN <<>> ELSE <<family, type>>
        /\ heard' = [call |-> "socket", value |-> Unset,
                     ok |-> ~refused /\ family \in {1, 2} /\ type \in 1 .. 5]
        /\ UNCHANGED <<via, kopts, believed, queue, due>>

(* The program repeats a call with the block as it is now.                 *)
Again ==
    /\ via = "socksys" /\ block.call # "none"
    /\ LET b == [block EXCEPT !.again = TRUE]
       IN  \/ b.call = "set" /\ SetSockopt(b, meant, b.value)
           \/ b.call = "get" /\ GetSockopt(b, meant)
           \/ b.call = "socket" /\ Socket(b)
-----------------------------------------------------------------------------
(* Bits: 1 PEEK, 2 DONTROUTE; then EOR, CTRUNC, TRUNC, WAITALL and         *)
(* DONTWAIT, which Solaris and Linux number differently.  Urgent data      *)
(* (bit 0) is left out.                                                    *)
FlagPairs == {<<0, 0>>, <<1, 1>>, <<2, 2>>, <<3, 7>>, <<4, 3>>, <<5, 5>>,
              <<6, 8>>, <<7, 6>>}

(* Mutant: the flags of Solaris's calls are taken for Linux's.             *)
SolarisFlagsKept(flags) == flags

SolarisToLinuxMsgflags(flags) == {p[2] : p \in {q \in FlagPairs : q[1] \in flags}}

(* solaris_send and solaris_sendto, on a socket whose peer is itself.      *)
(* Linux waits for room unless it is told not to (bit 6).                  *)
Send(flags, m) ==
    LET full == Len(queue) >= MaxQueue
    IN  /\ via = "solaris"
        /\ full => 6 \in SolarisToLinuxMsgflags(flags)
        /\ queue' = IF full THEN queue ELSE Append(queue, m)
        /\ due' = IF full THEN due ELSE Append(due, m)
        /\ heard' = [call |-> "send", ok |-> ~full, flags |-> flags, value |-> Unset]
        /\ UNCHANGED <<via, kopts, believed, meant, block, request>>

(* solaris_recv and solaris_recvfrom.  Linux waits for a message unless it *)
(* is told not to, and takes it off the queue unless it is told to peek.   *)
Recv(flags) ==
    LET fl == SolarisToLinuxMsgflags(flags)
        Oldest(q) == IF q = <<>> THEN Unset ELSE Head(q)
        Rest(q, peek) == IF q = <<>> \/ peek THEN q ELSE Tail(q)
    IN  /\ via = "solaris"
        /\ queue = <<>> => 6 \in fl
        /\ queue' = Rest(queue, 1 \in fl)
        /\ due' = Rest(due, 1 \in flags)
        /\ heard' = [call |-> "recv", ok |-> queue # <<>>, flags |-> flags,
                     value |-> Oldest(queue), due |-> Oldest(due)]
        /\ UNCHANGED <<via, kopts, believed, meant, block, request>>
-----------------------------------------------------------------------------
SocketsInit ==
    /\ via \in {"socksys", "wyse", "solaris"}
    /\ kopts = [o \in LinuxOptions |-> 0]
    /\ believed = [o \in ProgramOptions |-> Unset]
    /\ meant = <<>> /\ block = NoBlock /\ request = <<>>
    /\ heard = [call |-> "none", ok |-> TRUE, value |-> Unset]
    /\ queue = <<>> /\ due = <<>>

Block(call, what, len, v) ==
    [call |-> call, level |-> what[1], name |-> what[2], len |-> len, value |-> v,
     again |-> FALSE]

(* Only LINGER is given in two lengths.                                    *)
Lengths(o) == IF o = <<SolSocket, 128>> THEN {4, 8} ELSE {4}

OptionsNext ==
    \/ \E o \in ProgramOptions, v \in {0, 1} : \E len \in Lengths(o) :
          SetSockopt(Block("set", o, len, v), o, v)
    \/ \E o \in ProgramOptions : \E len \in Lengths(o) :
          GetSockopt(Block("get", o, len, 0), o)
    \/ \E f \in {2, 3}, t \in {1, 2, 4, 7} :
          Socket(Block("socket", <<f, t>>, 0, 0))
    \/ Again

MessagesNext ==
    \/ \E flags \in MsgFlags, m \in {0, 1} : Send(flags, m)
    \/ \E flags \in MsgFlags : Recv(flags)

OptionsSpec == SocketsInit /\ [][OptionsNext]_socketVars
MessagesSpec == SocketsInit /\ [][MessagesNext]_socketVars
-----------------------------------------------------------------------------
(* What the emulator answers itself, and says so: LINGER as an int, the    *)
(* options it accepts, the watermarks.                                     *)
AnsweredHere == {<<SolSocket, n>> : n \in {64, 128, 4099, 4100, 8192}}
                    \cup {<<Ioctl, 2>>, <<0, 8192>>}
(* Options that share one of Linux's: the first and the fifth of level 0,  *)
(* and for Wyse any of the first five and an option of the socket.  For    *)
(* Solaris those that have the numbers the renumbered ones get.            *)
Shared ==
    \/ via # "solaris" /\ meant \in {<<0, 1>>, <<0, 5>>}
    \/ via = "wyse" /\ \E n \in IpOptions \cap (1 .. 5) : believed[<<0, n>>] # Unset
    \/ via = "solaris" /\ \E n \in IpOptions \cap (32 .. 36) : believed[<<0, n>>] # Unset

(* A program that set an option, and was told it was set, reads back the   *)
(* value it set, whatever it set in between: no other option it knows      *)
(* shares Linux's, but for the ones named, and a repeated call on an       *)
(* option of level 0, which is one on another option.                      *)
OptionReadBack ==
    (heard.call = "get" /\ heard.value # Unset /\ believed[meant] # Unset
        /\ meant \notin AnsweredHere /\ ~Shared /\ ~(block.again /\ block.level = 0))
        => heard.value = believed[meant]

(* A call repeated with the block socksys renumbered asks Linux for what   *)
(* it asked the first time.  It does not for the options of level 0 and    *)
(* for the types that are renumbered, which are renumbered again, nor for  *)
(* an option that was answered here: Linux sees it the second time.        *)
RepeatAsksTheSame ==
    [][(Again /\ block # NoBlock /\ request # <<>>
            /\ ~(block.call # "socket" /\ block.level = 0)
            /\ ~(block.call = "socket" /\ block.name >= 3))
        => request' = request]_socketVars

(* A send or a receive fails only if the program asked not to wait, and a  *)
(* receive gives it the oldest message it has not taken yet by its own     *)
(* flags, peeked at or not: none is given twice, out of turn or never, and *)
(* one fails only when none is due (solaris_to_linux_msgflags).            *)
ReceivesAsAsked ==
    heard.call \in {"send", "recv"} =>
        /\ ~heard.ok => 7 \in heard.flags
        /\ heard.call = "recv" => heard.value = heard.due
=============================================================================
