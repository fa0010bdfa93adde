------------------------------ MODULE MCLcall ------------------------------
(***************************************************************************)
(* Two programs: one that sets handlers, masks and suspends, and may be    *)
(* interrupted in its handlers; and one that faults, blocks SIGSEGV and    *)
(* jumps out of its handlers.                                              *)
(***************************************************************************)
EXTENDS Lcall

Careful ==
    [calls |-> {"signal", "sigset", "sigaction", "sigaction_sysv",
                "sigprocmask", "sigsuspend", "uname"},
     handlers |-> {"sigset"}, handled |-> Sig, blocked |-> {USR},
     inherited |-> {"dfl", "ign"}, maxFrames |-> 2]

Careless ==
    [calls |-> {"sigset", "sighold", "sigrelse", "sigignore", "sigpause",
                "fault", "uname"},
     handlers |-> {"sigset", "longjmp", "uname"}, handled |-> Sig,
     blocked |-> Sig, inherited |-> {"dfl", "ign"}, maxFrames |-> 1]

MCPrograms == {Careful, Careless}
=============================================================================
