----------------------------- MODULE Personality -----------------------------
(***************************************************************************)
(* What distinguishes the personalities (per-isc, per-sco with Xenix,      *)
(* per-solaris, per-uw7 and per-wyse /sysent.c, per-cxenix/sysent.c): the  *)
(* tables of system calls, of error numbers and of signals, and the lookup *)
(* in them (ibcs/map.c).                                                   *)
(*                                                                         *)
(* A table of calls is a set of triples: the number, the handler, and the  *)
(* calling convention (how many arguments, or Spl, Fast; Linux for a call  *)
(* handed to Linux under a number of its own).  A number a table lists     *)
(* without a handler is left out.  The other tables are given by what they *)
(* change in that of ISC.  Names and argument formats serve tracing only.  *)
(***************************************************************************)
EXTENDS Integers, Sequences

Personalities == {"isc", "sco", "xenix", "solaris", "uw7", "wyse"}

Spl == 115          \* 's': pass the regs structure
Fast == 102         \* 'f': pass regs, error set up on return
Linux == -1         \* the handler is the number of a Linux system call

Changed(table, dropped, new) ==
    new \cup {e \in table : e[1] \notin dropped /\ \A c \in new : c[1] # e[1]}

Calls(table) ==
    [n \in {e[1] : e \in table} |->
        LET e == CHOOSE e \in table : e[1] = n
        IN  [handler |-> e[2], nargs |-> e[3]]]
-----------------------------------------------------------------------------
IscLow ==
    {<<0, "abi_syscall", Fast>>, <<1, "exit", Linux>>,
     <<2, "abi_fork", Spl>>, <<3, "abi_read", 3>>, <<4, "write", Linux>>,
     <<5, "svr4_open", 3>>, <<6, "close", Linux>>, <<7, "abi_wait", Spl>>,
     <<8, "creat", Linux>>, <<9, "link", Linux>>, <<10, "unlink", Linux>>,
     <<11, "abi_exec", Spl>>, <<12, "chdir", Linux>>, <<13, "abi_time", 0>>,
     <<14, "svr4_mknod", 3>>, <<15, "chmod", Linux>>, <<16, "chown", Linux>>,
     <<17, "abi_brk", 1>>, <<18, "svr4_stat", 2>>, <<19, "lseek", Linux>>,
     <<20, "abi_getpid", Spl>>, <<22, "umount", Linux>>,
     <<23, "setuid", Linux>>, <<24, "abi_getuid", Spl>>,
     <<25, "abi_stime", 1>>, <<27, "alarm", Linux>>, <<28, "svr4_fstat", 2>>,
     <<29, "pause", Linux>>, <<30, "abi_utime", 2>>, <<33, "access", Linux>>,
     <<34, "nice", Linux>>, <<35, "svr4_statfs", 4>>, <<36, "sync", Linux>>,
     <<37, "abi_kill", 2>>, <<38, "svr4_fstatfs", 4>>,
     <<39, "abi_procids", Spl>>, <<41, "dup", Linux>>,
     <<42, "abi_pipe", Spl>>, <<43, "times", Linux>>,
     <<46, "setgid", Linux>>, <<47, "abi_getgid", Spl>>,
     <<48, "abi_sigfunc", Fast>>, <<49, "svr4_msgsys", Spl>>,
     <<50, "svr4_sysi86", 3>>, <<51, "acct", Linux>>,
     <<52, "svr4_shmsys", Fast>>, <<53, "svr4_semsys", Spl>>,
     <<54, "svr4_ioctl", Spl>>, <<57, "v7_utsname", 1>>,
     <<58, "fsync", Linux>>, <<59, "abi_exec", Spl>>, <<60, "umask", Linux>>,
     <<61, "chroot", Linux>>, <<62, "svr4_fcntl", 3>>,
     <<63, "svr4_ulimit", 2>>, <<76, "abi_debug", Spl>>,
     <<79, "rmdir", Linux>>, <<80, "abi_mkdir", 2>>,
     <<81, "svr4_getdents", 3>>, <<84, "svr4_sysfs", 3>>,
     <<85, "svr4_getmsg", Spl>>, <<86, "svr4_putmsg", Spl>>,
     <<87, "poll", Linux>>, <<88, "svr4_lstat", 2>>,
     <<89, "symlink", Linux>>, <<90, "readlink", Linux>>,
     <<91, "setgroups32", Linux>>, <<92, "getgroups32", Linux>>,
     <<93, "fchmod", Linux>>, <<94, "fchown", Linux>>,
     <<95, "abi_sigprocmask", 3>>, <<96, "abi_sigsuspend", Spl>>,
     <<98, "abi_sigaction", 3>>, <<99, "svr4_sigpending", 2>>}

IscHigh ==
    {<<100, "svr4_context", Spl>>, <<103, "svr4_statvfs", 2>>,
     <<104, "svr4_fstatvfs", 2>>, <<105, "isc_sysisc", Fast>>,
     <<109, "svr4_hrtsys", Spl>>, <<113, "svr4_pathconf", 2>>,
     <<115, "svr4_mmap", 6>>, <<116, "mprotect", Linux>>,
     <<117, "munmap", Linux>>, <<118, "svr4_fpathconf", 2>>,
     <<119, "abi_fork", Spl>>, <<120, "fchdir", Linux>>,
     <<121, "readv", Linux>>, <<122, "writev", Linux>>,
     <<123, "svr4_xstat", 3>>, <<124, "svr4_lxstat", 3>>,
     <<125, "svr4_fxstat", 3>>, <<126, "svr4_xmknod", 4>>,
     <<128, "svr4_getrlimit", 2>>, <<129, "svr4_setrlimit", 2>>,
     <<132, "svr4_getpmsg", 5>>, <<133, "svr4_putpmsg", 5>>,
     <<134, "rename", Linux>>, <<135, "abi_utsname", 1>>,
     <<136, "svr4_setegid", 1>>, <<137, "svr4_sysconfig", 1>>,
     <<139, "svr4_sysinfo", 3>>, <<140, "socksys_syscall", 1>>,
     <<141, "svr4_seteuid", 1>>, <<169, "setitimer", Linux>>,
     <<170, "getitimer", Linux>>, <<171, "abi_gettime", 2>>,
     <<172, "abi_settime", 2>>, <<191, "truncate", Linux>>,
     <<192, "ftruncate", Linux>>}

ScoLow == Changed(IscLow, {88} \cup (93 .. 94),
    {<<19, "sco_lseek", 3>>, <<26, "sco_ptrace", 4>>, <<40, "cxenix", Fast>>,
     <<50, "sco_sysi86", 3>>, <<54, "sco_ioctl", Spl>>,
     <<62, "sco_fcntl", 3>>, <<81, "sco_getdents", 3>>,
     <<89, "sw_security", 6>>, <<90, "symlink", Linux>>,
     <<91, "svr4_lstat", 2>>, <<92, "readlink", Linux>>})

ScoHigh == Changed(IscHigh,
    {105, 139, 141} \cup (132 .. 137) \cup (169 .. 170) \cup (191 .. 192),
    {<<103, "sco_statvfs", 2>>, <<104, "sco_fstatvfs", 2>>,
     <<114, "mincore", Linux>>, <<115, "sco_mmap", 6>>,
     <<123, "sco_xstat", 3>>, <<124, "sco_lxstat", 3>>,
     <<125, "sco_fxstat", 3>>})

SolarisLow == IscLow

SolarisHigh == Changed(IscHigh, {105} \cup (169 .. 172) \cup (191 .. 192),
    {<<156, "abi_gettime", 2>>, <<157, "getitimer", Linux>>,
     <<158, "setitimer", Linux>>, <<173, "pread64", Linux>>,
     <<174, "pwrite64", Linux>>, <<175, "sol_llseek", Spl>>,
     <<185, "sol_acl", 4>>, <<199, "nanosleep", Linux>>,
     <<202, "setreuid", Linux>>, <<203, "setregid", Linux>>,
     <<213, "sol_getdents64", 3>>, <<214, "sol_mmap64", 7>>,
     <<215, "sol_stat64", 2>>, <<216, "sol_lstat64", 2>>,
     <<217, "sol_fstat64", 2>>, <<225, "sol_open64", 3>>,
     <<230, "solaris_socket", 3>>, <<231, "solaris_socketpair", 1>>,
     <<232, "solaris_bind", 3>>, <<233, "solaris_listen", 2>>,
     <<234, "solaris_accept", 3>>, <<235, "solaris_connect", 3>>,
     <<236, "solaris_shutdown", 2>>, <<237, "solaris_recv", 4>>,
     <<238, "solaris_recvfrom", 6>>, <<239, "solaris_recvmsg", 3>>,
     <<240, "solaris_send", 4>>, <<241, "solaris_sendmsg", 3>>,
     <<242, "solaris_sendto", 6>>, <<243, "solaris_getpeername", 3>>,
     <<244, "solaris_getsockname", 3>>, <<245, "solaris_getsockopt", 5>>,
     <<246, "solaris_setsockopt", 5>>})

Uw7Low == Changed(IscLow, {},
    {<<31, "uw7_stty", 2>>, <<32, "uw7_gtty", 2>>, <<33, "uw7_access", 2>>,
     <<54, "uw7_ioctl", Spl>>, <<80, "mkdir", Linux>>,
     <<97, "uw7_sigaltstack", 2>>})

Uw7High == Changed(IscHigh, {105},
    {<<100, "uw7_context", Spl>>, <<107, "svr4_waitid", 4>>,
     <<123, "uw7_xstat", 3>>, <<124, "uw7_lxstat", 3>>,
     <<125, "uw7_fxstat", 3>>, <<130, "lchown", Linux>>,
     <<136, "uw7_setegid", 1>>, <<141, "uw7_seteuid", 1>>,
     <<166, "uw7_mldmode", 1>>, <<189, "uw7_pread", 4>>,
     <<190, "uw7_pwrite", 4>>, <<195, "abi_fork", Spl>>,
     <<196, "abi_fork", Spl>>, <<206, "uw7_sleep", 1>>,
     <<216, "uw7_fstatvfs64", 2>>, <<217, "uw7_statvfs64", 2>>,
     <<218, "uw7_ftruncate64", 3>>, <<219, "uw7_truncate64", 3>>,
     <<220, "uw7_getrlimit64", 2>>, <<221, "uw7_setrlimit64", 2>>,
     <<222, "uw7_lseek64", 4>>, <<223, "uw7_mmap64", 7>>,
     <<224, "uw7_pread64", 5>>, <<225, "uw7_pwrite64", 5>>,
     <<226, "uw7_creat64", 2>>})

WyseLow == Changed(IscLow, (88 .. 96) \cup (98 .. 99),
    {<<26, "wyse_ptrace", 4>>})

WyseHigh == Changed(IscHigh, {100, 109, 113, 137} \cup (103 .. 105)
    \cup (115 .. 126) \cup (140 .. 141) \cup (169 .. 172) \cup (191 .. 192),
    {<<128, "svr4_lstat", 2>>, <<129, "readlink", Linux>>,
     <<130, "symlink", Linux>>, <<131, "wyse_class_tcp", Fast>>,
     <<132, "wyse_class_nfs", Fast>>, <<133, "wyse_gethostname", 2>>,
     <<134, "sethostname", Linux>>, <<135, "wyse_getdomainname", 2>>,
     <<136, "setdomainname", Linux>>, <<138, "setreuid", Linux>>,
     <<139, "setregid", Linux>>})

CxenixTable ==
    {<<1, "xnx_locking", 3>>, <<2, "xnx_creatsem", 2>>,
     <<3, "xnx_opensem", 1>>, <<4, "xnx_sigsem", 1>>,
     <<5, "xnx_waitsem", 1>>, <<6, "xnx_nbwaitsem", 1>>,
     <<7, "xnx_rdchk", 1>>, <<10, "ftruncate", Linux>>,
     <<11, "xnx_ftime", 1>>, <<12, "xnx_nap", 1>>, <<13, "xnx_sdget", 4>>,
     <<14, "xnx_sdfree", 1>>, <<15, "xnx_sdenter", 2>>,
     <<16, "xnx_sdleave", 1>>, <<17, "xnx_sdgetv", 1>>,
     <<18, "xnx_sdwaitv", 2>>, <<32, "xnx_proctl", 3>>,
     <<33, "xnx_execseg", 2>>, <<34, "xnx_unexecseg", 1>>,
     <<36, "newselect", Linux>>, <<37, "xnx_eaccess", 2>>,
     <<38, "xnx_paccess", 5>>, <<39, "xnx_sigaction", 3>>,
     <<40, "abi_sigprocmask", 3>>, <<41, "xnx_sigpending", 1>>,
     <<42, "abi_sigsuspend", Spl>>, <<43, "getgroups", Linux>>,
     <<44, "setgroups", Linux>>, <<45, "ibcs_sysconf", 1>>,
     <<46, "xnx_pathconf", 2>>, <<47, "xnx_fpathconf", 2>>,
     <<48, "rename", Linux>>, <<50, "xnx_utsname", 1>>,
     <<55, "getitimer", Linux>>, <<56, "setitimer", Linux>>}

SysiscTable ==
    {<<1, "isc_setostype", 1>>, <<2, "rename", Linux>>,
     <<3, "abi_sigaction", 3>>, <<4, "abi_sigprocmask", 3>>,
     <<6, "getgroups", Linux>>, <<7, "setgroups", Linux>>,
     <<10, "ibcs_sysconf", 1>>, <<11, "waitpid", Linux>>,
     <<12, "setsid", Linux>>, <<13, "setpgid", Linux>>,
     <<17, "abi_sigsuspend", Spl>>, <<18, "symlink", Linux>>,
     <<19, "readlink", Linux>>}

WyseTcpTable ==
    {<<0, "newselect", Linux>>, <<1, "wyse_socket", 3>>,
     <<2, "wyse_connect", Spl>>, <<3, "wyse_accept", Spl>>,
     <<4, "wyse_send", 4>>, <<5, "wyse_recv", 4>>, <<6, "wyse_bind", Spl>>,
     <<7, "wyse_setsockopt", 5>>, <<8, "wyse_listen", Spl>>,
     <<11, "wyse_getsockopt", 5>>, <<12, "wyse_recvfrom", 6>>,
     <<13, "wyse_sendto", 6>>, <<14, "wyse_shutdown", Spl>>,
     <<15, "wyse_socketpair", Spl>>, <<17, "wyse_getpeername", Spl>>,
     <<18, "wyse_getsockname", Spl>>, <<19, "wyse_wait3", 1>>}

(* The tables: how many entries each has, and the calls in it.  Xenix has  *)
(* SCO's.  The two sub-tables of Wyse and that of ISC are reached through  *)
(* an entry of the main one, as is that of Xenix in SCO's.                 *)
Tables ==
    [isc |-> [size |-> 216, calls |-> Calls(IscLow \cup IscHigh)],
     sco |-> [size |-> 173, calls |-> Calls(ScoLow \cup ScoHigh)],
     xenix |-> [size |-> 173, calls |-> Calls(ScoLow \cup ScoHigh)],
     solaris |-> [size |-> 256, calls |-> Calls(SolarisLow \cup SolarisHigh)],
     uw7 |-> [size |-> 251, calls |-> Calls(Uw7Low \cup Uw7High)],
     wyse |-> [size |-> 140, calls |-> Calls(WyseLow \cup WyseHigh)],
     cxenix |-> [size |-> 57, calls |-> Calls(CxenixTable)],
     sysisc |-> [size |-> 21, calls |-> Calls(SysiscTable)],
     tcp |-> [size |-> 20, calls |-> Calls(WyseTcpTable)],
     nfs |-> [size |-> 4, calls |-> Calls({})]]

(* The handlers that are functions of the saved registers.                 *)
TakesRegs ==
    {"abi_debug", "abi_exec", "abi_fork", "abi_getgid", "abi_getpid",
     "abi_getuid", "abi_pipe", "abi_procids", "abi_sigfunc", "abi_sigsuspend",
     "abi_syscall", "abi_wait", "cxenix", "isc_sysisc", "sco_ioctl",
     "sol_llseek", "svr4_context", "svr4_getmsg", "svr4_getpmsg",
     "svr4_hrtsys", "svr4_ioctl", "svr4_msgsys", "svr4_putmsg",
     "svr4_putpmsg", "svr4_semsys", "svr4_shmsys", "uw7_context", "uw7_ioctl",
     "wyse_accept", "wyse_bind", "wyse_class_nfs", "wyse_class_tcp",
     "wyse_connect", "wyse_getpeername", "wyse_getsockname", "wyse_listen",
     "wyse_shutdown", "wyse_socketpair"}
-----------------------------------------------------------------------------
(* Error numbers: Linux's 0 to 122 have an entry, and 512 to 514 (restart) *)
(* stand for EINTR.  The first 35 are the same everywhere.                 *)
EPERM == 1
EINTR == 4
EINVAL == 22
ENOSYS == 38

IscErrors ==
    <<45, 78, 46, 89, 93, 90, 90, 35, 36, 37, 38, 39, 40, 41, 42, 43, 44, 50,
      51, 52, 53, 54, 55, 56, 57, 60, 61, 62, 63, 64, 65, 66, 67, 68, 69, 70,
      71, 74, 76, 77, 79, 80, 81, 82, 83, 84, 85, 86, 87, 88, 91, 92, 94, 95,
      96, 97, 98, 99, 120, 121, 122, 123, 124, 125, 126, 127, 128, 129, 130,
      131, 132, 133, 134, 143, 144, 145, 146, 147, 148, 149, 150, 22, 135,
      137, 138, 139, 140, 28>>

ScoErrors ==
    <<45, 78, 46, 89, 145, 150, 90, 35, 36, 37, 38, 39, 40, 41, 42, 43, 44,
      50, 51, 52, 53, 54, 55, 56, 57, 60, 61, 62, 63, 64, 65, 66, 67, 68, 69,
      70, 71, 74, 76, 77, 79, 80, 81, 82, 83, 84, 85, 86, 87, 88, 152, 153,
      22, 93, 94, 95, 96, 118, 97, 98, 99, 100, 101, 102, 103, 104, 105, 106,
      107, 108, 63, 110, 111, 112, 113, 114, 115, 116, 117, 92, 91, 151, 135,
      137, 138, 139, 140, 28>>

SolarisErrors == IscErrors
Uw7Errors == IscErrors

WyseErrors ==
    <<45, 78, 46, 228, 46, 22, 231, 227, 200, 37, 38, 39, 40, 41, 42, 43, 44,
      50, 51, 52, 53, 54, 55, 56, 57, 60, 61, 62, 63, 64, 65, 66, 67, 68, 69,
      70, 71, 74, 76, 77, 22, 80, 81, 82, 83, 84, 85, 86, 87, 22, 4, 22, 233,
      203, 204, 205, 206, 207, 208, 209, 210, 211, 212, 213, 214, 215, 216,
      217, 218, 219, 220, 221, 222, 223, 224, 225, 226, 229, 230, 202, 201,
      237, 135, 137, 138, 139, 140, 234>>

ErrTable ==
    [isc |-> IscErrors, sco |-> ScoErrors, xenix |-> ScoErrors,
     solaris |-> SolarisErrors, uw7 |-> Uw7Errors, wyse |-> WyseErrors]

(* map_value, with the segments of every err_map and its default, EPERM.   *)
IAbiErrors(p, errno) ==
    CASE errno \in 0 .. 34 -> errno
      [] errno \in 35 .. 122 -> ErrTable[p][errno - 34]
      [] errno \in 512 .. 514 -> EINTR
      [] OTHER -> EPERM
-----------------------------------------------------------------------------
(* Signals: the program's numbers 1 to 32 to Linux's and back; -1 is none. *)
IscToLinux ==
    <<1, 2, 3, 4, 5, 6, 31, 8, 9, 31, 11, 31, 13, 14, 15, 10, 12, 17, 30, 28,
      -1, 29, 18, 19, 20, 21, 22, 26, 27, 24, 25, -1>>
LinuxToIsc ==
    <<1, 2, 3, 4, 5, 6, -1, 8, 9, 16, 11, 17, 13, 14, 15, 11, 18, 23, 24, 25,
      26, 27, 16, 30, 31, 28, 29, 20, 22, 19, -1, -1>>
ScoToLinux ==
    <<1, 2, 3, 4, 5, 6, 6, 8, 9, 7, 11, 31, 13, 14, 15, 10, 12, 17, 30, 28,
      23, 29, 19, 20, 18, 21, 22, 26, 27, 24, 25, -1>>
LinuxToSco ==
    <<1, 2, 3, 4, 5, 6, 10, 8, 9, 16, 11, 17, 13, 14, 15, 15, 18, 25, 23, 24,
      26, 27, 21, 30, 31, 28, 29, 20, 22, 19, 12, -1>>
XenixToLinux ==
    <<1, 2, 3, 4, 5, 6, 31, 8, 9, 31, 11, 31, 13, 14, 15, 10, 12, 17, 30, 29,
      -1, -1, -1, -1, -1, -1, -1, -1, -1, -1, -1, -1>>
LinuxToXenix ==
    <<1, 2, 3, 4, 5, 6, -1, 8, 9, 16, 11, 17, 13, 14, 15, 11, 18, 25, 23, 24,
      26, 27, 16, 30, 31, 28, 29, 20, 20, 19, -1, -1>>
SolarisToLinux ==
    <<1, 2, 3, 4, 5, 6, 31, 8, 9, 31, 11, 31, 13, 14, 15, 10, 12, 17, 30, 28,
      23, 29, 19, 20, 18, 21, 22, 26, 27, 24, 25, -1>>
LinuxToSolaris ==
    <<1, 2, 3, 4, 5, 6, -1, 8, 9, 16, 11, 17, 13, 14, 15, 11, 18, 25, 23, 24,
      26, 27, 21, 30, 31, 28, 29, 20, 22, 19, -1, -1>>
Uw7ToLinux == SolarisToLinux
LinuxToUw7 == LinuxToSolaris
WyseToLinux == SolarisToLinux
LinuxToWyse == LinuxToSolaris

SignalMap ==
    [isc |-> IscToLinux, sco |-> ScoToLinux, xenix |-> XenixToLinux,
     solaris |-> SolarisToLinux, uw7 |-> Uw7ToLinux, wyse |-> WyseToLinux]
SignalInvmap ==
    [isc |-> LinuxToIsc, sco |-> LinuxToSco, xenix |-> LinuxToXenix,
     solaris |-> LinuxToSolaris, uw7 |-> LinuxToUw7, wyse |-> LinuxToWyse]

(* map_sigvec_to_kernel, map_sigvec_from_kernel: sets of signals.          *)
SigvecToKernel(vec, map) == {map[s] : s \in {s \in vec : map[s] # -1}}
SigvecFromKernel(vec, map) == {map[s] : s \in {s \in vec : map[s] > 0}}
=============================================================================
