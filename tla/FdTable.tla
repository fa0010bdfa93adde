------------------------------ MODULE FdTable ------------------------------
(***************************************************************************)
(* The file table of ibcs/linux26-compat.c and the emulated character      *)
(* devices of per-svr4/socksys.c that live in it.                          *)
(*                                                                         *)
(* The emulator runs in user space, so the kernel has its own table of     *)
(* descriptors.  Beside it fdt->fd[] keeps a struct file for some of them: *)
(* those somebody called fget() on.  A struct file says which              *)
(* file_operations a read or write goes to and which mode and device       *)
(* number fstat reports.  /dev/socksys and /dev/spx do not exist: opening  *)
(* them opens the directory /dev and puts the driver's operations into the *)
(* struct file.  The two tables meet only in the linux26_ system calls.    *)
(***************************************************************************)
EXTENDS Integers, FiniteSets, FiniteSetsExt

CONSTANTS
    NFDS,       \* descriptors the process may have
    StartFd,    \* the descriptor the loader's own fget() used
    FdCalls     \* the system calls the emulated program makes

ASSUME NfdsAssumption == NFDS \in Nat \ {0} /\ StartFd \in 0 .. NFDS - 1

Fd == 0 .. NFDS - 1

(* What a kernel descriptor refers to.  "socksys" and "spx" are the        *)
(* directory opened in place of the device.                                *)
Closed == "closed"
Device == {"socksys", "spx"}

NoFile == [ops |-> "none"]

VARIABLES
    tab,        \* [kern, file, max]: the kernel's table, fdt->fd, fdt->max_fds
    wild        \* a word beyond fdt->fd[] was used as a struct file

fdTableVars == <<tab, wild>>
-----------------------------------------------------------------------------
(* fget, fdestroy and fput, as functions of the tables.                    *)

NewFile(kind) == [ops |-> "file",
                  mode |-> IF kind = "sock" THEN "sock" ELSE "file",
                  minor |-> -1,
                  isopen |-> kind # Closed, count |-> 0]

Fget(t, fd) ==
    LET grown == [t EXCEPT !.max = IF @ <= fd THEN (fd + 1) * 2 ELSE @]
        known == IF t.file[fd] # NoFile THEN grown
                 ELSE [grown EXCEPT !.file[fd] = NewFile(t.kern[fd])]
    IN  [known EXCEPT !.file[fd].count = @ + 1]

Fdestroy(t, fd) ==
    IF t.file[fd].count = 0 /\ ~t.file[fd].isopen
    THEN [t EXCEPT !.file[fd] = NoFile] ELSE t

Fput(t, fd) == Fdestroy([t EXCEPT !.file[fd].count = @ - 1], fd)

(* The kernel hands out the lowest free descriptor.                        *)
FreeFds(t) == {fd \in Fd : t.kern[fd] = Closed}
Lowest(t) == Min(FreeFds(t))

(* Mutant: the struct file outlives the descriptor.                        *)
CloseKernelOnly(t, fd) == [t EXCEPT !.kern[fd] = Closed]

(* linux26_close.                                                          *)
Close(t, fd) ==
    LET own == IF fd < t.max /\ t.file[fd] # NoFile
               THEN Fdestroy([t EXCEPT !.file[fd].isopen = FALSE], fd) ELSE t
    IN  [own EXCEPT !.kern[fd] = Closed]

(* linux26_dup once the kernel has made new refer to what fd refers to:    *)
(* the operations and the inode are copied.                                *)
DupFile(t, fd, new) ==
    LET kern == [t EXCEPT !.kern[new] = t.kern[fd]]
        got == Fget(kern, new)
        old == t.file[fd]
    IN  IF t.file[fd] = NoFile THEN kern
        ELSE Fput([got EXCEPT !.file[new].ops = old.ops,
                              !.file[new].mode = old.mode,
                              !.file[new].minor = old.minor], new)

(* open_chrdev: linux26_fopen("/dev"), then the driver's operations.       *)
OpenChrdev(t, dev) ==
    LET fd == Lowest(t)
        got == Fget([t EXCEPT !.kern[fd] = dev], fd)
    IN  Fput([got EXCEPT !.file[fd].mode = "chr",
                         !.file[fd].minor = IF dev = "spx" THEN 1 ELSE 0,
                         !.file[fd].ops = "chrdev"], fd)

(* inherit_socksys_funcs.                                                  *)
Inherit(t, fd) ==
    LET got == Fget(t, fd)
    IN  Fput([got EXCEPT !.file[fd].mode = "chr", !.file[fd].minor = 0,
                         !.file[fd].ops = "socket"], fd)

(* socksys_fdinit for the spx device, then the unmatched fput() and the    *)
(* fget() of socksys_read and socksys_write.                               *)
SpxConnect(t, fd) ==
    LET probed == Fput(Fget(t, fd), fd)
        sock == Lowest(probed)
        opened == Inherit([probed EXCEPT !.kern[sock] = "sock"], sock)
        swapped == Close(DupFile(opened, sock, fd), sock)
    IN  Fget(Fput(swapped, fd), fd)
-----------------------------------------------------------------------------
(* At the start the program has one inherited descriptor, a file or (from  *)
(* inetd) a socket; the loader's fget() has sized the table.               *)
FdTableInit ==
    /\ \E k \in {"file", "sock"} :
          tab = [kern |-> [fd \in Fd |-> IF fd = 0 THEN k ELSE Closed],
                 file |-> [fd \in Fd |-> NoFile],
                 max |-> (StartFd + 1) * 2]
    /\ wild = FALSE

May(c) == c \in FdCalls /\ ~wild
IsOpen(fd) == tab.kern[fd] # Closed

Open ==
    /\ May("open") /\ FreeFds(tab) # {}
    /\ tab' = [tab EXCEPT !.kern[Lowest(tab)] = "file"]
    /\ UNCHANGED wild

OpenDevice(dev) ==
    /\ May("open") /\ FreeFds(tab) # {}
    /\ tab' = OpenChrdev(tab, dev)
    /\ UNCHANGED wild

(* SSYS_SO_SOCKET and SSYS_SO_ACCEPT.                                      *)
SocksysSocket ==
    /\ May("socket") /\ FreeFds(tab) # {}
    /\ tab' = Inherit([tab EXCEPT !.kern[Lowest(tab)] = "sock"], Lowest(tab))
    /\ UNCHANGED wild

CloseFd(fd) ==
    /\ May("close") /\ IsOpen(fd)
    /\ tab' = Close(tab, fd)
    /\ UNCHANGED wild

(* linux26_read, _write, _dup and _fstat look at fdt->fd[fd] unless        *)
(* fd > max_fds, so for fd = max_fds they take the word beyond the array,  *)
(* here the header of the next ibcs_malloc block, for a struct file.       *)
BeyondTable(fd) == fd = tab.max

(* Mutant: dup does not tell the table.                                    *)
DupKernelOnly(fd, new) ==
    /\ tab' = [tab EXCEPT !.kern[new] = tab.kern[fd]]
    /\ UNCHANGED wild

DupTo(fd, new) ==
    /\ tab' = IF BeyondTable(fd) THEN [tab EXCEPT !.kern[new] = tab.kern[fd]]
                                 ELSE DupFile(tab, fd, new)
    /\ wild' = BeyondTable(fd)

Dup(fd) ==
    /\ May("dup") /\ IsOpen(fd) /\ FreeFds(tab) # {}
    /\ DupTo(fd, Lowest(tab))

Dup2(fd, fd2) ==
    /\ May("dup2") /\ IsOpen(fd) /\ fd # fd2
    /\ DupTo(fd, fd2)

(* svr4_fcntl passes F_DUPFD to the kernel.                                *)
FcntlDupFd(fd) ==
    /\ May("F_DUPFD") /\ IsOpen(fd) /\ FreeFds(tab) # {}
    /\ tab' = [tab EXCEPT !.kern[Lowest(tab)] = tab.kern[fd]]
    /\ UNCHANGED wild

(* A call with an fget() and an fput() and nothing between: SCO's lseek.   *)
UseFile(fd) ==
    /\ May("ioctl")
    /\ tab' = Fput(Fget(tab, fd), fd)
    /\ UNCHANGED wild

(* read and write: the driver's only if there is a struct file that says   *)
(* so.  The socksys device refuses, the spx device connects first.         *)
ReadWrite(fd) ==
    LET f == tab.file[fd]
    IN  /\ May("read") /\ IsOpen(fd)
        /\ \/ BeyondTable(fd) /\ wild' = TRUE /\ UNCHANGED tab
           \/ /\ f.ops = "chrdev" /\ f.minor = 1 /\ FreeFds(tab) # {}
              /\ tab' = SpxConnect(tab, fd)
              /\ UNCHANGED wild

(* SSYS_SO_SOCKPAIR: refused unless the first descriptor's inode is a      *)
(* socket, which no inode is once inherit_socksys_funcs has been at it.    *)
(* Otherwise both descriptors are closed, and then SOCKET_I follows the    *)
(* i_dentry no inode has: the fault ends the call there, and a program     *)
(* whose handler jumps out of it goes on without the two.                  *)
SocksysPair(f0, f1) ==
    LET got == Fput(Fget(tab, f0), f0)
    IN  /\ May("socketpair")
        /\ tab' = IF Fget(tab, f0).file[f0].mode = "sock"
                  THEN Close(Close(got, f0), f1) ELSE got
        /\ UNCHANGED wild

(* What happens once a wild struct file has been followed is anybody's     *)
(* guess; the model stops.                                                 *)
Lost == wild /\ UNCHANGED fdTableVars

FdTableNext ==
    \/ Lost
    \/ Open \/ SocksysSocket
    \/ \E dev \in Device : OpenDevice(dev)
    \/ \E fd \in Fd : CloseFd(fd) \/ Dup(fd) \/ FcntlDupFd(fd) \/ UseFile(fd)
                         \/ ReadWrite(fd)
    \/ \E fd, fd2 \in Fd : Dup2(fd, fd2) \/ SocksysPair(fd, fd2)

FdTableSpec == FdTableInit /\ [][FdTableNext]_fdTableVars
-----------------------------------------------------------------------------
(* A struct file never outlives its descriptor: the kernel would hand the  *)
(* number out again and the new file would inherit its operations.  It     *)
(* lies inside the array, is open, and between system calls no reference   *)
(* to it is held.                                                          *)
FilesAtRest ==
    \A fd \in Fd : tab.file[fd] # NoFile =>
        /\ tab.kern[fd] # Closed
        /\ fd < tab.max /\ tab.file[fd].count = 0 /\ tab.file[fd].isopen

(* A descriptor that stands for an emulated device is routed to it.        *)
(* linux26-compat.c:1170: all calls go through the table "so we can        *)
(* redirect to the file_operations the character device provides".         *)
DeviceRouted ==
    \A fd \in Fd : tab.kern[fd] \in Device => tab.file[fd].ops = "chrdev"

(* A descriptor that is not an emulated device is read by the kernel:      *)
(* "If a chrdev has overridden read() call it's read instead".             *)
OthersNotRouted ==
    \A fd \in Fd : tab.kern[fd] \notin Device => tab.file[fd].ops # "chrdev"

(* The table and the kernel stay in step over every system call but two:   *)
(* fcntl(F_DUPFD), and dup2() of a descriptor without a struct file onto   *)
(* an open one, are the only ones that can make a device unrouted or give  *)
(* a plain descriptor a device's operations.                               *)
RoutingKept ==
    [][\/ DeviceRouted /\ OthersNotRouted => DeviceRouted' /\ OthersNotRouted'
       \/ \E fd \in Fd : FcntlDupFd(fd)
       \/ \E fd, fd2 \in Fd :
             tab.file[fd] = NoFile /\ IsOpen(fd2) /\ Dup2(fd, fd2)]_fdTableVars
=============================================================================
