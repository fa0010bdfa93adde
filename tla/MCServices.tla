----------------------------- MODULE MCServices -----------------------------
(***************************************************************************)
(* The components behind the system calls, together: the file table, the   *)
(* dispatching of calls, signal numbers, System V IPC, terminals, sockets, *)
(* directories and files.  They share no state, so a behaviour works with  *)
(* one of them, chosen at the start, and the others keep a fixed initial   *)
(* state.                                                                  *)
(***************************************************************************)
EXTENDS FdTable, Dispatch, SigMask, Ipc, Terminal, Sockets, Directory, Files

VARIABLE part

vars == <<part, fdTableVars, dispatchVars, sigmaskVars, ipcVars, terminalVars,
          socketVars, directoryVars, fileVars>>

\* Two arrays for the semaphores, and addresses on both sides of -255.
MCArrays == {[i \in 0 .. NSems - 1 |-> i + 1], [i \in 0 .. NSems - 1 |-> 2 * i]}
MCAddresses == {4096, -4096, -255}

\* Terminals as they are found: cooked, raw, with job control and without,
\* at 9600 baud and at 57600 with hardware flow control.
MCIn == {{8, 10}}
MCOut == {{0, 2}}
MCCtl == {{0, 2, 3, 4, 5, 7}, {1, 2, 3, 7, 12, 31}}
MCLocal == {{3, 4, 5} \cup s : s \in SUBSET {1, 8, 9, 15}}
               \cup {{0, 1, 10, 12, 15}, {0, 9}}

Init ==
    /\ part \in {"descriptors", "calls", "signals", "ipc", "terminals", "options",
                 "messages", "directory", "files"}
    /\ FdTableInit /\ (part # "descriptors" => tab.kern[0] = "file")
    /\ DispatchInit /\ (part # "calls" => pers = "isc")
    /\ SigMaskInit /\ (part # "signals" => sigpers = "isc")
    /\ IpcInit /\ (part # "ipc" => kind = "sem")
    /\ TerminalInit
    /\ part # "terminals" => /\ per = "svr4" /\ tty.l = {0, 9}
                             /\ tty.c = {0, 2, 3, 4, 5, 7}
    /\ SocketsInit /\ (part # "options" => via = "solaris")
    /\ method \in Methods /\ (part # "directory" => method = "read")
    /\ dir \in IF part = "directory" THEN Whole ELSE {<<>>}
    /\ DirectoryInit
    /\ FilesInit /\ (part # "files" => task = "flags")

Next ==
    \/ /\ part = "descriptors" /\ FdTableNext
       /\ UNCHANGED <<part, dispatchVars, sigmaskVars, ipcVars, terminalVars,
                      socketVars, directoryVars, fileVars>>
    \/ /\ part = "calls" /\ DispatchNext
       /\ UNCHANGED <<part, fdTableVars, sigmaskVars, ipcVars, terminalVars,
                      socketVars, directoryVars, fileVars>>
    \/ /\ part = "signals" /\ SigMaskNext
       /\ UNCHANGED <<part, fdTableVars, dispatchVars, ipcVars, terminalVars,
                      socketVars, directoryVars, fileVars>>
    \/ /\ part = "ipc" /\ IpcNext
       /\ UNCHANGED <<part, fdTableVars, dispatchVars, sigmaskVars, terminalVars,
                      socketVars, directoryVars, fileVars>>
    \/ /\ part = "terminals" /\ TerminalNext
       /\ UNCHANGED <<part, fdTableVars, dispatchVars, sigmaskVars, ipcVars,
                      socketVars, directoryVars, fileVars>>
    \/ /\ part = "options" /\ OptionsNext
       /\ UNCHANGED <<part, fdTableVars, dispatchVars, sigmaskVars, ipcVars,
                      terminalVars, directoryVars, fileVars>>
    \/ /\ part = "messages" /\ MessagesNext
       /\ UNCHANGED <<part, fdTableVars, dispatchVars, sigmaskVars, ipcVars,
                      terminalVars, directoryVars, fileVars>>
    \/ /\ part = "directory" /\ DirectoryNext
       /\ UNCHANGED <<part, fdTableVars, dispatchVars, sigmaskVars, ipcVars,
                      terminalVars, socketVars, fileVars>>
    \/ /\ part = "files" /\ FilesNext
       /\ UNCHANGED <<part, fdTableVars, dispatchVars, sigmaskVars, ipcVars,
                      terminalVars, socketVars, directoryVars>>

Spec == Init /\ [][Next]_vars
=============================================================================
