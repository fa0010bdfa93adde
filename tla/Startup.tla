------------------------------- MODULE Startup -------------------------------
(***************************************************************************)
(* From the command line to the first instruction of the emulated program: *)
(* ibcs/main.c, load_binfmt and the exec domains of ibcs/linux26-compat.c, *)
(* and the three loaders, binfmt-coff.c, binfmt_elf.c and binfmt-xout.c.   *)
(*                                                                         *)
(* A file is what the loaders' tests can tell about it.  Every kernel call *)
(* that the code checks, or fails to check, may fail.  Descriptors and     *)
(* kmalloc()ed buffers are named after what they are for.  The capability  *)
(* games of cap_mmap are left out: CheckPrivilege lets nobody pass without *)
(* CAP_SYS_RAWIO, so they change nothing.                                  *)
(***************************************************************************)
EXTENDS Integers, Sequences, FiniteSets

CONSTANTS
    Commands,       \* the command lines
    Searches,       \* what each PATH element, or the name itself, leads to,
                    \* with index Stale for a name that is not in the PATH
    Binfmts,        \* the orders module_initialise may register loaders in
    Domains,        \* the personalities an exec_domain is registered for
    Credentials,    \* the credentials the emulator may be started with
    SegvActions,    \* the actions of SIGSEGV it may be started with
    MapErrors       \* what mmap() may fail with

Format == {"coff", "elf", "xout"}

(* sound: the header is not of the format, sections (or segments) the      *)
(* loader needs are missing, the entry point is out of range, or "yes".    *)
(* dyn: the ELF interpreter.  libs: COFF shared libraries.                 *)
File == [open : {"ok", "ENOENT", "EACCES"}, regular : BOOLEAN,
         format : Format \cup {"none"},
         sound : {"no", "sections", "entry", "yes"}, aligned : BOOLEAN,
         dyn : {"no", "found", "missing", "broken"}, libs : BOOLEAN,
         suid : BOOLEAN, owner : {"root", "user"}, guess : Nat \ {0}]

ASSUME SearchAssumption ==
    \A s \in Searches : /\ \A i \in DOMAIN s : s[i] \in File
                        /\ {0, 1} \subseteq DOMAIN s
                        /\ DOMAIN s = 0 .. Cardinality(DOMAIN s) - 1
ASSUME CommandAssumption ==
    \A c \in Commands : /\ c.ok \in BOOLEAN /\ c.slash \in BOOLEAN
                        /\ c.log \in BOOLEAN
                        /\ c.personality \in Nat
                        /\ c.map \in {"none", "good", "bad"}
ASSUME BinfmtAssumption == Binfmts \subseteq Seq(Format)
ASSUME CredentialAssumption ==
    LET Id == {"root", "user"}
    IN  Credentials \subseteq
           [uid : Id, euid : Id, gid : Id, egid : Id, caps : BOOLEAN]
ASSUME ErrorAssumption == MapErrors \subseteq {"ENOMEM", "ENODEV", "EACCES"}

(* What load_binary takes for "look further along the PATH" (ESTALE,       *)
(* ENOTDIR and ETIMEDOUT too, for which ENOENT stands).                    *)
Retry == {"ENOENT", "EACCES", "ENODEV"}

VARIABLES
    pc,         \* the function, or the phase of a loader, main is in
    cmd, search, order, segv,   \* chosen once
    pos,        \* which file is being tried, Stale for a name not in PATH
    ld,         \* what the loaders have done so far
    cred        \* uid, euid, gid, egid, and whether capabilities are left

vars == <<pc, cmd, search, order, segv, pos, ld, cred>>
chosen == <<cmd, search, order, segv>>

Stale == 0
None == 0
Over == {"started", "exited", "killed", "fault"}

file == search[pos]

Init ==
    /\ pc = "parse"
    /\ cmd \in Commands /\ search \in Searches /\ order = <<>>
    /\ segv \in SegvActions
    /\ pos = 1
    /\ ld = [left |-> <<>>, ret |-> "none", fds |-> {}, bufs |-> {},
             image |-> {}, personality |-> None, domain |-> FALSE,
             committed |-> FALSE]
    /\ cred \in Credentials
-----------------------------------------------------------------------------
Goto(from, to) == pc = from /\ pc' = to

(* parse_cmdline_options: anything it cannot parse or open ends in exit(1).*)
(* --log=FILE is opened here, and closed nowhere.                          *)
ParseCmdline ==
    /\ pc = "parse"
    /\ pc' = IF cmd.ok THEN "init" ELSE "exited"
    /\ ld' = [ld EXCEPT !.fds = IF cmd.log THEN @ \cup {"log"} ELSE @]
    /\ UNCHANGED <<chosen, pos, cred>>

(* linux26_compat_init: the loaders register themselves in link order and  *)
(* each goes to the front of the list.                                     *)
CompatInit ==
    /\ Goto("init", "privilege")
    /\ order' \in Binfmts
    /\ UNCHANGED <<cmd, search, segv, pos, ld, cred>>

CheckPrivilege ==
    /\ pc = "privilege"
    /\ pc' = IF cred.euid = "root" \/ cred.caps THEN "open" ELSE "exited"
    /\ UNCHANGED <<chosen, pos, ld, cred>>
-----------------------------------------------------------------------------
(* load_binfmt: access(), open, fstat, the first block of the file; then   *)
(* the loaders in turn for as long as they say ENOEXEC; then close.        *)
Return(to, ret) == pc' = to /\ ld' = [ld EXCEPT !.ret = ret]

OpenFails ==
    /\ pc = "open"
    /\ file.open # "ok"
    /\ Return("loaded", file.open)
    /\ UNCHANGED <<chosen, pos, cred>>

OpenFile ==
    /\ pc = "open"
    /\ file.open = "ok"
    /\ \E ret \in {"ENOEXEC", "EIO"} :
          /\ pc' = IF file.regular /\ ret # "EIO" THEN "formats" ELSE "close"
          /\ ld' = [ld EXCEPT !.fds = @ \cup {"exe"}, !.ret = ret, !.left = order]
    /\ UNCHANGED <<chosen, pos, cred>>

(* Every loader starts by looking for its magic number.                    *)
TryFormat ==
    /\ pc = "formats"
    /\ ld.ret = "ENOEXEC" /\ ld.left # <<>>
    /\ pc' = IF Head(ld.left) = file.format THEN file.format ELSE "formats"
    /\ ld' = [ld EXCEPT !.left = Tail(@)]
    /\ UNCHANGED <<chosen, pos, cred>>

FormatsDone ==
    /\ Goto("formats", "close")
    /\ ld.ret # "ENOEXEC" \/ ld.left = <<>>
    /\ UNCHANGED <<chosen, pos, ld, cred>>

Close ==
    /\ Goto("close", "loaded")
    /\ ld' = [ld EXCEPT !.fds = @ \ {"exe"}]
    /\ UNCHANGED <<chosen, pos, cred>>
-----------------------------------------------------------------------------
(* What the loaders share.  set_personality(p) looks the exec_domain up.   *)
Commit(p) == [ld EXCEPT !.personality = p, !.domain = p \in Domains,
                        !.committed = TRUE]
Personality == IF cmd.personality # None THEN cmd.personality ELSE file.guess

(* elf_set_personality: what was asked for counts only if an earlier try   *)
(* has not set it already.                                                 *)
ElfPersonality ==
    IF cmd.personality \notin {None, ld.personality}
    THEN cmd.personality ELSE file.guess

(* The labels the loaders leave by: what each frees and what it closes.    *)
(* fput() of the ELF interpreter, in out_free_dentry and on success, does  *)
(* not close its descriptor.                                               *)
Nothing == [frees |-> {}, closes |-> {}]
out_free_buf == [frees |-> {"sections"}, closes |-> {}]
out_free_file == [frees |-> {"sections"}, closes |-> {"null"}]
elf_out == [frees |-> {"headers"}, closes |-> {}]
out_free_ph == [frees |-> {"headers", "segments"}, closes |-> {}]
out_free_interp == [frees |-> {"headers", "segments", "interp"}, closes |-> {}]
out_free_dentry == out_free_interp
xout_out == [frees |-> {"seglist"}, closes |-> {}]

(* A loader returns ret by a label.  kfree() of what was never allocated,  *)
(* or is free already, is a fault.                                         *)
Leave(l, label, ret) ==
    IF label.frees \subseteq l.bufs
    THEN /\ pc' = "formats"
         /\ ld' = [l EXCEPT !.bufs = @ \ label.frees,
                            !.fds = @ \ label.closes, !.ret = ret]
    ELSE pc' = "fault" /\ ld' = l

Take(buf) == [ld EXCEPT !.bufs = @ \cup {buf}]

(* send_sig(SIGSEGV), after which the loader says it has succeeded.        *)
Trap(label) == IF segv = "dfl" THEN pc' = "killed" /\ UNCHANGED ld
               ELSE Leave(ld, label, "ok")

(* coff_load_object: the header, the section table, a descriptor, which    *)
(* get_unused_fd takes for granted.                                        *)
CoffHeader ==
    /\ pc = "coff"
    /\ \/ file.sound = "no" /\ Leave(ld, Nothing, "ENOEXEC")
       \/ file.sound # "no" /\ Leave(Take("sections"), out_free_buf, "EIO")
       \/ file.sound # "no" /\ pc' = "fault" /\ ld' = Take("sections")
       \/ file.sound # "no" /\ pc' = "coff_scan"
             /\ ld' = [Take("sections") EXCEPT !.fds = @ \cup {"null"}]
    /\ UNCHANGED <<chosen, pos, cred>>

(* Mutant: the wrong label, which forgets the descriptor.                  *)
CoffScanFreesBuf ==
    /\ pc = "coff_scan"
    /\ IF file.sound = "sections" THEN Leave(ld, out_free_buf, "ENOEXEC")
       ELSE pc' = "coff_commit" /\ UNCHANGED ld
    /\ UNCHANGED <<chosen, pos, cred>>

CoffScan ==
    /\ pc = "coff_scan"
    /\ IF file.sound = "sections" THEN Leave(ld, out_free_file, "ENOEXEC")
       ELSE pc' = "coff_commit" /\ UNCHANGED ld
    /\ UNCHANGED <<chosen, pos, cred>>

CoffCommit ==
    /\ Goto("coff_commit", "coff_map")
    /\ ld' = Commit(Personality)
    /\ UNCHANGED <<chosen, pos, cred>>

(* Mutant: a failed mapping is reported as what it is.                     *)
CoffMapErrno ==
    /\ pc = "coff_map"
    /\ \/ pc' = "coff_bss" /\ ld' = [ld EXCEPT !.image = IF file.aligned
                                       THEN @ \cup {"text", "data"} ELSE @]
       \/ \E e \in MapErrors :
             Leave([ld EXCEPT !.image = @ \cup {"text"}], out_free_file, e)
    /\ UNCHANGED <<chosen, pos, cred>>

(* Aligned sections are mapped, and a refusal is ENOEXEC; for the others   *)
(* the code reads the wrong amounts into memory that is not there and      *)
(* carries on.                                                             *)
CoffMap ==
    /\ pc = "coff_map"
    /\ \/ pc' = "coff_bss" /\ ld' = [ld EXCEPT !.image = IF file.aligned
                                       THEN @ \cup {"text", "data"} ELSE @]
       \/ /\ file.aligned /\ MapErrors # {}
          /\ \E done \in {{}, {"text"}} :
                Leave([ld EXCEPT !.image = @ \cup done], out_free_file, "ENOEXEC")
    /\ UNCHANGED <<chosen, pos, cred>>

(* Nobody looks at the result of mapping the bss.                          *)
CoffBss ==
    /\ Goto("coff_bss", "coff_libs")
    /\ \/ ld' = [ld EXCEPT !.image = @ \cup {"bss"}]
       \/ MapErrors # {} /\ UNCHANGED ld
    /\ UNCHANGED <<chosen, pos, cred>>

(* Libraries are loaded with Linux's uselib(), which knows no COFF.        *)
CoffLibs ==
    /\ pc = "coff_libs"
    /\ IF file.libs THEN Trap(out_free_file) ELSE Leave(ld, out_free_file, "ok")
    /\ UNCHANGED <<chosen, pos, cred>>
-----------------------------------------------------------------------------
(* load_elf_binary: the headers; the interpreter's headers; the point of   *)
(* no return; the segments and the bss; the interpreter.                   *)
ElfHeader ==
    /\ pc = "elf"
    /\ LET table == [ld EXCEPT !.bufs = @ \cup {"headers", "segments"}]
       IN  \/ file.sound = "no" /\ Leave(Take("headers"), elf_out, "ENOEXEC")
           \/ file.sound # "no" /\ Leave(table, out_free_ph, "EIO")
           \/ file.sound = "sections" /\ Leave(table, out_free_ph, "ENOEXEC")
           \/ /\ file.sound \notin {"no", "sections"}
              /\ pc' = "elf_interp" /\ ld' = table
    /\ UNCHANGED <<chosen, pos, cred>>

(* The interpreter's name is read, and the start of the file it names.     *)
ElfInterp ==
    /\ pc = "elf_interp"
    /\ LET opened == [Take("interp") EXCEPT !.fds = @ \cup {"interp"}]
       IN  \/ file.dyn = "no" /\ pc' = "elf_commit" /\ UNCHANGED ld
           \/ file.dyn # "no" /\ Leave(Take("interp"), out_free_interp, "EIO")
           \/ file.dyn = "missing" /\ Leave(Take("interp"), out_free_interp, "ENOENT")
           \/ file.dyn \in {"broken", "found"} /\ Leave(opened, out_free_dentry, "EIO")
           \/ file.dyn = "broken" /\ Leave(opened, out_free_dentry, "ELIBBAD")
           \/ file.dyn = "found" /\ pc' = "elf_commit" /\ ld' = opened
    /\ UNCHANGED <<chosen, pos, cred>>

ElfCommit ==
    /\ Goto("elf_commit", "elf_map")
    /\ ld' = Commit(ElfPersonality)
    /\ UNCHANGED <<chosen, pos, cred>>

(* Mutant: a segment that cannot be mapped is skipped.                     *)
ElfMapUnchecked ==
    /\ Goto("elf_map", "elf_start")
    /\ \E done \in SUBSET {"text", "data"} :
          ld' = [ld EXCEPT !.image = @ \cup done]
    /\ UNCHANGED <<chosen, pos, cred>>

(* A segment that cannot be mapped: SIGKILL.  The bss is not mapped here:  *)
(* set_brk comes before init_brk has made the mapping that do_brk resizes. *)
ElfMap ==
    /\ pc = "elf_map"
    /\ \/ pc' = "elf_start"
          /\ ld' = [ld EXCEPT !.image = @ \cup {"text", "data"}]
       \/ MapErrors # {} /\ pc' = "killed" /\ UNCHANGED ld
    /\ UNCHANGED <<chosen, pos, cred>>

(* load_elf_interp, whose errors are handed on as they are.                *)
ElfLoadInterp ==
    /\ pc = "elf_start"
    /\ file.dyn = "found"
    /\ \/ Leave(ld, out_free_interp, "ok")
       \/ \E e \in MapErrors \cup {"EIO"} : Leave(ld, out_free_dentry, e)
    /\ UNCHANGED <<chosen, pos, cred>>

(* An error without an interpreter goes by a label that frees its name.    *)
ElfStart ==
    /\ pc = "elf_start"
    /\ file.dyn = "no"
    /\ IF file.sound = "entry" THEN Leave(ld, out_free_dentry, "EINVAL")
       ELSE Leave(ld, out_free_ph, "ok")
    /\ UNCHANGED <<chosen, pos, cred>>
-----------------------------------------------------------------------------
(* xout_load_object.  A file without a data segment is a success for which *)
(* nothing was done.                                                       *)
XoutHeader ==
    /\ pc = "xout"
    /\ \/ file.sound = "no" /\ Leave(ld, Nothing, "ENOEXEC")
       \/ file.sound # "no" /\ Leave(Take("seglist"), xout_out, "EIO")
       \/ file.sound = "sections" /\ Leave(Take("seglist"), xout_out, "ok")
       \/ /\ file.sound \notin {"no", "sections"}
          /\ pc' = "xout_commit" /\ ld' = Take("seglist")
    /\ UNCHANGED <<chosen, pos, cred>>

XoutCommit ==
    /\ Goto("xout_commit", "xout_map")
    /\ ld' = Commit(Personality)
    /\ UNCHANGED <<chosen, pos, cred>>

(* Segments are mapped without the file behind them; those of a pageable   *)
(* (aligned) file are then not read either.                                *)
XoutMap ==
    /\ pc = "xout_map"
    /\ \/ MapErrors # {} /\ Trap(xout_out)
       \/ file.aligned /\ Leave(ld, xout_out, "ok")
       \/ ~file.aligned /\ pc' = "xout_read" /\ UNCHANGED ld
    /\ UNCHANGED <<chosen, pos, cred>>

XoutRead ==
    /\ pc = "xout_read"
    /\ \/ Trap(xout_out)
       \/ Leave([ld EXCEPT !.image = @ \cup {"text", "data", "bss"}], xout_out, "ok")
    /\ UNCHANGED <<chosen, pos, cred>>
-----------------------------------------------------------------------------
(* load_binary, after load_binfmt: set_credentials follows, or the next    *)
(* file, or the end.                                                       *)
(* path_env = b: the search goes on in the name it has just built, whose   *)
(* buffer is gone, and the next name is made of a piece of that one.  What *)
(* image and committed say is about the file being tried.                  *)
SearchOn ==
    /\ Goto("loaded", "open")
    /\ ~cmd.slash /\ ld.ret \in Retry
    /\ pos' = Stale
    /\ ld' = [ld EXCEPT !.image = {}, !.committed = FALSE]
    /\ UNCHANGED <<chosen, cred>>

LoadFailed ==
    /\ Goto("loaded", "exited")
    /\ ld.ret # "ok" /\ (cmd.slash \/ ld.ret \notin Retry)
    /\ UNCHANGED <<chosen, pos, ld, cred>>

(* Mutant: nothing to do for a program that is not setuid.                 *)
SetCredentialsSuidOnly ==
    /\ Goto("loaded", "domain")
    /\ ld.ret = "ok"
    /\ cred' = IF file.suid
               THEN [cred EXCEPT !.euid = file.owner, !.caps = FALSE] ELSE cred
    /\ UNCHANGED <<chosen, pos, ld>>

(* set_credentials: the effective ids, where the kernel allows it, and all *)
(* capabilities.  The setuid bit decides on the group too.  The file is    *)
(* opened again, by name, and gone is the end.                             *)
SetCredentials ==
    /\ pc = "loaded"
    /\ ld.ret = "ok"
    /\ LET his(id) == IF file.suid THEN file.owner ELSE id
           set(id, eid) == IF cred.euid = "root" \/ his(id) = id THEN his(id) ELSE eid
       IN  \/ pc' = "exited" /\ UNCHANGED cred
           \/ /\ pc' = "domain"
              /\ cred' = [cred EXCEPT !.euid = set(cred.uid, @),
                                      !.egid = set(cred.gid, @), !.caps = FALSE]
    /\ UNCHANGED <<chosen, pos, ld>>

DomainCheck ==
    /\ pc = "domain"
    /\ pc' = IF ld.domain THEN "inode" ELSE "exited"
    /\ UNCHANGED <<chosen, pos, ld, cred>>

(* sysent_initialise cannot fail; short_inode_construct may.               *)
InodeTable ==
    /\ pc = "inode"
    /\ pc' \in {"map", "exited"}
    /\ UNCHANGED <<chosen, pos, ld, cred>>

(* filemap_parse, if asked for, and the jump into the program.             *)
Jump ==
    /\ pc = "map"
    /\ pc' = IF cmd.map = "bad" THEN "exited" ELSE "started"
    /\ UNCHANGED <<chosen, pos, ld, cred>>

Ended == pc \in Over /\ UNCHANGED vars

LoadBinfmt == OpenFails \/ OpenFile \/ TryFormat \/ FormatsDone \/ Close
Coff == CoffHeader \/ CoffScan \/ CoffCommit \/ CoffMap \/ CoffBss \/ CoffLibs
Elf == \/ ElfHeader \/ ElfInterp \/ ElfCommit \/ ElfMap
       \/ ElfLoadInterp \/ ElfStart
Xout == XoutHeader \/ XoutCommit \/ XoutMap \/ XoutRead
LoadBinary == SearchOn \/ LoadFailed \/ SetCredentials

Main == \/ ParseCmdline \/ CompatInit \/ CheckPrivilege
        \/ LoadBinfmt \/ Coff \/ Elf \/ Xout \/ LoadBinary
        \/ DomainCheck \/ InodeTable \/ Jump

Next == Main \/ Ended

Spec == Init /\ [][Next]_vars

(* One process, which the kernel schedules for as long as it can run.      *)
FairSpec == Spec /\ WF_vars(Main)
-----------------------------------------------------------------------------
(* Whatever a loader's reason to return, the label it leaves by frees all  *)
(* that was allocated on the way to it and no more, and closes the         *)
(* placeholder descriptor if it was opened, before the next loader or the  *)
(* next file is tried (the goto out_... of the three loaders).  Excepted,  *)
(* as faults: an ELF file without an interpreter and with a bad entry      *)
(* point, and a COFF loader that gets no descriptor.  And the program      *)
(* starts with no descriptor of the emulator's but the ELF interpreter's,  *)
(* which fput() leaves open, and that of --log=FILE.                       *)
LoadersRelease ==
    /\ pc \in {"open", "formats", "close", "loaded"} =>
          ld.bufs = {} /\ "null" \notin ld.fds
    /\ pc = "fault" =>
          \/ file.format = "elf" /\ file.dyn = "no" /\ file.sound = "entry"
          \/ file.format = "coff" /\ "null" \notin ld.fds
    /\ pc = "started" =>
          /\ ld.fds \subseteq {"interp", "log"}
          /\ "interp" \in ld.fds => \E i \in DOMAIN search : search[i].dyn = "found"
          /\ "log" \in ld.fds => cmd.log

(* The file being tried may come after an ELF file that was committed to   *)
(* and whose interpreter could not be mapped.                              *)
Interpreted(f) == f.format = "elf" /\ f.dyn = "found"
AfterElf == pos = Stale /\ \E i \in DOMAIN search : Interpreted(search[i])

(* A program is started only with its text and data in memory and under    *)
(* the personality asked for or guessed.  Not covered: files the loaders   *)
(* treat as loadable and do not load (a COFF file whose sections are not   *)
(* aligned, an x.out file whose segments are), the loaders' SIGSEGV for an *)
(* emulator started with that signal ignored, and what the search reaches  *)
(* after an ELF file whose interpreter could not be mapped: an x.out file  *)
(* without data, which is started under the personality of that ELF file,  *)
(* and a second ELF file, which is started under the one guessed for it    *)
(* though another was asked for (binfmt_elf.c:136).                        *)
StartedIsLoaded ==
    /\ pc = "started" /\ segv = "dfl"
    /\ file.format = "elf" \/ file.aligned = (file.format = "coff")
    /\ ~AfterElf \/ file.sound # "sections"
    =>
        /\ {"text", "data"} \subseteq ld.image
        /\ ld.domain
        /\ \/ ld.personality = Personality
           \/ AfterElf /\ file.format = "elf" /\ ld.personality = file.guess

(* "THIS IS THE POINT OF NO RETURN" (binfmt-coff.c:541, binfmt_elf.c:498): *)
(* once a loader has passed it no other file is tried.  The one exception  *)
(* is an ELF interpreter the kernel will not map.                          *)
NoReturn ==
    [][pc = "loaded" /\ pc' = "open" /\ ld.committed =>
          Interpreted(file)]_vars

(* The program runs without capabilities, and as root only when the user   *)
(* is root or the file is root's and setuid: "drop all the ones we don't   *)
(* need" (main.c:419).                                                     *)
PrivilegesDropped ==
    pc = "started" => /\ ~cred.caps
                      /\ cred.euid = "root" =>
                            cred.uid = "root" \/ (file.suid /\ file.owner = "root")

(* "Go down the PATH environment variable looking for the program"         *)
(* (main.c:522): the search ends, with a program or without.               *)
PathSearchEnds == <>(pc \in Over)
=============================================================================
