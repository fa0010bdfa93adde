--------------------------- MODULE StartupProofs ---------------------------
(***************************************************************************)
(* Proofs about Startup for every set of command lines, files along the    *)
(* PATH, orders of the loaders, personalities, credentials and errors of   *)
(* mmap().                                                                 *)
(***************************************************************************)
EXTENDS Startup, SequenceTheorems, TLAPS

CoffPhase == {"coff", "coff_scan", "coff_commit", "coff_map", "coff_bss",
              "coff_libs"}
ElfPhase == {"elf", "elf_interp", "elf_commit", "elf_map", "elf_start"}
XoutPhase == {"xout", "xout_commit", "xout_map", "xout_read"}
LoaderPhase == CoffPhase \cup ElfPhase \cup XoutPhase
EarlyPhase == {"parse", "init", "privilege"}
LoadPhase == {"open", "formats", "close", "loaded"}
LatePhase == {"domain", "inode", "map", "started"}

Id == {"root", "user"}
Ret == {"none", "ok", "ENOEXEC", "EIO", "ENOENT", "EACCES", "ELIBBAD", "ENOMEM",
        "ENODEV", "EINVAL"}
Loading ==
    [left : Seq(Format), ret : Ret, fds : SUBSET {"exe", "null", "interp", "log"},
     bufs : SUBSET {"sections", "headers", "segments", "interp", "seglist"},
     image : SUBSET {"text", "data", "bss"}, personality : Nat,
     domain : BOOLEAN, committed : BOOLEAN]

(* Every variable of Startup holds a value of its kind.                    *)
TypeOK ==
    /\ pc \in EarlyPhase \cup LoadPhase \cup LoaderPhase \cup LatePhase \cup Over
    /\ cmd \in Commands /\ search \in Searches /\ order \in Seq(Format)
    /\ pos \in {0, 1}
    /\ ld \in Loading
    /\ cred \in [uid : Id, euid : Id, gid : Id, egid : Id, caps : BOOLEAN]

(* A loader works on a file of its format, and none has claimed it before. *)
InTurn ==
    /\ pc \in CoffPhase => file.format = "coff"
    /\ pc \in ElfPhase => file.format = "elf"
    /\ pc \in XoutPhase => file.format = "xout"
    /\ pc \in LoaderPhase => ld.ret = "ENOEXEC"

(* The buffers a loader holds in each of its phases, exactly.              *)
Holds ==
    CASE pc \in CoffPhase \ {"coff"} -> {"sections"}
      [] pc \in ElfPhase \ {"elf"} ->
            {"headers", "segments"} \cup
            (IF pc # "elf_interp" /\ file.dyn # "no" THEN {"interp"} ELSE {})
      [] pc \in XoutPhase \ {"xout"} -> {"seglist"}
      [] OTHER -> {}

(* What is taken is held by the phases that give it back, and kfree() only *)
(* ever fails for the two reasons LoadersRelease excepts.                  *)
Taken ==
    /\ pc \notin {"killed", "fault"} => ld.bufs = Holds
    /\ "null" \in ld.fds => pc \in (CoffPhase \ {"coff"}) \cup {"killed"}
    /\ "exe" \in ld.fds =>
          pc \in LoaderPhase \cup {"formats", "close", "killed", "fault"}
    /\ "interp" \in ld.fds =>
          \/ \E i \in DOMAIN search : search[i].dyn = "found"
          \/ /\ ld.ret \in {"ELIBBAD", "EIO"}
             /\ pc \in {"formats", "close", "loaded", "exited"}
    /\ "log" \in ld.fds => cmd.log
    /\ pc = "fault" =>
          \/ file.format = "elf" /\ file.dyn = "no" /\ file.sound = "entry"
          \/ file.format = "coff" /\ "null" \notin ld.fds

(* What is known of a file past its point of no return.                    *)
Committed ==
    /\ pc \in EarlyPhase \cup {"open", "elf", "elf_interp", "elf_commit"} =>
          ~ld.committed
    /\ pc \in {"formats", "close", "loaded"} /\ ld.committed =>
          /\ ld.ret \in {"ok", "ENOEXEC", "EIO"} \/ Interpreted(file)
          /\ file.format = "elf" => ld.ret # "ENOEXEC"

(* Files that are loaded if they are started at all, see StartedIsLoaded.  *)
Covered == file.format = "elf" \/ file.aligned = (file.format = "coff")
WithoutData == file.format = "xout" /\ file.sound = "sections"

(* The personality of a file past its point of no return.                  *)
Chosen == \/ ld.personality = Personality
          \/ AfterElf /\ file.format = "elf" /\ ld.personality = file.guess

(* What is in memory, phase by phase, and that success means committed and *)
(* loaded, or an x.out file without data.                                  *)
Loaded ==
    /\ pc \in {"coff_map", "coff_bss", "coff_libs", "elf_map", "elf_start",
               "xout_map", "xout_read"} => ld.committed
    /\ ld.committed => Chosen
    /\ ~ld.committed /\ ~AfterElf => ~ld.domain /\ ld.personality = None
    /\ ld.committed \/ pc = "xout_commit" => ~WithoutData
    /\ (pc \in {"coff_bss", "coff_libs"} /\ file.aligned) \/ pc = "elf_start" =>
          {"text", "data"} \subseteq ld.image
    /\ /\ pc \in {"formats", "close", "loaded"} \cup LatePhase
       /\ ld.ret = "ok" /\ segv = "dfl" /\ Covered
       => \/ ld.committed /\ {"text", "data"} \subseteq ld.image
          \/ ~ld.committed /\ WithoutData
    /\ pc \in LatePhase => ld.ret = "ok"
    /\ pc \in {"inode", "map", "started"} => ld.domain

(* Once the credentials are set they are those of the user, or of the      *)
(* owner of a setuid file.                                                 *)
Dropped ==
    pc \in LatePhase =>
        /\ ~cred.caps
        /\ cred.euid = "root" =>
              cred.uid = "root" \/ (file.suid /\ file.owner = "root")

IInv == TypeOK /\ InTurn /\ Taken /\ Committed /\ Loaded /\ Dropped

-----------------------------------------------------------------------------
(* The file being tried is one of the search.                              *)
LEMMA FileTyped == TypeOK => file \in File /\ pos \in DOMAIN search
BY SearchAssumption DEF TypeOK, file

(* A loader that leaves by a label for what it holds has given it back.    *)
Label == [frees : SUBSET {"sections", "headers", "segments", "interp", "seglist"},
          closes : SUBSET {"null"}]

(* The labels are labels.                                                  *)
LEMMA LabelsTyped ==
    {Nothing, out_free_buf, out_free_file, elf_out, out_free_ph, out_free_interp,
     out_free_dentry, xout_out} \subseteq Label
BY DEF Label, Nothing, out_free_buf, out_free_file, elf_out, out_free_ph,
   out_free_interp, out_free_dentry, xout_out

(* Leaving by a label that frees what is held is a return.                 *)
LEMMA LeaveEffect ==
    ASSUME NEW l \in Loading, NEW label \in Label, NEW ret \in Ret,
           Leave(l, label, ret)
    PROVE  /\ ld' \in Loading /\ pc' \in {"formats", "fault"}
           /\ label.frees = l.bufs =>
                /\ pc' = "formats"
                /\ ld'.left = l.left /\ ld'.ret = ret /\ ld'.bufs = {}
                /\ ld'.fds = l.fds \ label.closes /\ ld'.image = l.image
                /\ ld'.personality = l.personality /\ ld'.domain = l.domain
                /\ ld'.committed = l.committed
<1>1. CASE label.frees \subseteq l.bufs
  <2> DEFINE b == l.bufs \ label.frees
             f == l.fds \ label.closes
  <2>1. pc' = "formats" /\ ld' = [l EXCEPT !.bufs = b, !.fds = f, !.ret = ret]
    BY <1>1 DEF Leave
  <2>2. /\ b \in SUBSET {"sections", "headers", "segments", "interp", "seglist"}
        /\ f \in SUBSET {"exe", "null", "interp", "log"}
        /\ label.frees = l.bufs => b = {}
    BY DEF Loading
  <2> HIDE DEF b, f
  <2>3. ld' \in Loading
    BY <2>1, <2>2 DEF Loading
  <2>4. /\ ld'.left = l.left /\ ld'.ret = ret /\ ld'.bufs = b
        /\ ld'.fds = f /\ ld'.image = l.image
        /\ ld'.personality = l.personality /\ ld'.domain = l.domain
        /\ ld'.committed = l.committed
    BY <2>1 DEF Loading
  <2> QED
    BY <2>1, <2>2, <2>3, <2>4 DEF f
<1>2. CASE ~(label.frees \subseteq l.bufs)
  BY <1>2 DEF Leave
<1> QED
  BY <1>1, <1>2

(* A buffer taken changes nothing else.                                    *)
LEMMA TakeEffect ==
    ASSUME ld \in Loading,
           NEW b \in {"sections", "headers", "segments", "interp", "seglist"}
    PROVE  /\ Take(b) \in Loading /\ Take(b).bufs = ld.bufs \cup {b}
           /\ Take(b).left = ld.left /\ Take(b).ret = ld.ret
           /\ Take(b).fds = ld.fds /\ Take(b).image = ld.image
           /\ Take(b).personality = ld.personality /\ Take(b).domain = ld.domain
           /\ Take(b).committed = ld.committed
BY DEF Take, Loading

(* The point of no return.                                                 *)
LEMMA CommitEffect ==
    ASSUME TypeOK, NEW p \in Nat
    PROVE  LET l == Commit(p) IN
           /\ l \in Loading
           /\ l.left = ld.left /\ l.ret = ld.ret /\ l.bufs = ld.bufs
           /\ l.fds = ld.fds /\ l.image = ld.image
           /\ l.personality = p /\ l.committed = TRUE
<1>1. ld \in Loading
  BY DEF TypeOK
<1> DEFINE d == p \in Domains
           l == [ld EXCEPT !.personality = p, !.domain = d, !.committed = TRUE]
<1>2. d \in BOOLEAN
  OBVIOUS
<1> HIDE DEF d
<1>3. /\ l \in Loading
      /\ l.left = ld.left /\ l.ret = ld.ret /\ l.bufs = ld.bufs
      /\ l.fds = ld.fds /\ l.image = ld.image
      /\ l.personality = p /\ l.committed = TRUE
  BY <1>1, <1>2 DEF Loading
<1> QED
  BY <1>3 DEF Commit, d

(* Personalities are numbers.                                              *)
LEMMA PersonalityTyped ==
    TypeOK => Personality \in Nat /\ ElfPersonality \in Nat
BY FileTyped, CommandAssumption DEF TypeOK, Personality, ElfPersonality, File

(* The types hold at the start.                                            *)
LEMMA InitTypeOK == Init => TypeOK
<1> SUFFICES ASSUME Init PROVE TypeOK
  OBVIOUS
<1>1. ld \in Loading /\ order \in Seq(Format)
  BY EmptySeq DEF Init, Loading, Ret, None
<1> QED
  BY <1>1, CredentialAssumption DEF Init, TypeOK, EarlyPhase, Id

(* Every step keeps the types.                                             *)
LEMMA NextTypeOK == TypeOK /\ [Next]_vars => TypeOK'
<1> SUFFICES ASSUME TypeOK, [Next]_vars PROVE TypeOK'
  OBVIOUS
<1>1. ld \in Loading /\ file \in File
  BY FileTyped DEF TypeOK
<1> USE DEF chosen
<1>2. ASSUME UNCHANGED <<cmd, search, order, pos, cred>>,
             pc' \in EarlyPhase \cup LoadPhase \cup LoaderPhase \cup LatePhase \cup Over,
             ld' \in Loading
      PROVE  TypeOK'
  BY <1>2 DEF TypeOK
<1>3. ASSUME UNCHANGED <<cmd, search, order, pos, cred>>,
             NEW l \in Loading, NEW label \in Label, NEW ret \in Ret,
             Leave(l, label, ret)
      PROVE  TypeOK'
  BY <1>2, <1>3, LeaveEffect DEF LoadPhase, Over
<1>4. ASSUME UNCHANGED <<cmd, search, order, pos, cred>>,
             NEW label \in Label, Trap(label)
      PROVE  TypeOK'
  BY <1>1, <1>2, <1>3, <1>4 DEF Trap, Over, Ret
<1>5. /\ {"ok", "ENOEXEC", "EIO", "ENOENT", "ELIBBAD", "EINVAL"} \subseteq Ret
      /\ MapErrors \subseteq Ret
      /\ file.open # "ok" => file.open \in Ret
  BY <1>1, ErrorAssumption DEF Ret, File
<1>6. CASE ParseCmdline
  <2>1. ld' \in Loading
    BY <1>1, <1>6 DEF ParseCmdline, Loading
  <2> QED
    BY <1>2, <1>6, <2>1 DEF ParseCmdline, EarlyPhase, Over
<1>7. CASE CheckPrivilege \/ DomainCheck \/ InodeTable \/ Jump
           \/ FormatsDone \/ LoadFailed
  BY <1>1, <1>2, <1>7 DEF CheckPrivilege, DomainCheck, InodeTable,
     Jump, FormatsDone, LoadFailed, Goto, EarlyPhase, LoadPhase, LatePhase, Over
<1>8. CASE CompatInit
  BY <1>8, BinfmtAssumption DEF CompatInit, Goto, TypeOK, EarlyPhase
<1>9. CASE OpenFails
  <2>1. ld' \in Loading
    BY <1>1, <1>5, <1>9 DEF OpenFails, Return, Loading
  <2> QED
    BY <1>2, <1>9, <2>1 DEF OpenFails, Return, LoadPhase
<1>10. CASE OpenFile
  <2>1. PICK ret \in {"ENOEXEC", "EIO"} :
           ld' = [ld EXCEPT !.fds = @ \cup {"exe"}, !.ret = ret, !.left = order]
    BY <1>10 DEF OpenFile
  <2>2. ld' \in Loading
    BY <1>1, <1>5, <2>1 DEF TypeOK, Loading
  <2> QED
    BY <1>2, <1>10, <2>2 DEF OpenFile, LoadPhase
<1>11. CASE TryFormat
  <2>1. ld.left \in Seq(Format) /\ ld.left # <<>>
    BY <1>1, <1>11 DEF TryFormat, Loading
  <2>2. Tail(ld.left) \in Seq(Format) /\ Head(ld.left) \in Format
    BY <2>1, HeadTailProperties
  <2>3. ld' \in Loading
    BY <1>1, <1>11, <2>2 DEF TryFormat, Loading
  <2> QED
    BY <1>2, <1>11, <2>2, <2>3
    DEF TryFormat, Format, LoadPhase, LoaderPhase, CoffPhase, ElfPhase, XoutPhase
<1>12. CASE Close
  <2>1. ld' \in Loading
    BY <1>1, <1>12 DEF Close, Loading
  <2> QED
    BY <1>2, <1>12, <2>1 DEF Close, Goto, LoadPhase
<1>13. CASE Coff
  <2>1. CASE CoffHeader
    <3>1. [ld EXCEPT !.bufs = @ \cup {"sections"}] \in Loading
          /\ [[ld EXCEPT !.bufs = @ \cup {"sections"}] EXCEPT !.fds = @ \cup {"null"}]
                \in Loading
      BY <1>1 DEF Loading
    <3> QED
      BY <1>1, <1>2, <1>3, <1>5, <2>1, <3>1, LabelsTyped
      DEF CoffHeader, Take, LoaderPhase, CoffPhase, Over
  <2>2. CASE CoffScan
    BY <1>1, <1>2, <1>3, <1>5, <2>2, LabelsTyped DEF CoffScan, LoaderPhase, CoffPhase
  <2>3. CASE CoffCommit
    BY <1>2, <2>3, CommitEffect, PersonalityTyped DEF CoffCommit, Goto, LoaderPhase, CoffPhase
  <2>4. CASE CoffMap
    <3>1. ASSUME NEW d \in SUBSET {"text", "data", "bss"}
          PROVE  [ld EXCEPT !.image = @ \cup d] \in Loading
      BY <1>1 DEF Loading
    <3>2. CASE pc' = "coff_bss" /\ ld' = [ld EXCEPT !.image = IF file.aligned
                                            THEN @ \cup {"text", "data"} ELSE @]
      <4>1. ld' \in Loading
        BY <1>1, <3>2 DEF Loading
      <4> QED
        BY <1>2, <2>4, <3>2, <4>1 DEF CoffMap, LoaderPhase, CoffPhase
    <3>3. CASE \E done \in {{}, {"text"}} :
                  Leave([ld EXCEPT !.image = @ \cup done], out_free_file, "ENOEXEC")
      BY <1>3, <1>5, <2>4, <3>1, <3>3, LabelsTyped DEF CoffMap
    <3> QED
      BY <2>4, <3>2, <3>3 DEF CoffMap
  <2>5. CASE CoffBss
    <3>1. [ld EXCEPT !.image = @ \cup {"bss"}] \in Loading
      BY <1>1 DEF Loading
    <3> QED
      BY <1>1, <1>2, <2>5, <3>1 DEF CoffBss, Goto, LoaderPhase, CoffPhase
  <2>6. CASE CoffLibs
    BY <1>1, <1>3, <1>4, <1>5, <2>6, LabelsTyped DEF CoffLibs
  <2> QED
    BY <1>13, <2>1, <2>2, <2>3, <2>4, <2>5, <2>6 DEF Coff
<1>14. CASE Elf
  <2>1. CASE ElfHeader
    <3> DEFINE table == [ld EXCEPT !.bufs = @ \cup {"headers", "segments"}]
    <3>1. table \in Loading /\ Take("headers") \in Loading
      BY <1>1 DEF Loading, Take
    <3>2. \/ Leave(Take("headers"), elf_out, "ENOEXEC")
          \/ \E ret \in {"EIO", "ENOEXEC"} : Leave(table, out_free_ph, ret)
          \/ pc' = "elf_interp" /\ ld' = table
      BY <2>1 DEF ElfHeader
    <3>3. UNCHANGED <<cmd, search, order, pos, cred>>
      BY <2>1 DEF ElfHeader
    <3> HIDE DEF table
    <3> QED
      BY <1>2, <1>3, <1>5, <3>1, <3>2, <3>3, LabelsTyped DEF LoaderPhase, ElfPhase
  <2>2. CASE ElfInterp
    <3> DEFINE name == Take("interp")
               opened == [name EXCEPT !.fds = @ \cup {"interp"}]
    <3>1. name \in Loading /\ opened \in Loading
      BY <1>1 DEF Loading, Take
    <3>2. \/ \E ret \in {"EIO", "ENOENT"} : Leave(name, out_free_interp, ret)
          \/ \E ret \in {"EIO", "ELIBBAD"} : Leave(opened, out_free_dentry, ret)
          \/ pc' = "elf_commit" /\ ld' \in {ld, opened}
      BY <2>2 DEF ElfInterp
    <3>3. UNCHANGED <<cmd, search, order, pos, cred>>
      BY <2>2 DEF ElfInterp
    <3> HIDE DEF name, opened
    <3> QED
      BY <1>1, <1>2, <1>3, <1>5, <3>1, <3>2, <3>3, LabelsTyped DEF LoaderPhase, ElfPhase
  <2>3. CASE ElfCommit
    BY <1>2, <2>3, CommitEffect, PersonalityTyped DEF ElfCommit, Goto, LoaderPhase, ElfPhase
  <2>4. CASE ElfMap
    <3>1. [ld EXCEPT !.image = @ \cup {"text", "data"}] \in Loading
      BY <1>1 DEF Loading
    <3> QED
      BY <1>1, <1>2, <2>4, <3>1 DEF ElfMap, LoaderPhase, ElfPhase, Over
  <2>5. CASE ElfLoadInterp
    BY <1>1, <1>3, <1>5, <2>5, LabelsTyped DEF ElfLoadInterp
  <2>6. CASE ElfStart
    BY <1>1, <1>2, <1>3, <1>5, <2>6, LabelsTyped DEF ElfStart, Over
  <2> QED
    BY <1>14, <2>1, <2>2, <2>3, <2>4, <2>5, <2>6 DEF Elf
<1>15. CASE Xout
  <2>1. CASE XoutHeader
    <3>1. Take("seglist") \in Loading
      BY <1>1 DEF Loading, Take
    <3>2. \/ Leave(ld, Nothing, "ENOEXEC")
          \/ \E ret \in {"ok", "EIO"} : Leave(Take("seglist"), xout_out, ret)
          \/ pc' = "xout_commit" /\ ld' = Take("seglist")
      BY <2>1 DEF XoutHeader
    <3>3. UNCHANGED <<cmd, search, order, pos, cred>>
      BY <2>1 DEF XoutHeader
    <3> QED
      BY <1>1, <1>2, <1>3, <1>5, <3>1, <3>2, <3>3, LabelsTyped DEF LoaderPhase, XoutPhase
  <2>2. CASE XoutCommit
    BY <1>2, <2>2, CommitEffect, PersonalityTyped DEF XoutCommit, Goto, LoaderPhase, XoutPhase
  <2>3. CASE XoutMap
    BY <1>1, <1>2, <1>3, <1>4, <1>5, <2>3, LabelsTyped DEF XoutMap, LoaderPhase, XoutPhase
  <2>4. CASE XoutRead
    <3>1. [ld EXCEPT !.image = @ \cup {"text", "data", "bss"}] \in Loading
      BY <1>1 DEF Loading
    <3> QED
      BY <1>3, <1>4, <1>5, <2>4, <3>1, LabelsTyped DEF XoutRead
  <2> QED
    BY <1>15, <2>1, <2>2, <2>3, <2>4 DEF Xout
<1>16. CASE SearchOn
  <2>1. ld' \in Loading
    BY <1>1, <1>16 DEF SearchOn, Loading
  <2> QED
    BY <1>16, <2>1 DEF SearchOn, Goto, TypeOK, LoadPhase, Stale
<1>17. CASE SetCredentials
  <2> DEFINE his(id) == IF file.suid THEN file.owner ELSE id
             set(id, eid) == IF cred.euid = "root" \/ his(id) = id THEN his(id) ELSE eid
  <2>1. \A i, e \in Id : set(i, e) \in Id
    BY <1>1 DEF File, Id
  <2>2. \/ cred' = cred
        \/ cred' = [cred EXCEPT !.euid = set(cred.uid, @), !.egid = set(cred.gid, @),
                                !.caps = FALSE]
    BY <1>17 DEF SetCredentials
  <2>3. set(cred.uid, cred.euid) \in Id /\ set(cred.gid, cred.egid) \in Id
    BY <2>1 DEF TypeOK
  <2> HIDE DEF set
  <2>4. cred' \in [uid : Id, euid : Id, gid : Id, egid : Id, caps : BOOLEAN]
    BY <2>2, <2>3 DEF TypeOK
  <2> QED
    BY <1>17, <2>4 DEF SetCredentials, TypeOK, Over, LatePhase
<1>18. CASE UNCHANGED vars
  BY <1>18 DEF vars, TypeOK
<1> QED
  BY <1>7, <1>8, <1>9, <1>10, <1>11, <1>12, <1>13, <1>14, <1>15, <1>16, <1>17, <1>18,
     <1>6
  DEF Next, Main, LoadBinfmt, LoadBinary, Ended

(* The variables of start-up keep their types.                             *)
THEOREM TypeCorrect == Spec => []TypeOK
BY InitTypeOK, NextTypeOK, PTL DEF Spec

-----------------------------------------------------------------------------
(* What makes a loader's return to load_binfmt safe: it owes no one an ELF *)
(* interpreter, past the point of no return it lets no other loader or     *)
(* file be tried, and it claims success only for a file it has loaded.     *)
SafeReturn(l, label, ret) ==
    /\ l.left = ld.left
    /\ l.bufs = label.frees
    /\ "null" \in l.fds => "null" \in label.closes
    /\ l.personality = ld.personality /\ l.domain = ld.domain
    /\ l.committed = ld.committed
    /\ "log" \in l.fds => cmd.log
    /\ "interp" \in l.fds =>
          \/ \E i \in DOMAIN search : search[i].dyn = "found"
          \/ ret \in {"ELIBBAD", "EIO"}
    /\ ld.committed => ret \in {"ok", "ENOEXEC", "EIO"} \/ Interpreted(file)
    /\ ld.committed /\ file.format = "elf" => ret # "ENOEXEC"
    /\ ret = "ok" /\ segv = "dfl" /\ Covered =>
          \/ ld.committed /\ {"text", "data"} \subseteq l.image
          \/ ~ld.committed /\ WithoutData

(* What is said of the file being tried stays true while it is tried.      *)
LEMMA SameFile ==
    ASSUME UNCHANGED <<cmd, search, pos>>
    PROVE  /\ file' = file /\ (Covered' <=> Covered) /\ (WithoutData' <=> WithoutData)
           /\ Personality' = Personality /\ (AfterElf' <=> AfterElf)
           /\ ld'.personality = ld.personality => (Chosen' <=> Chosen)
BY DEF file, Covered, WithoutData, Personality, AfterElf, Chosen

(* A safe return of a loader keeps the invariant.                          *)
LEMMA LeaveKeeps ==
    ASSUME IInv, TypeOK', UNCHANGED <<cmd, search, order, segv, pos, cred>>,
           NEW l \in Loading, NEW label \in Label, NEW ret \in Ret,
           Leave(l, label, ret), SafeReturn(l, label, ret)
    PROVE  IInv'
<1>1. /\ pc' = "formats" /\ ld' \in Loading
      /\ ld'.ret = ret /\ ld'.bufs = {}
      /\ ld'.fds = l.fds \ label.closes /\ ld'.image = l.image
      /\ ld'.personality = ld.personality /\ ld'.domain = ld.domain
      /\ ld'.committed = ld.committed
  BY LeaveEffect DEF SafeReturn
<1>2. file' = file /\ (Covered' <=> Covered) /\ (WithoutData' <=> WithoutData)
      /\ (AfterElf' <=> AfterElf) /\ (Chosen' <=> Chosen)
  BY <1>1, SameFile
<1>3. InTurn'
  BY <1>1 DEF InTurn, LoaderPhase, CoffPhase, ElfPhase, XoutPhase
<1>4. Taken'
  <2>1. Holds' = {}
    BY <1>1 DEF Holds, CoffPhase, ElfPhase, XoutPhase
  <2> QED
    BY <1>1, <2>1 DEF Taken, SafeReturn
<1>5. Committed'
  BY <1>1, <1>2 DEF Committed, SafeReturn, EarlyPhase, Interpreted
<1>6. Loaded'
  BY <1>1, <1>2 DEF IInv, Loaded, SafeReturn, LatePhase
<1>7. Dropped'
  BY <1>1 DEF Dropped, LatePhase
<1> QED
  BY <1>3, <1>4, <1>5, <1>6, <1>7 DEF IInv

(* A loader that ends in SIGSEGV ends the emulator, or is let off because  *)
(* SIGSEGV is ignored.                                                     *)
LEMMA TrapKeeps ==
    ASSUME IInv, TypeOK', UNCHANGED <<cmd, search, order, segv, pos, cred>>,
           NEW label \in Label, Trap(label),
           \/ pc \in CoffPhase \ {"coff"} /\ label = out_free_file
           \/ pc \in XoutPhase \ {"xout"} /\ label = xout_out
    PROVE  IInv'
<1>1. CASE segv = "dfl"
  <2>1. pc' = "killed" /\ UNCHANGED ld
    BY <1>1 DEF Trap
  <2>2. file' = file /\ (Covered' <=> Covered) /\ (WithoutData' <=> WithoutData)
        /\ (AfterElf' <=> AfterElf)
        /\ (ld'.personality = ld.personality => (Chosen' <=> Chosen))
    BY SameFile
  <2>3. InTurn' /\ Dropped'
    BY <2>1 DEF InTurn, LoaderPhase, CoffPhase, ElfPhase, XoutPhase, Dropped, LatePhase
  <2>4. Taken'
    <3>1. ld.ret \notin {"ELIBBAD", "EIO"}
      BY DEF IInv, InTurn, LoaderPhase, CoffPhase, XoutPhase
    <3> QED
      BY <2>1, <2>2, <3>1 DEF Taken, IInv, CoffPhase, XoutPhase
  <2>5. Committed'
    BY <2>1 DEF Committed, EarlyPhase
  <2>6. Loaded'
    BY <2>1, <2>2 DEF IInv, Loaded, LatePhase
  <2> QED
    BY <2>3, <2>4, <2>5, <2>6 DEF IInv
<1>2. CASE segv # "dfl"
  <2>1. Leave(ld, label, "ok") /\ ld \in Loading /\ "ok" \in Ret
    BY <1>2 DEF Trap, IInv, TypeOK, Ret
  <2>2. /\ ld.ret \notin {"ELIBBAD", "EIO"} /\ file.format # "elf"
        /\ ld.bufs = label.frees /\ ("null" \in ld.fds => "null" \in label.closes)
    BY DEF IInv, InTurn, LoaderPhase, CoffPhase, XoutPhase, ElfPhase, Taken, Holds,
       out_free_file, xout_out
  <2>3. SafeReturn(ld, label, "ok")
    BY <1>2, <2>2 DEF SafeReturn, IInv, Taken
  <2> QED
    BY <2>1, <2>3, LeaveKeeps
<1> QED
  BY <1>1, <1>2

(* A loader goes from one phase to the next.                               *)
LEMMA AdvanceKeeps ==
    ASSUME IInv, TypeOK', UNCHANGED <<cmd, search, order, segv, pos, cred>>,
           \/ pc \in CoffPhase /\ pc' \in CoffPhase \ {"coff"}
           \/ pc \in ElfPhase /\ pc' \in ElfPhase \ {"elf"}
           \/ pc \in XoutPhase /\ pc' \in XoutPhase \ {"xout"},
           ld'.ret = ld.ret, ld'.bufs = Holds', "log" \in ld'.fds => "log" \in ld.fds,
           "null" \in ld'.fds => "null" \in ld.fds \/ pc \in CoffPhase,
           "interp" \in ld'.fds => "interp" \in ld.fds \/ file.dyn = "found",
           pc' \in {"elf_interp", "elf_commit"} => ~ld'.committed,
           Loaded'
    PROVE  IInv'
<1>1. file' = file /\ pos \in DOMAIN search
  BY FileTyped DEF file, IInv
<1>2. pc' \notin LatePhase /\ pc' \in LoaderPhase
  BY DEF LatePhase, LoaderPhase, CoffPhase, ElfPhase, XoutPhase
<1>3. InTurn' /\ Dropped'
  BY <1>1, <1>2 DEF IInv, InTurn, Dropped, LoaderPhase, CoffPhase, ElfPhase, XoutPhase
<1>4. Taken'
  <2>1. ld.ret \notin {"ELIBBAD", "EIO"}
    BY DEF IInv, InTurn, LoaderPhase
  <2>2. "interp" \in ld'.fds => \E i \in DOMAIN search : search[i].dyn = "found"
    BY <1>1, <2>1 DEF IInv, Taken, file
  <2>3. "null" \in ld'.fds => pc' \in CoffPhase \ {"coff"}
    BY DEF IInv, Taken, CoffPhase, ElfPhase, XoutPhase
  <2>4. pc' \in LoaderPhase \ {"coff", "elf", "xout"} /\ pc' # "fault"
    BY DEF LoaderPhase, CoffPhase, ElfPhase, XoutPhase
  <2> QED
    BY <2>2, <2>3, <2>4 DEF Taken, IInv
<1>5. Committed'
  BY <1>1, <1>2 DEF Committed, EarlyPhase, LoaderPhase, CoffPhase, ElfPhase, XoutPhase
<1> QED
  BY <1>3, <1>4, <1>5 DEF IInv

(* The COFF loader, phase by phase.                                        *)
LEMMA CoffKeeps == ASSUME IInv, TypeOK', Coff PROVE IInv'
<1>1. /\ ld \in Loading /\ file \in File /\ TypeOK
      /\ {"ok", "ENOEXEC", "EIO"} \subseteq Ret
  BY FileTyped DEF IInv, TypeOK, Ret
<1>2. UNCHANGED <<cmd, search, order, segv, pos, cred>> /\ pc \in CoffPhase
  BY DEF Coff, CoffHeader, CoffScan, CoffCommit, CoffMap, CoffBss, CoffLibs, Goto,
     chosen, CoffPhase
<1>3. file.format = "coff" /\ ld.ret = "ENOEXEC" /\ ~WithoutData
  BY <1>2 DEF IInv, InTurn, LoaderPhase, WithoutData
<1>4. file' = file /\ (Covered' <=> Covered) /\ (WithoutData' <=> WithoutData)
      /\ (AfterElf' <=> AfterElf)
      /\ (ld'.personality = ld.personality => (Chosen' <=> Chosen))
  BY <1>2, SameFile
<1>5. "interp" \in ld.fds => \E i \in DOMAIN search : search[i].dyn = "found"
  BY <1>3 DEF IInv, Taken
<1>6. pc # "coff" => ld.bufs = {"sections"}
  BY <1>2 DEF IInv, Taken, Holds, CoffPhase, ElfPhase, XoutPhase
<1>7. pc' \in CoffPhase \ {"coff"} => Holds' = {"sections"}
  BY DEF Holds, CoffPhase, ElfPhase, XoutPhase
<1>8. CASE CoffHeader
  <2> DEFINE l == Take("sections")
             o == [l EXCEPT !.fds = @ \cup {"null"}]
  <2>0. pc = "coff" /\ ld.bufs = {} /\ "null" \notin ld.fds
    BY <1>8 DEF CoffHeader, IInv, Taken, Holds, CoffPhase, ElfPhase, XoutPhase
  <2>1. /\ l \in Loading /\ l.bufs = {"sections"}
        /\ l.left = ld.left /\ l.ret = ld.ret /\ l.fds = ld.fds /\ l.image = ld.image
        /\ l.personality = ld.personality /\ l.domain = ld.domain
        /\ l.committed = ld.committed
    BY <1>1, <2>0, TakeEffect
  <2> HIDE DEF l
  <2>2. /\ o.ret = ld.ret /\ o.fds = ld.fds \cup {"null"} /\ o.bufs = {"sections"}
        /\ o.image = ld.image /\ o.personality = ld.personality
        /\ o.domain = ld.domain /\ o.committed = ld.committed
    BY <2>1 DEF Loading
  <2>3. \/ Leave(ld, Nothing, "ENOEXEC") \/ Leave(l, out_free_buf, "EIO")
        \/ pc' = "fault" /\ ld' = l
        \/ pc' = "coff_scan" /\ ld' = o
    BY <1>8 DEF CoffHeader, l
  <2> HIDE DEF o
  <2>4. CASE Leave(ld, Nothing, "ENOEXEC")
    <3>1. SafeReturn(ld, Nothing, "ENOEXEC")
      BY <1>3, <1>5, <2>0 DEF SafeReturn, Nothing, IInv, Taken
    <3> QED
      BY <1>1, <1>2, <2>4, <3>1, LeaveKeeps, LabelsTyped
  <2>5. CASE Leave(l, out_free_buf, "EIO")
    <3>1. SafeReturn(l, out_free_buf, "EIO")
      BY <1>3, <1>5, <2>0, <2>1 DEF SafeReturn, out_free_buf, IInv, Taken
    <3> QED
      BY <1>1, <1>2, <2>1, <2>5, <3>1, LeaveKeeps, LabelsTyped
  <2>6. CASE pc' = "fault" /\ ld' = l
    <3>1. InTurn' /\ Dropped' /\ Committed'
      BY <2>6 DEF InTurn, LoaderPhase, CoffPhase, ElfPhase, XoutPhase, Dropped, LatePhase,
         Committed, EarlyPhase
    <3>2. Taken'
      BY <1>2, <1>3, <1>4, <1>5, <2>0, <2>1, <2>6 DEF IInv, Taken
    <3>3. Loaded'
      BY <1>2, <1>4, <2>0, <2>1, <2>6 DEF IInv, Loaded, LatePhase
    <3> QED
      BY <3>1, <3>2, <3>3 DEF IInv
  <2>7. CASE pc' = "coff_scan" /\ ld' = o
    <3>1. Loaded'
      BY <1>4, <2>2, <2>7, <1>2 DEF IInv, Loaded, LatePhase
    <3> QED
      BY <1>2, <1>7, <2>2, <2>7, <3>1, AdvanceKeeps DEF CoffPhase
  <2> QED
    BY <2>3, <2>4, <2>5, <2>6, <2>7
<1>9. CASE CoffScan
  <2>0. pc = "coff_scan"
    BY <1>9 DEF CoffScan
  <2>1. CASE pc' = "coff_commit" /\ UNCHANGED ld
    <3>1. Loaded'
      BY <1>4, <2>1, <1>2 DEF IInv, Loaded, LatePhase
    <3> QED
      BY <1>2, <1>6, <1>7, <2>0, <2>1, <3>1, AdvanceKeeps DEF CoffPhase
  <2>2. CASE Leave(ld, out_free_file, "ENOEXEC")
    <3>1. SafeReturn(ld, out_free_file, "ENOEXEC")
      BY <1>3, <1>5, <1>6, <2>0 DEF SafeReturn, out_free_file, IInv, Taken
    <3> QED
      BY <1>1, <1>2, <2>2, <3>1, LeaveKeeps, LabelsTyped
  <2> QED
    BY <1>9, <2>1, <2>2 DEF CoffScan
<1>10. CASE CoffCommit
  <2>1. pc = "coff_commit" /\ pc' = "coff_map" /\ ld' = Commit(Personality)
    BY <1>10 DEF CoffCommit, Goto
  <2>2. ld'.ret = ld.ret /\ ld'.fds = ld.fds /\ ld'.personality = Personality
        /\ ld'.committed /\ ld'.bufs = ld.bufs
    BY <1>1, <2>1, CommitEffect, PersonalityTyped
  <2>3. Chosen'
    BY <1>2, <2>2, SameFile DEF Chosen
  <2>4. Loaded'
    BY <1>3, <1>4, <2>1, <2>2, <2>3 DEF Loaded, LatePhase
  <2> QED
    BY <1>2, <1>6, <1>7, <2>1, <2>2, <2>4, AdvanceKeeps DEF CoffPhase
<1>11. CASE CoffMap
  <2>0. pc = "coff_map"
    BY <1>11 DEF CoffMap
  <2>1. CASE pc' = "coff_bss" /\ ld' = [ld EXCEPT !.image = IF file.aligned
                                          THEN @ \cup {"text", "data"} ELSE @]
    <3>1. /\ ld'.ret = ld.ret /\ ld'.fds = ld.fds /\ ld'.bufs = ld.bufs
          /\ ld'.personality = ld.personality
          /\ ld'.domain = ld.domain /\ ld'.committed = ld.committed
          /\ file.aligned => {"text", "data"} \subseteq ld'.image
      BY <1>1, <2>1 DEF Loading
    <3>2. Loaded'
      BY <1>4, <2>0, <2>1, <3>1, <1>2 DEF IInv, Loaded, LatePhase
    <3> QED
      BY <1>2, <1>6, <1>7, <2>0, <2>1, <3>1, <3>2, AdvanceKeeps DEF CoffPhase
  <2>2. ASSUME NEW done \in {{}, {"text"}},
               Leave([ld EXCEPT !.image = @ \cup done], out_free_file, "ENOEXEC")
        PROVE  IInv'
    <3> DEFINE l == [ld EXCEPT !.image = @ \cup done]
    <3>1. /\ l \in Loading /\ l.left = ld.left /\ l.fds = ld.fds /\ l.bufs = ld.bufs
          /\ l.personality = ld.personality
          /\ l.domain = ld.domain /\ l.committed = ld.committed
      BY <1>1 DEF Loading
    <3>2. Leave(l, out_free_file, "ENOEXEC")
      BY <2>2
    <3> HIDE DEF l
    <3>3. SafeReturn(l, out_free_file, "ENOEXEC")
      BY <1>3, <1>5, <1>6, <2>0, <3>1 DEF SafeReturn, out_free_file, IInv, Taken
    <3> QED
      BY <1>1, <1>2, <3>1, <3>2, <3>3, LeaveKeeps, LabelsTyped
  <2> QED
    BY <1>11, <2>1, <2>2 DEF CoffMap
<1>12. CASE CoffBss
  <2>0. pc = "coff_bss" /\ pc' = "coff_libs"
    BY <1>12 DEF CoffBss, Goto
  <2>1. /\ ld'.ret = ld.ret /\ ld'.fds = ld.fds /\ ld.image \subseteq ld'.image
        /\ ld'.personality = ld.personality /\ ld'.bufs = ld.bufs
        /\ ld'.domain = ld.domain /\ ld'.committed = ld.committed
    BY <1>1, <1>12 DEF CoffBss, Loading
  <2>2. Loaded'
    BY <1>4, <2>0, <2>1, <1>2 DEF IInv, Loaded, LatePhase
  <2> QED
    BY <1>2, <1>6, <1>7, <2>0, <2>1, <2>2, AdvanceKeeps DEF CoffPhase
<1>13. CASE CoffLibs
  <2>0. pc = "coff_libs"
    BY <1>13 DEF CoffLibs
  <2>1. CASE Trap(out_free_file)
    BY <1>2, <2>0, <2>1, TrapKeeps, LabelsTyped DEF CoffPhase
  <2>2. CASE Leave(ld, out_free_file, "ok")
    <3>1. Covered => file.aligned
      BY <1>1, <1>3 DEF Covered, File
    <3>2. SafeReturn(ld, out_free_file, "ok")
      BY <1>3, <1>5, <1>6, <2>0, <3>1 DEF SafeReturn, out_free_file, IInv, Taken, Loaded
    <3> QED
      BY <1>1, <1>2, <2>2, <3>2, LeaveKeeps, LabelsTyped
  <2> QED
    BY <1>13, <2>1, <2>2 DEF CoffLibs
<1> QED
  BY <1>8, <1>9, <1>10, <1>11, <1>12, <1>13 DEF Coff

(* The ELF loader, phase by phase.                                         *)
LEMMA ElfKeeps == ASSUME IInv, TypeOK', Elf PROVE IInv'
<1>1. /\ ld \in Loading /\ file \in File /\ TypeOK /\ pos \in DOMAIN search
      /\ {"ok", "ENOEXEC", "EIO", "ENOENT", "ELIBBAD", "EINVAL"} \cup MapErrors
            \subseteq Ret
  BY FileTyped, ErrorAssumption DEF IInv, TypeOK, Ret
<1>2. UNCHANGED <<cmd, search, order, segv, pos, cred>> /\ pc \in ElfPhase
  BY DEF Elf, ElfHeader, ElfInterp, ElfCommit, ElfMap, ElfLoadInterp, ElfStart, Goto,
     chosen, ElfPhase
<1>3. file.format = "elf" /\ ld.ret = "ENOEXEC" /\ ~WithoutData
  BY <1>2 DEF IInv, InTurn, LoaderPhase, WithoutData
<1>4. file' = file /\ (Covered' <=> Covered) /\ (WithoutData' <=> WithoutData)
      /\ (AfterElf' <=> AfterElf)
      /\ (ld'.personality = ld.personality => (Chosen' <=> Chosen))
  BY <1>2, SameFile
<1>5. "interp" \in ld.fds => \E i \in DOMAIN search : search[i].dyn = "found"
  BY <1>3 DEF IInv, Taken
<1>6. /\ pc \in {"elf_commit", "elf_map", "elf_start"} => ld.bufs =
            {"headers", "segments"} \cup (IF file.dyn # "no" THEN {"interp"} ELSE {})
      /\ pc' \in {"elf_commit", "elf_map", "elf_start"} => Holds' =
            {"headers", "segments"} \cup (IF file.dyn # "no" THEN {"interp"} ELSE {})
  BY <1>4 DEF IInv, Taken, Holds, CoffPhase, ElfPhase, XoutPhase
<1>7. "null" \notin ld.fds /\ ("log" \in ld.fds => cmd.log)
  BY <1>2 DEF IInv, Taken, CoffPhase, ElfPhase
<1>8. CASE ElfHeader
  <2> DEFINE l == Take("headers")
             t == [ld EXCEPT !.bufs = @ \cup {"headers", "segments"}]
  <2>0. pc = "elf" /\ ~ld.committed /\ ld.bufs = {}
    BY <1>8 DEF ElfHeader, IInv, Committed, Taken, Holds, CoffPhase, ElfPhase, XoutPhase
  <2>1. /\ l \in Loading /\ l.bufs = {"headers"}
        /\ l.left = ld.left /\ l.fds = ld.fds /\ l.personality = ld.personality
        /\ l.domain = ld.domain /\ l.committed = ld.committed
    BY <1>1, <2>0, TakeEffect
  <2>2. /\ t \in Loading /\ t.bufs = {"headers", "segments"} /\ t.ret = ld.ret
        /\ t.left = ld.left /\ t.fds = ld.fds /\ t.image = ld.image
        /\ t.personality = ld.personality
        /\ t.domain = ld.domain /\ t.committed = ld.committed
    BY <1>1, <2>0 DEF Loading
  <2>3. \/ Leave(l, elf_out, "ENOEXEC")
        \/ \E ret \in {"EIO", "ENOEXEC"} : Leave(t, out_free_ph, ret)
        \/ pc' = "elf_interp" /\ ld' = t
    BY <1>8 DEF ElfHeader
  <2> HIDE DEF l, t
  <2>4. CASE Leave(l, elf_out, "ENOEXEC")
    <3>1. SafeReturn(l, elf_out, "ENOEXEC")
      BY <1>5, <1>7, <2>0, <2>1 DEF SafeReturn, elf_out
    <3> QED
      BY <1>1, <1>2, <2>1, <2>4, <3>1, LeaveKeeps, LabelsTyped
  <2>5. ASSUME NEW ret \in {"EIO", "ENOEXEC"}, Leave(t, out_free_ph, ret)
        PROVE  IInv'
    <3>1. SafeReturn(t, out_free_ph, ret)
      BY <1>5, <1>7, <2>0, <2>2 DEF SafeReturn, out_free_ph
    <3> QED
      BY <1>1, <1>2, <2>2, <2>5, <3>1, LeaveKeeps, LabelsTyped
  <2>6. CASE pc' = "elf_interp" /\ ld' = t
    <3>1. Loaded'
      BY <1>2, <1>4, <2>0, <2>2, <2>6 DEF IInv, Loaded, LatePhase
    <3>2. Holds' = {"headers", "segments"}
      BY <2>6 DEF Holds, CoffPhase, ElfPhase, XoutPhase
    <3> QED
      BY <1>2, <2>0, <2>2, <2>6, <3>1, <3>2, AdvanceKeeps DEF ElfPhase
  <2> QED
    BY <2>3, <2>4, <2>5, <2>6
<1>9. CASE ElfInterp
  <2> DEFINE l == Take("interp")
             o == [l EXCEPT !.fds = @ \cup {"interp"}]
  <2>0. pc = "elf_interp" /\ ~ld.committed /\ ld.bufs = {"headers", "segments"}
    BY <1>9 DEF ElfInterp, IInv, Committed, Taken, Holds, CoffPhase, ElfPhase, XoutPhase
  <2>1. /\ l \in Loading /\ l.bufs = {"headers", "segments", "interp"}
        /\ l.left = ld.left /\ l.ret = ld.ret /\ l.fds = ld.fds /\ l.image = ld.image
        /\ l.personality = ld.personality /\ l.domain = ld.domain
        /\ l.committed = ld.committed
    BY <1>1, <2>0, TakeEffect
  <2> HIDE DEF l
  <2>2. /\ o \in Loading /\ o.bufs = {"headers", "segments", "interp"}
        /\ o.left = ld.left /\ o.ret = ld.ret /\ o.fds = ld.fds \cup {"interp"}
        /\ o.image = ld.image /\ o.personality = ld.personality
        /\ o.domain = ld.domain /\ o.committed = ld.committed
    BY <2>1 DEF Loading
  <2>3. \/ \E ret \in {"EIO", "ENOENT"} : Leave(l, out_free_interp, ret)
        \/ \E ret \in {"EIO", "ELIBBAD"} : Leave(o, out_free_dentry, ret)
        \/ pc' = "elf_commit" /\ ld' = ld /\ file.dyn = "no"
        \/ pc' = "elf_commit" /\ ld' = o /\ file.dyn = "found"
    BY <1>9 DEF ElfInterp, l
  <2> HIDE DEF o
  <2>4. ASSUME NEW ret \in {"EIO", "ENOENT"}, Leave(l, out_free_interp, ret)
        PROVE  IInv'
    <3>1. SafeReturn(l, out_free_interp, ret)
      BY <1>5, <1>7, <2>0, <2>1 DEF SafeReturn, out_free_interp
    <3> QED
      BY <1>1, <1>2, <2>1, <2>4, <3>1, LeaveKeeps, LabelsTyped
  <2>5. ASSUME NEW ret \in {"EIO", "ELIBBAD"}, Leave(o, out_free_dentry, ret)
        PROVE  IInv'
    <3>1. SafeReturn(o, out_free_dentry, ret)
      BY <1>5, <1>7, <2>0, <2>2 DEF SafeReturn, out_free_dentry, out_free_interp
    <3> QED
      BY <1>1, <1>2, <2>2, <2>5, <3>1, LeaveKeeps, LabelsTyped
  <2>6. CASE pc' = "elf_commit" /\ \/ ld' = ld /\ file.dyn = "no"
                                   \/ ld' = o /\ file.dyn = "found"
    <3>1. /\ ld'.ret = ld.ret /\ ld'.personality = ld.personality
          /\ ld'.domain = ld.domain /\ ld'.committed = ld.committed
          /\ ld'.fds = ld.fds \/ (ld'.fds = ld.fds \cup {"interp"} /\ file.dyn = "found")
      BY <2>2, <2>6
    <3>2. ld'.bufs = Holds'
      BY <1>6, <2>0, <2>2, <2>6
    <3>3. Loaded'
      BY <1>4, <2>6, <3>1, <1>2 DEF IInv, Loaded, LatePhase
    <3> QED
      BY <1>2, <2>0, <2>6, <3>1, <3>2, <3>3, AdvanceKeeps DEF ElfPhase
  <2> QED
    BY <2>3, <2>4, <2>5, <2>6
<1>10. CASE ElfCommit
  <2>1. pc = "elf_commit" /\ pc' = "elf_map" /\ ld' = Commit(ElfPersonality)
    BY <1>10 DEF ElfCommit, Goto
  <2>2. ld'.ret = ld.ret /\ ld'.fds = ld.fds /\ ld'.personality = ElfPersonality
        /\ ld'.committed /\ ld'.bufs = ld.bufs
    BY <1>1, <2>1, CommitEffect, PersonalityTyped
  <2>3. ~ld.committed /\ (AfterElf \/ ld.personality = None)
    BY <2>1 DEF IInv, Committed, Loaded
  <2>4. ElfPersonality = Personality \/ (AfterElf /\ ElfPersonality = file.guess)
    BY <2>3 DEF ElfPersonality, Personality
  <2>5. Chosen'
    BY <1>2, <1>3, <2>2, <2>4, SameFile DEF Chosen
  <2>6. Loaded'
    BY <1>3, <1>4, <2>1, <2>2, <2>5 DEF Loaded, LatePhase
  <2> QED
    BY <1>2, <1>6, <2>1, <2>2, <2>6, AdvanceKeeps DEF ElfPhase
<1>11. CASE /\ pc \in {"elf_map", "elf_start"} /\ pc' \in {"killed", "fault"}
            /\ pc' = "fault" => file.dyn = "no" /\ file.sound = "entry"
            /\ UNCHANGED ld
  <2>1. InTurn' /\ Dropped' /\ Committed'
    BY <1>11 DEF InTurn, LoaderPhase, CoffPhase, ElfPhase, XoutPhase, Dropped, LatePhase,
       Committed, EarlyPhase
  <2>2. Taken'
    BY <1>2, <1>3, <1>4, <1>5, <1>11, <1>7 DEF Taken
  <2>3. Loaded'
    BY <1>2, <1>4, <1>11 DEF IInv, Loaded, LatePhase
  <2> QED
    BY <2>1, <2>2, <2>3 DEF IInv
<1>12. CASE ElfMap
  <2>0. pc = "elf_map"
    BY <1>12 DEF ElfMap
  <2>1. CASE pc' = "elf_start" /\ ld' = [ld EXCEPT !.image = @ \cup {"text", "data"}]
    <3>1. /\ ld'.ret = ld.ret /\ ld'.fds = ld.fds /\ ld'.bufs = ld.bufs
          /\ ld'.personality = ld.personality
          /\ ld'.domain = ld.domain /\ ld'.committed = ld.committed
          /\ {"text", "data"} \subseteq ld'.image
      BY <1>1, <2>1 DEF Loading
    <3>2. Loaded'
      BY <1>4, <2>0, <2>1, <3>1, <1>2 DEF IInv, Loaded, LatePhase
    <3> QED
      BY <1>2, <1>6, <2>0, <2>1, <3>1, <3>2, AdvanceKeeps DEF ElfPhase
  <2> QED
    BY <1>11, <1>12, <2>0, <2>1 DEF ElfMap
<1>13. ASSUME pc = "elf_start", NEW label \in Label, label.frees = ld.bufs,
              Leave(ld, label, "ok")
       PROVE  IInv'
  <2>1. SafeReturn(ld, label, "ok")
    BY <1>5, <1>13, <1>7 DEF SafeReturn, IInv, Loaded
  <2> QED
    BY <1>1, <1>2, <1>13, <2>1, LeaveKeeps
<1>14. CASE ElfLoadInterp
  <2>0. /\ pc = "elf_start" /\ Interpreted(file)
        /\ ld.bufs = out_free_interp.frees /\ ld.bufs = out_free_dentry.frees
    BY <1>3, <1>14, <1>6 DEF ElfLoadInterp, out_free_interp, out_free_dentry, Interpreted
  <2>1. ASSUME NEW e \in MapErrors \cup {"EIO"}, Leave(ld, out_free_dentry, e)
        PROVE  IInv'
    <3>1. e \notin {"ok", "ENOEXEC"}
      BY ErrorAssumption
    <3>2. SafeReturn(ld, out_free_dentry, e)
      BY <1>5, <1>7, <2>0, <3>1 DEF SafeReturn
    <3> QED
      BY <1>1, <1>2, <2>1, <3>2, LeaveKeeps, LabelsTyped
  <2> QED
    BY <1>13, <1>14, <2>0, <2>1, LabelsTyped DEF ElfLoadInterp
<1>15. CASE ElfStart
  <2>0. pc = "elf_start" /\ file.dyn = "no" /\ ld.bufs = {"headers", "segments"}
    BY <1>15, <1>6 DEF ElfStart
  <2>1. CASE file.sound = "entry"
    <3>1. pc' = "fault" /\ ld' = ld
      BY <1>15, <2>0, <2>1 DEF ElfStart, Leave, out_free_dentry, out_free_interp
    <3> QED
      BY <1>11, <2>0, <2>1, <3>1
  <2>2. CASE file.sound # "entry"
    BY <1>13, <1>15, <2>0, <2>2, LabelsTyped DEF ElfStart, out_free_ph
  <2> QED
    BY <2>1, <2>2
<1> QED
  BY <1>8, <1>9, <1>10, <1>12, <1>14, <1>15 DEF Elf

(* The x.out loader, phase by phase.                                       *)
LEMMA XoutKeeps == ASSUME IInv, TypeOK', Xout PROVE IInv'
<1>1. /\ ld \in Loading /\ file \in File /\ TypeOK
      /\ {"ok", "ENOEXEC", "EIO"} \subseteq Ret
  BY FileTyped DEF IInv, TypeOK, Ret
<1>2. UNCHANGED <<cmd, search, order, segv, pos, cred>> /\ pc \in XoutPhase
  BY DEF Xout, XoutHeader, XoutCommit, XoutMap, XoutRead, Goto, chosen, XoutPhase
<1>3. file.format = "xout" /\ ld.ret = "ENOEXEC"
  BY <1>2 DEF IInv, InTurn, LoaderPhase
<1>4. file' = file /\ (Covered' <=> Covered) /\ (WithoutData' <=> WithoutData)
      /\ (AfterElf' <=> AfterElf)
      /\ (ld'.personality = ld.personality => (Chosen' <=> Chosen))
  BY <1>2, SameFile
<1>5. /\ "interp" \in ld.fds => \E i \in DOMAIN search : search[i].dyn = "found"
      /\ "null" \notin ld.fds /\ ("log" \in ld.fds => cmd.log)
      /\ pc # "xout" => ld.bufs = {"seglist"}
      /\ pc' \in XoutPhase \ {"xout"} => Holds' = {"seglist"}
  BY <1>2, <1>3 DEF IInv, Taken, Holds, CoffPhase, ElfPhase, XoutPhase
<1>6. Covered => ~file.aligned
  BY <1>1, <1>3 DEF Covered, File
<1>7. CASE XoutHeader
  <2> DEFINE l == Take("seglist")
  <2>0. pc = "xout" /\ ld.bufs = {}
    BY <1>7 DEF XoutHeader, IInv, Taken, Holds, CoffPhase, ElfPhase, XoutPhase
  <2>1. /\ l \in Loading /\ l.bufs = {"seglist"}
        /\ l.left = ld.left /\ l.ret = ld.ret /\ l.fds = ld.fds /\ l.image = ld.image
        /\ l.personality = ld.personality /\ l.domain = ld.domain
        /\ l.committed = ld.committed
    BY <1>1, <2>0, TakeEffect
  <2>2. \/ Leave(ld, Nothing, "ENOEXEC") \/ Leave(l, xout_out, "EIO")
        \/ file.sound = "sections" /\ Leave(l, xout_out, "ok")
        \/ file.sound # "sections" /\ pc' = "xout_commit" /\ ld' = l
    BY <1>7 DEF XoutHeader
  <2> HIDE DEF l
  <2>3. CASE Leave(ld, Nothing, "ENOEXEC")
    <3>1. SafeReturn(ld, Nothing, "ENOEXEC")
      BY <1>3, <1>5, <2>0 DEF SafeReturn, Nothing
    <3> QED
      BY <1>1, <1>2, <2>3, <3>1, LeaveKeeps, LabelsTyped
  <2>4. CASE Leave(l, xout_out, "EIO")
    <3>1. SafeReturn(l, xout_out, "EIO")
      BY <1>3, <1>5, <2>1 DEF SafeReturn, xout_out
    <3> QED
      BY <1>1, <1>2, <2>1, <2>4, <3>1, LeaveKeeps, LabelsTyped
  <2>5. CASE file.sound = "sections" /\ Leave(l, xout_out, "ok")
    <3>1. ~ld.committed /\ WithoutData
      BY <1>3, <2>5 DEF IInv, Loaded, WithoutData
    <3>2. SafeReturn(l, xout_out, "ok")
      BY <1>3, <1>5, <2>1, <3>1 DEF SafeReturn, xout_out
    <3> QED
      BY <1>1, <1>2, <2>1, <2>5, <3>2, LeaveKeeps, LabelsTyped
  <2>6. CASE file.sound # "sections" /\ pc' = "xout_commit" /\ ld' = l
    <3>1. Loaded'
      BY <1>2, <1>4, <2>1, <2>6 DEF IInv, Loaded, LatePhase, WithoutData
    <3> QED
      BY <1>2, <1>5, <2>1, <2>6, <3>1, AdvanceKeeps DEF XoutPhase
  <2> QED
    BY <2>2, <2>3, <2>4, <2>5, <2>6
<1>8. CASE XoutCommit
  <2>1. pc = "xout_commit" /\ pc' = "xout_map" /\ ld' = Commit(Personality)
    BY <1>8 DEF XoutCommit, Goto
  <2>2. ld'.ret = ld.ret /\ ld'.fds = ld.fds /\ ld'.personality = Personality
        /\ ld'.committed /\ ld'.bufs = ld.bufs
    BY <1>1, <2>1, CommitEffect, PersonalityTyped
  <2>3. Chosen'
    BY <1>2, <2>2, SameFile DEF Chosen
  <2>4. Loaded'
    BY <1>4, <2>1, <2>2, <2>3 DEF IInv, Loaded, LatePhase
  <2> QED
    BY <1>2, <1>5, <2>1, <2>2, <2>4, AdvanceKeeps DEF XoutPhase
<1>9. CASE XoutMap
  <2>0. pc = "xout_map"
    BY <1>9 DEF XoutMap
  <2>1. CASE Trap(xout_out)
    BY <1>2, <2>0, <2>1, TrapKeeps, LabelsTyped DEF XoutPhase
  <2>2. CASE file.aligned /\ Leave(ld, xout_out, "ok")
    <3>1. SafeReturn(ld, xout_out, "ok")
      BY <1>3, <1>5, <1>6, <2>0, <2>2 DEF SafeReturn, xout_out
    <3> QED
      BY <1>1, <1>2, <2>2, <3>1, LeaveKeeps, LabelsTyped
  <2>3. CASE pc' = "xout_read" /\ UNCHANGED ld
    <3>1. Loaded'
      BY <1>2, <1>4, <2>0, <2>3 DEF IInv, Loaded, LatePhase
    <3> QED
      BY <1>2, <1>5, <2>0, <2>3, <3>1, AdvanceKeeps DEF XoutPhase
  <2> QED
    BY <1>9, <2>1, <2>2, <2>3 DEF XoutMap
<1>10. CASE XoutRead
  <2> DEFINE l == [ld EXCEPT !.image = @ \cup {"text", "data", "bss"}]
  <2>0. pc = "xout_read" /\ (Trap(xout_out) \/ Leave(l, xout_out, "ok"))
    BY <1>10 DEF XoutRead
  <2>1. /\ l \in Loading /\ l.left = ld.left /\ l.fds = ld.fds /\ l.bufs = ld.bufs
        /\ l.personality = ld.personality
        /\ l.domain = ld.domain /\ l.committed = ld.committed
        /\ {"text", "data"} \subseteq l.image
    BY <1>1 DEF Loading
  <2> HIDE DEF l
  <2>2. CASE Trap(xout_out)
    BY <1>2, <2>0, <2>2, TrapKeeps, LabelsTyped DEF XoutPhase
  <2>3. CASE Leave(l, xout_out, "ok")
    <3>1. SafeReturn(l, xout_out, "ok")
      BY <1>3, <1>5, <2>0, <2>1 DEF SafeReturn, xout_out, IInv, Loaded
    <3> QED
      BY <1>1, <1>2, <2>1, <2>3, <3>1, LeaveKeeps, LabelsTyped
  <2> QED
    BY <2>0, <2>2, <2>3
<1> QED
  BY <1>7, <1>8, <1>9, <1>10 DEF Xout

(* load_binfmt around the loaders.                                         *)
LEMMA LoadBinfmtKeeps == ASSUME IInv, TypeOK', LoadBinfmt PROVE IInv'
<1>1. ld \in Loading /\ file \in File /\ TypeOK
  BY FileTyped DEF IInv, TypeOK
<1>2. UNCHANGED <<cmd, search, order, segv, pos, cred>>
      /\ pc \in {"open", "formats", "close"}
  BY DEF LoadBinfmt, OpenFails, OpenFile, TryFormat, FormatsDone, Close, Goto, chosen
<1>3. file' = file /\ (Covered' <=> Covered) /\ (WithoutData' <=> WithoutData)
      /\ (AfterElf' <=> AfterElf)
      /\ (ld'.personality = ld.personality => (Chosen' <=> Chosen))
  BY <1>2, SameFile
<1>4. ld.bufs = {} /\ "null" \notin ld.fds
  BY <1>2 DEF IInv, Taken, Holds, LoaderPhase, CoffPhase, ElfPhase, XoutPhase
<1>5. pc' \in LoadPhase \cup {"coff", "elf", "xout"} => Holds' = {}
  BY DEF Holds, LoadPhase, CoffPhase, ElfPhase, XoutPhase
<1>6. CASE OpenFails
  <2>1. pc = "open" /\ pc' = "loaded" /\ ld' = [ld EXCEPT !.ret = file.open]
        /\ file.open # "ok"
    BY <1>6 DEF OpenFails, Return
  <2>2. /\ ld'.bufs = ld.bufs /\ ld'.fds = ld.fds
        /\ ld'.image = ld.image /\ ld'.personality = ld.personality
        /\ ld'.domain = ld.domain /\ ld'.committed = ld.committed
        /\ ld'.ret = file.open
    BY <1>1, <2>1 DEF Loading
  <2>3. ~ld.committed /\ "exe" \notin ld.fds
        /\ ("interp" \in ld.fds => \E i \in DOMAIN search : search[i].dyn = "found")
    BY <2>1 DEF IInv, Committed, Taken, LoaderPhase, CoffPhase, ElfPhase, XoutPhase
  <2>4. InTurn' /\ Dropped'
    BY <2>1 DEF InTurn, LoaderPhase, CoffPhase, ElfPhase, XoutPhase, Dropped, LatePhase
  <2>5. Taken' /\ Committed'
    BY <1>2, <1>4, <1>5, <2>1, <2>2, <2>3 DEF IInv, Taken, Committed, EarlyPhase, LoadPhase
  <2>6. Loaded'
    BY <1>2, <1>3, <2>1, <2>2, <2>3 DEF IInv, Loaded, LatePhase
  <2> QED
    BY <2>4, <2>5, <2>6 DEF IInv
<1>7. CASE OpenFile
  <2>1. PICK ret \in {"ENOEXEC", "EIO"} :
           ld' = [ld EXCEPT !.fds = @ \cup {"exe"}, !.ret = ret, !.left = order]
    BY <1>7 DEF OpenFile
  <2>2. pc = "open" /\ pc' \in {"formats", "close"}
    BY <1>7 DEF OpenFile
  <2>3. /\ ld'.bufs = ld.bufs /\ ld'.fds = ld.fds \cup {"exe"}
        /\ ld'.image = ld.image /\ ld'.personality = ld.personality
        /\ ld'.domain = ld.domain /\ ld'.committed = ld.committed
        /\ ld'.ret = ret
    BY <1>1, <2>1 DEF Loading
  <2>4. ~ld.committed
        /\ ("interp" \in ld.fds => \E i \in DOMAIN search : search[i].dyn = "found")
    BY <2>2 DEF IInv, Committed, Taken
  <2>5. InTurn' /\ Dropped'
    BY <2>2 DEF InTurn, LoaderPhase, CoffPhase, ElfPhase, XoutPhase, Dropped, LatePhase
  <2>6. Taken' /\ Committed'
    BY <1>2, <1>4, <1>5, <2>2, <2>3, <2>4 DEF IInv, Taken, Committed, EarlyPhase, LoadPhase
  <2>7. Loaded'
    BY <1>2, <1>3, <2>2, <2>3, <2>4 DEF IInv, Loaded, LatePhase
  <2> QED
    BY <2>5, <2>6, <2>7 DEF IInv
<1>8. CASE TryFormat
  <2>1. ld.left \in Seq(Format) /\ ld.left # <<>>
    BY <1>1, <1>8 DEF TryFormat, Loading
  <2>2. Head(ld.left) \in Format
    BY <2>1, HeadTailProperties
  <2>3. pc = "formats" /\ ld.ret = "ENOEXEC"
        /\ (pc' = "formats" \/ (pc' = file.format /\ pc' \in {"coff", "elf", "xout"}))
    BY <1>8, <2>2 DEF TryFormat, Format
  <2>4. /\ ld'.bufs = ld.bufs /\ ld'.fds = ld.fds /\ ld'.ret = ld.ret
        /\ ld'.image = ld.image /\ ld'.personality = ld.personality
        /\ ld'.domain = ld.domain /\ ld'.committed = ld.committed
    BY <1>1, <1>8 DEF TryFormat, Loading
  <2>5. pc' \notin LatePhase
    BY <2>3 DEF LatePhase
  <2>6. InTurn' /\ Dropped'
    BY <1>3, <2>3, <2>4, <2>5
    DEF InTurn, LoaderPhase, CoffPhase, ElfPhase, XoutPhase, Dropped
  <2>7. Taken'
    BY <1>2, <1>4, <1>5, <2>3, <2>4
    DEF IInv, Taken, LoadPhase, LoaderPhase, CoffPhase, ElfPhase, XoutPhase
  <2>8. Committed'
    BY <1>3, <2>3, <2>4 DEF IInv, Committed, EarlyPhase
  <2>9. Loaded'
    BY <1>2, <1>3, <2>3, <2>4, <2>5 DEF IInv, Loaded
  <2> QED
    BY <2>6, <2>7, <2>8, <2>9 DEF IInv
<1>9. CASE FormatsDone
  <2>1. pc = "formats" /\ pc' = "close" /\ ld' = ld
    BY <1>9 DEF FormatsDone, Goto
  <2>2. InTurn' /\ Dropped'
    BY <2>1 DEF InTurn, LoaderPhase, CoffPhase, ElfPhase, XoutPhase, Dropped, LatePhase
  <2>3. Taken' /\ Committed'
    BY <1>2, <1>3, <1>4, <1>5, <2>1 DEF IInv, Taken, Committed, EarlyPhase, LoadPhase
  <2>4. Loaded'
    BY <1>2, <1>3, <2>1 DEF IInv, Loaded, LatePhase
  <2> QED
    BY <2>2, <2>3, <2>4 DEF IInv
<1>10. CASE Close
  <2>1. pc = "close" /\ pc' = "loaded" /\ ld' = [ld EXCEPT !.fds = @ \ {"exe"}]
    BY <1>10 DEF Close, Goto
  <2>2. /\ ld'.bufs = ld.bufs /\ ld'.fds = ld.fds \ {"exe"} /\ ld'.ret = ld.ret
        /\ ld'.image = ld.image /\ ld'.personality = ld.personality
        /\ ld'.domain = ld.domain /\ ld'.committed = ld.committed
    BY <1>1, <2>1 DEF Loading
  <2>3. InTurn' /\ Dropped'
    BY <2>1 DEF InTurn, LoaderPhase, CoffPhase, ElfPhase, XoutPhase, Dropped, LatePhase
  <2>4. Taken' /\ Committed'
    BY <1>2, <1>3, <1>4, <1>5, <2>1, <2>2 DEF IInv, Taken, Committed, EarlyPhase, LoadPhase
  <2>5. Loaded'
    BY <1>2, <1>3, <2>1, <2>2 DEF IInv, Loaded, LatePhase
  <2> QED
    BY <2>3, <2>4, <2>5 DEF IInv
<1> QED
  BY <1>6, <1>7, <1>8, <1>9, <1>10 DEF LoadBinfmt

(* load_binary's answer to load_binfmt, and what main does after it.       *)
LEMMA MainKeeps ==
    ASSUME IInv, TypeOK',
           \/ ParseCmdline \/ CompatInit \/ CheckPrivilege \/ LoadBinary
           \/ DomainCheck \/ InodeTable \/ Jump
    PROVE  IInv'
<1>1. ld \in Loading /\ file \in File /\ TypeOK
  BY FileTyped DEF IInv, TypeOK
<1>2. pc' \notin LoaderPhase
  BY DEF ParseCmdline, CompatInit, CheckPrivilege, LoadBinary, SearchOn, LoadFailed,
     SetCredentials, DomainCheck, InodeTable, Jump, Goto, LoaderPhase, CoffPhase,
     ElfPhase, XoutPhase
<1>3. InTurn'
  BY <1>2 DEF InTurn, LoaderPhase
<1>4. ld.bufs = {} /\ "null" \notin ld.fds /\ "exe" \notin ld.fds
  <2>1. pc \in EarlyPhase \cup {"loaded"} \cup LatePhase
    BY DEF ParseCmdline, CompatInit, CheckPrivilege, LoadBinary, SearchOn,
       LoadFailed, SetCredentials, DomainCheck, InodeTable, Jump, Goto, EarlyPhase,
       LatePhase
  <2>2. pc \notin LoaderPhase \cup {"formats", "close", "killed", "fault"}
    BY <2>1 DEF EarlyPhase, LatePhase, LoaderPhase, CoffPhase, ElfPhase, XoutPhase
  <2>3. Holds = {}
    BY <2>2 DEF Holds, LoaderPhase
  <2> QED
    BY <2>2, <2>3 DEF IInv, Taken, LoaderPhase
<1>5. pc' # "fault" /\ Holds' = {}
  <2>1. pc' # "fault"
    BY DEF ParseCmdline, CompatInit, CheckPrivilege, LoadBinary, SearchOn,
       LoadFailed, SetCredentials, DomainCheck, InodeTable, Jump, Goto
  <2> QED
    BY <1>2, <2>1 DEF Holds, LoaderPhase
<1>6. CASE ParseCmdline
  <2>1. /\ pc = "parse" /\ pc' \in {"init", "exited"}
        /\ ld' = [ld EXCEPT !.fds = IF cmd.log THEN @ \cup {"log"} ELSE @]
        /\ UNCHANGED <<cmd, search, segv, pos, cred>>
    BY <1>6 DEF ParseCmdline, chosen
  <2>2. /\ ld'.bufs = ld.bufs /\ ld'.ret = ld.ret
        /\ ld'.fds = ld.fds \/ (cmd.log /\ ld'.fds = ld.fds \cup {"log"})
        /\ ld'.image = ld.image /\ ld'.personality = ld.personality
        /\ ld'.domain = ld.domain /\ ld'.committed = ld.committed
    BY <1>1, <2>1 DEF Loading
  <2>3. file' = file /\ (Covered' <=> Covered) /\ (WithoutData' <=> WithoutData)
        /\ (AfterElf' <=> AfterElf) /\ (Chosen' <=> Chosen)
    BY <2>1, <2>2, SameFile
  <2>4. Taken'
    BY <1>4, <1>5, <2>1, <2>2 DEF IInv, Taken
  <2>5. Committed' /\ Dropped'
    BY <2>1, <2>2 DEF IInv, Committed, Dropped, EarlyPhase, LatePhase
  <2>6. Loaded'
    BY <2>1, <2>2, <2>3 DEF IInv, Loaded, LatePhase
  <2> QED
    BY <1>3, <2>4, <2>5, <2>6 DEF IInv
<1>7. CASE CompatInit \/ CheckPrivilege
  <2>1. pc \in EarlyPhase /\ pc' \in EarlyPhase \cup {"open", "exited"}
        /\ UNCHANGED <<cmd, search, segv, pos, ld, cred>>
    BY <1>7 DEF CompatInit, CheckPrivilege, Goto, chosen, EarlyPhase
  <2>2. file' = file /\ (Covered' <=> Covered) /\ (WithoutData' <=> WithoutData)
        /\ (AfterElf' <=> AfterElf)
        /\ (ld'.personality = ld.personality => (Chosen' <=> Chosen))
    BY <2>1, SameFile
  <2>3. Taken'
    BY <1>4, <1>5, <2>1 DEF IInv, Taken, EarlyPhase
  <2>4. Committed' /\ Dropped'
    BY <2>1 DEF IInv, Committed, Dropped, EarlyPhase, LatePhase
  <2>5. Loaded'
    BY <2>1, <2>2 DEF IInv, Loaded, EarlyPhase, LatePhase
  <2> QED
    BY <1>3, <2>3, <2>4, <2>5 DEF IInv
<1>8. CASE SearchOn
  <2>1. pc = "loaded" /\ pc' = "open" /\ pos' = Stale /\ ld.ret \in Retry
        /\ ld' = [ld EXCEPT !.image = {}, !.committed = FALSE]
        /\ UNCHANGED <<cmd, search, segv, cred>>
    BY <1>8 DEF SearchOn, Goto, chosen
  <2>2. ld'.bufs = ld.bufs /\ ld'.fds = ld.fds /\ ~ld'.committed
    BY <1>1, <2>1 DEF Loading
  <2>3. ld.ret \notin {"ELIBBAD", "EIO"}
    BY <2>1 DEF Retry
  <2>4. Taken'
    BY <1>4, <1>5, <2>1, <2>2, <2>3 DEF IInv, Taken
  <2>5. Committed' /\ Dropped'
    BY <2>1, <2>2 DEF Committed, Dropped, EarlyPhase, LatePhase
  <2>6. ASSUME ~AfterElf' PROVE ~ld'.domain /\ ld'.personality = None
    <3>1. \A i \in DOMAIN search : ~Interpreted(search[i])
      BY <2>1, <2>6 DEF AfterElf, Interpreted
    <3>2. ~AfterElf /\ ~Interpreted(file)
      BY <1>1, <3>1, FileTyped DEF AfterElf, file
    <3>3. ~ld.committed
      BY <2>1, <3>2 DEF IInv, Committed, Retry
    <3>4. ld'.domain = ld.domain /\ ld'.personality = ld.personality
      BY <1>1, <2>1 DEF Loading
    <3> QED
      BY <3>2, <3>3, <3>4 DEF IInv, Loaded
  <2>7. Loaded'
    BY <2>1, <2>2, <2>6 DEF Loaded, LatePhase
  <2> QED
    BY <1>3, <2>4, <2>5, <2>7 DEF IInv
<1>9. CASE /\ pc' = "exited" /\ UNCHANGED <<cmd, search, segv, pos, ld>>
  <2>1. file' = file /\ (Covered' <=> Covered) /\ (WithoutData' <=> WithoutData)
        /\ (AfterElf' <=> AfterElf)
        /\ (ld'.personality = ld.personality => (Chosen' <=> Chosen))
    BY <1>9, SameFile
  <2>2. Taken'
    BY <1>4, <1>9, <1>5 DEF IInv, Taken
  <2>3. Committed' /\ Dropped'
    BY <1>9 DEF Committed, Dropped, EarlyPhase, LatePhase
  <2>4. Loaded'
    BY <1>9, <2>1 DEF IInv, Loaded, LatePhase
  <2> QED
    BY <1>3, <2>2, <2>3, <2>4 DEF IInv
<1>10. CASE LoadFailed
  BY <1>9, <1>10 DEF LoadFailed, Goto, chosen
<1>11. CASE SetCredentials
  <2> DEFINE his(id) == IF file.suid THEN file.owner ELSE id
             set(id, eid) == IF cred.euid = "root" \/ his(id) = id THEN his(id) ELSE eid
  <2>1. pc = "loaded" /\ ld.ret = "ok" /\ UNCHANGED <<cmd, search, segv, pos, ld>>
        /\ \/ pc' = "exited"
           \/ /\ pc' = "domain"
              /\ cred' = [cred EXCEPT !.euid = set(cred.uid, @),
                                      !.egid = set(cred.gid, @), !.caps = FALSE]
    BY <1>11 DEF SetCredentials, chosen
  <2>2. CASE pc' = "domain"
    <3>1. file' = file /\ (Covered' <=> Covered) /\ (WithoutData' <=> WithoutData)
          /\ (AfterElf' <=> AfterElf)
          /\ (ld'.personality = ld.personality => (Chosen' <=> Chosen))
      BY <2>1, SameFile
    <3>2. cred'.euid = set(cred.uid, cred.euid) /\ cred'.uid = cred.uid /\ ~cred'.caps
      BY <1>1, <2>1, <2>2 DEF TypeOK
    <3>3. Dropped'
      BY <3>1, <3>2 DEF Dropped
    <3>4. Taken' /\ Committed'
      BY <1>4, <1>5, <2>1, <2>2 DEF IInv, Taken, Committed, EarlyPhase
    <3>5. Loaded'
      BY <2>1, <2>2, <3>1 DEF IInv, Loaded, LatePhase
    <3> QED
      BY <1>3, <3>3, <3>4, <3>5 DEF IInv
  <2> QED
    BY <1>9, <2>1, <2>2
<1>12. CASE DomainCheck \/ InodeTable \/ Jump
  <2>1. pc \in LatePhase \ {"started"} /\ pc' \in LatePhase \cup {"exited"}
        /\ (pc = "domain" /\ pc' # "exited" => ld.domain) /\ pc' # "domain"
        /\ UNCHANGED <<cmd, search, segv, pos, ld, cred>>
    BY <1>12 DEF DomainCheck, InodeTable, Jump, chosen, LatePhase
  <2>2. CASE pc' \in LatePhase
    <3>1. file' = file /\ (Covered' <=> Covered) /\ (WithoutData' <=> WithoutData)
          /\ (AfterElf' <=> AfterElf)
          /\ (ld'.personality = ld.personality => (Chosen' <=> Chosen))
      BY <2>1, SameFile
    <3>2. Dropped'
      BY <2>1, <3>1 DEF IInv, Dropped
    <3>3. Taken' /\ Committed'
      BY <1>4, <1>5, <2>1, <2>2 DEF IInv, Taken, Committed, EarlyPhase, LatePhase
    <3>4. Loaded'
      BY <2>1, <2>2, <3>1 DEF IInv, Loaded, LatePhase
    <3> QED
      BY <1>3, <3>2, <3>3, <3>4 DEF IInv
  <2> QED
    BY <1>9, <2>1, <2>2
<1> QED
  BY <1>7, <1>8, <1>10, <1>11, <1>12, <1>6 DEF LoadBinary

-----------------------------------------------------------------------------
(* Nothing is taken, committed or loaded at the start.                     *)
LEMMA InitIInv == Init => IInv
<1> SUFFICES ASSUME Init PROVE IInv
  OBVIOUS
<1>1. TypeOK /\ pc = "parse" /\ ld.bufs = {} /\ ld.fds = {} /\ ld.committed = FALSE
      /\ ld.domain = FALSE /\ ld.personality = None
  BY InitTypeOK DEF Init
<1>2. InTurn /\ Dropped
  BY <1>1 DEF InTurn, Dropped, LoaderPhase, CoffPhase, ElfPhase, XoutPhase, LatePhase
<1>3. Taken /\ Committed /\ Loaded
  <2>1. Holds = {}
    BY <1>1 DEF Holds, CoffPhase, ElfPhase, XoutPhase
  <2> QED
    BY <1>1, <2>1 DEF Taken, Committed, Loaded, LatePhase
<1> QED
  BY <1>1, <1>2, <1>3 DEF IInv

(* Every step of main and of the loaders keeps the invariant.              *)
LEMMA NextIInv == IInv /\ [Next]_vars => IInv'
<1> SUFFICES ASSUME IInv, [Next]_vars PROVE IInv'
  OBVIOUS
<1>1. TypeOK'
  BY NextTypeOK DEF IInv
<1>2. CASE UNCHANGED vars
  BY <1>2 DEF vars, IInv, TypeOK, InTurn, Taken, Committed, Loaded, Dropped, file,
     Covered, WithoutData, Personality, Holds, AfterElf, Chosen
<1> QED
  BY <1>1, <1>2, CoffKeeps, ElfKeeps, XoutKeeps, LoadBinfmtKeeps, MainKeeps
  DEF Next, Main, Ended

(* What the phases of start-up have taken, committed and loaded: the       *)
(* inductive invariant behind the theorems that follow.                    *)
THEOREM PhaseInvariant == Spec => []IInv
BY InitIInv, NextIInv, PTL DEF Spec

(* The labels by which the loaders leave free what was allocated on the    *)
(* way to them and no more, and close the placeholder descriptor (the goto *)
(* out_... of the three loaders; two faults are excepted).  A program      *)
(* starts with no descriptor of the emulator's but those of a found ELF    *)
(* interpreter and of --log=FILE.                                          *)
THEOREM Released == Spec => []LoadersRelease
<1>1. IInv => LoadersRelease
  <2> SUFFICES ASSUME IInv PROVE LoadersRelease
    OBVIOUS
  <2>1. pc \in LoadPhase => ld.bufs = {} /\ "null" \notin ld.fds
    BY DEF IInv, Taken, Holds, LoadPhase, LoaderPhase, CoffPhase, ElfPhase, XoutPhase
  <2>2. ASSUME pc = "started"
        PROVE  /\ ld.fds \subseteq {"interp", "log"}
               /\ "interp" \in ld.fds =>
                     \E i \in DOMAIN search : search[i].dyn = "found"
               /\ "log" \in ld.fds => cmd.log
    <3>1. ld.fds \subseteq {"exe", "null", "interp", "log"}
      BY DEF IInv, TypeOK, Loading
    <3>2. "exe" \notin ld.fds /\ "null" \notin ld.fds
      BY <2>2 DEF IInv, Taken, LoaderPhase, CoffPhase, ElfPhase, XoutPhase
    <3>3. /\ "interp" \in ld.fds => \E i \in DOMAIN search : search[i].dyn = "found"
          /\ "log" \in ld.fds => cmd.log
      BY <2>2 DEF IInv, Taken
    <3> QED
      BY <3>1, <3>2, <3>3
  <2>3. pc = "fault" =>
           \/ file.format = "elf" /\ file.dyn = "no" /\ file.sound = "entry"
           \/ file.format = "coff" /\ "null" \notin ld.fds
    BY DEF IInv, Taken
  <2> QED
    BY <2>1, <2>2, <2>3 DEF LoadersRelease, LoadPhase
<1> QED
  BY <1>1, PhaseInvariant, PTL

(* A program that is started is in memory, under the personality asked for *)
(* or guessed (load_binary and the loaders' point of no return).  After an *)
(* ELF file that was committed to and could not be loaded a second ELF     *)
(* file has the guessed one, asked for or not (binfmt_elf.c:136), and an   *)
(* x.out file without data is excepted.                                    *)
THEOREM LoadedWhenStarted == Spec => []StartedIsLoaded
<1>1. IInv => StartedIsLoaded
  <2> SUFFICES ASSUME IInv, pc = "started", segv = "dfl", Covered,
                      ~AfterElf \/ file.sound # "sections"
               PROVE  {"text", "data"} \subseteq ld.image /\ ld.domain /\ Chosen
    BY DEF StartedIsLoaded, Covered, Chosen
  <2>1. ld.ret = "ok" /\ ld.domain
    BY DEF IInv, Loaded, LatePhase
  <2>2. ld.committed \/ AfterElf
    BY <2>1 DEF IInv, Loaded
  <2>3. ld.committed /\ {"text", "data"} \subseteq ld.image
    BY <2>1, <2>2 DEF IInv, Loaded, LatePhase, WithoutData
  <2> QED
    BY <2>1, <2>3 DEF IInv, Loaded
<1> QED
  BY <1>1, PhaseInvariant, PTL

(* The program has no capabilities and is root only if its user is or the  *)
(* file is root's and setuid (set_credentials).                            *)
THEOREM Unprivileged == Spec => []PrivilegesDropped
<1>1. IInv => PrivilegesDropped
  BY DEF IInv, Dropped, PrivilegesDropped, LatePhase
<1> QED
  BY <1>1, PhaseInvariant, PTL

(* Past "THE POINT OF NO RETURN" of a loader no other file is tried, but   *)
(* for an ELF interpreter that cannot be mapped.                           *)
THEOREM PointOfNoReturn == Spec => NoReturn
<1>1. ASSUME IInv, [Next]_vars
      PROVE  pc = "loaded" /\ pc' = "open" /\ ld.committed => Interpreted(file)
  <2> SUFFICES ASSUME pc = "loaded", pc' = "open", ld.committed
               PROVE  Interpreted(file)
    OBVIOUS
  <2>1. ld.ret \in Retry
    BY <1>1 DEF Next, Main, LoadBinfmt, LoadBinary, Coff, Elf, Xout, Ended, vars, Goto,
       ParseCmdline, CompatInit, CheckPrivilege, OpenFails, OpenFile, TryFormat,
       FormatsDone, Close, CoffHeader, CoffScan, CoffCommit, CoffMap, CoffBss, CoffLibs,
       ElfHeader, ElfInterp, ElfCommit, ElfMap, ElfLoadInterp, ElfStart, XoutHeader,
       XoutCommit, XoutMap, XoutRead, SearchOn, LoadFailed, SetCredentials, DomainCheck,
       InodeTable, Jump, Return
  <2> QED
    BY <1>1, <2>1 DEF IInv, Committed, Retry
<1> QED
  BY <1>1, PhaseInvariant, PTL DEF Spec, NoReturn
=============================================================================
