------------------------------ MODULE MCStartup ------------------------------
(***************************************************************************)
(* Instances of Startup: every kind of file a loader distinguishes, alone  *)
(* or behind a PATH element that has no such file or may not be read.      *)
(***************************************************************************)
EXTENDS Startup, SequencesExt, TLC

Absent == [open |-> "ENOENT", regular |-> FALSE, format |-> "none",
           sound |-> "no", aligned |-> FALSE, dyn |-> "no", libs |-> FALSE,
           suid |-> FALSE, owner |-> "user", guess |-> 1]
Plain(format) ==
    [open |-> "ok", regular |-> TRUE, format |-> format, sound |-> "yes",
     aligned |-> format # "xout", dyn |-> "no", libs |-> FALSE, suid |-> FALSE,
     owner |-> "user", guess |-> 1]

Files ==
    {Absent, [Absent EXCEPT !.open = "EACCES"],
     [Absent EXCEPT !.open = "ok"], Plain("none")}
    \cup {[Plain(f) EXCEPT !.sound = s, !.aligned = a] :
             f \in Format, s \in {"no", "sections", "yes"}, a \in BOOLEAN}
    \cup {[Plain(f) EXCEPT !.suid = s, !.owner = o, !.guess = g] :
             f \in Format, s \in BOOLEAN, o \in {"root", "user"}, g \in {1, 2}}
    \cup {[Plain("elf") EXCEPT !.sound = "entry"],
          [Plain("coff") EXCEPT !.libs = TRUE]}
    \cup {[Plain("elf") EXCEPT !.dyn = d] : d \in {"found", "missing", "broken"}}

(* In a PATH of two elements the program is in the second.  A search that  *)
(* may go astray finds nothing, or something else, in the stale name.      *)
Lost == {f \in Files : f.open # "ok" \/ f.dyn = "found"}
Search(path, stale) == (Stale :> stale) @@ path
MCSearches == {Search(<<f>>, Absent) : f \in Files}
                \cup {Search(<<f>>, Plain("elf")) : f \in Lost}
                \cup {Search(<<f>>, [Plain("elf") EXCEPT !.dyn = "found"]) :
                         f \in Lost}
                \cup {Search(<<f>>, [Plain("xout") EXCEPT !.sound = "sections"]) :
                         f \in Lost}
                \cup {Search(<<f, Plain("coff")>>, Absent) : f \in Lost}

(* The first directory of the PATH has no such program, the second has.    *)
MCSecondHasIt == {Search(<<Absent, Plain("coff")>>, Absent)}

MCCommands == [ok : BOOLEAN, slash : BOOLEAN, log : BOOLEAN,
               personality : {None, 3, 4}, map : {"none", "good", "bad"}]
MCCommand == [ok : {TRUE}, slash : {FALSE}, log : {FALSE},
              personality : {None}, map : {"none"}]

MCCredentials == [uid : {"root", "user"}, euid : {"root", "user"},
                  gid : {"user"}, egid : {"user"}, caps : BOOLEAN]
MCRoot == {[uid |-> "root", euid |-> "root", gid |-> "root",
            egid |-> "root", caps |-> TRUE]}

(* Every order of registration.                                            *)
MCBinfmts == SetToSeqs(Format)
=============================================================================
