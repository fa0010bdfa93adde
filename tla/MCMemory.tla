------------------------------ MODULE MCMemory ------------------------------
(***************************************************************************)
(* The two heaps of a process, which share no state: the allocator of the  *)
(* emulator and the break of the emulated program.                         *)
(*                                                                         *)
(* For the latter, pages of two words and programs whose bss ends in the   *)
(* page the data ends in, in a page of its own, or at a page boundary,     *)
(* with and without a shared library.                                      *)
(***************************************************************************)
EXTENDS IbcsMalloc, Brk

Program(format, end, library) ==
    [format |-> format, bss |-> 3, end |-> end, library |-> library]
CoffLayouts == {Program("coff", end, lib) : end \in {4, 5, 6, 7, 8},
                                            lib \in {{}, {13}}}
ElfLayouts == {Program("elf", end, lib) : end \in {4, 5, 6}, lib \in {{}, {13}}}
AllLayouts == CoffLayouts \cup ElfLayouts

CONSTANT Heaps      \* those this run is about

VARIABLE heap

Init ==
    /\ heap \in Heaps
    /\ MallocInit /\ BrkInit
    /\ heap = "emulator" => layout = CHOOSE l \in Layouts : TRUE

Next ==
    /\ UNCHANGED heap
    /\ \/ heap = "emulator" /\ MallocNext /\ UNCHANGED brkVars
       \/ heap = "program" /\ BrkNext /\ UNCHANGED mallocVars

Spec == Init /\ [][Next]_<<heap, mallocVars, brkVars>>
=============================================================================
