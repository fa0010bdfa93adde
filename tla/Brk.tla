-------------------------------- MODULE Brk --------------------------------
(***************************************************************************)
(* The program break: set up by the loaders (binfmt_mmap of ibcs/sysent.c, *)
(* init_brk of ibcs/linux26-compat.c), moved by abi_brk of                 *)
(* per-svr4/misc.c through linux26_brk and do_brk.                         *)
(*                                                                         *)
(* The heap is one private mapping that mremap() resizes in place.  The    *)
(* emulator remembers its bounds in mm; vm is what the kernel really has.  *)
(* Addresses are counted in words, PAGE_SIZE words to a page.              *)
(***************************************************************************)
EXTENDS Integers, FiniteSets

CONSTANTS
    PAGE_SIZE,
    Pages,          \* pages of the address space
    Layouts,        \* the programs that may be loaded
    Breaks,         \* the breaks the program asks for
    Obstacles       \* the pages the kernel gives to the program's mmap()s

Page == 0 .. Pages - 1
Address == 0 .. Pages * PAGE_SIZE
PageTruncate(x) == (x \div PAGE_SIZE) * PAGE_SIZE  \* mutant of the next one
PAGE_ALIGN(x) == ((x + PAGE_SIZE - 1) \div PAGE_SIZE) * PAGE_SIZE
PageOf(x) == x \div PAGE_SIZE
PagesIn(from, to) == {p \in Page : PageOf(from) <= p /\ p * PAGE_SIZE < to}

(* A layout: the file format; the bss, from the end of the data to the     *)
(* break; and the pages of a shared library loaded above, if any.          *)
ASSUME PageAssumption == PAGE_SIZE \in Nat \ {0} /\ Pages \in Nat \ {0}
ASSUME LayoutAssumption ==
    \A l \in Layouts :
        /\ l.format \in {"coff", "elf"}
        /\ l.bss \in Address /\ l.end \in Address /\ l.bss < l.end
        /\ l.library \subseteq Page
ASSUME BreaksAssumption == Breaks \subseteq Address /\ Obstacles \subseteq Page

VARIABLES
    mm,         \* brk, start_brk, and addr, max, min for ibcs_brk_mmap_*
    vm,         \* what the kernel has mapped at each page
    layout,     \* the program that was loaded
    granted     \* the last break abi_brk agreed to

brkVars == <<mm, vm, layout, granted>>
-----------------------------------------------------------------------------
(* The kernel's mremap() without MREMAP_MAYMOVE: a mapping shrinks by      *)
(* unmapping the range, and grows if it is all there and there is room.    *)
Mremap(v, addr, oldEnd, newEnd) ==
    LET gone == PagesIn(newEnd, oldEnd)
        more == PagesIn(oldEnd, newEnd)
        whole == \A p \in PagesIn(addr, oldEnd) : v[p] = "heap"
        room == newEnd <= Pages * PAGE_SIZE /\ \A p \in more : v[p] = "free"
    IN  IF newEnd <= oldEnd
        THEN [p \in Page |-> IF p \in gone THEN "free" ELSE v[p]]
        ELSE IF whole /\ room /\ addr < oldEnd
        THEN [p \in Page |-> IF p \in more THEN "heap" ELSE v[p]]
        ELSE v

(* do_brk.  Its test for failure looks at addr, so mremap()'s is missed.   *)
DoBrk(m, v, addr, len) ==
    LET end == PAGE_ALIGN(addr + len)
        floor == IF end = m.min THEN PAGE_ALIGN(m.min + 1) ELSE end
    IN  IF end = m.max \/ end < m.min THEN [mm |-> m, vm |-> v]
        ELSE [mm |-> [m EXCEPT !.max = floor],
              vm |-> Mremap(v, m.addr, m.max, floor)]
-----------------------------------------------------------------------------
(* What a loader leaves behind: the bounds in mm as do_brk and the loader  *)
(* set them, the pages it mapped, and the highest anonymous (bss) mapping, *)
(* which is the one init_brk wants to extend, if it is the highest of all. *)

NoBounds == [brk |-> 0, start_brk |-> 0, addr |-> 0, max |-> 0, min |-> 0]
Image(l, p) == IF p \in l.library \/ p < PageOf(PAGE_ALIGN(l.bss)) THEN "image"
               ELSE "free"

(* COFF maps the whole pages of the bss with binfmt_mmap.                  *)
LoadCoff(l) ==
    [mm |-> [NoBounds EXCEPT !.brk = l.end, !.start_brk = l.bss],
     vm |-> [p \in Page |-> IF p \in PagesIn(PAGE_ALIGN(l.bss), l.end)
                            THEN "heap" ELSE Image(l, p)],
     bssTop |-> PAGE_ALIGN(l.bss) < l.end /\ l.library = {}]

(* ELF calls do_brk (set_brk), before there is a mapping to resize.        *)
LoadElf(l) ==
    LET start == PAGE_ALIGN(l.bss)
        end == PAGE_ALIGN(l.end)
        file == [p \in Page |-> Image(l, p)]
        done == IF end > start THEN DoBrk(NoBounds, file, start, end - start)
                ELSE [mm |-> NoBounds, vm |-> file]
    IN  [mm |-> [done.mm EXCEPT !.brk = end, !.start_brk = end],
         vm |-> done.vm, bssTop |-> FALSE]

(* Mutant: the floor of the break is the start of the bss.                 *)
InitBrkLowFloor(l, m, v, bssTop) ==
    LET new == PAGE_ALIGN(m.brk)
    IN  IF bssTop
        THEN [mm |-> [m EXCEPT !.addr = PAGE_ALIGN(l.bss), !.min = l.bss,
                               !.max = PAGE_ALIGN(m.brk)], vm |-> v]
        ELSE [mm |-> [m EXCEPT !.addr = new, !.max = new + PAGE_SIZE, !.min = new],
              vm |-> [v EXCEPT ![PageOf(new)] = "heap"]]

(* The heap's first page is mapped with MAP_FIXED, which is taken to       *)
(* succeed: the kernel refuses it only when it has no memory at all.       *)
InitBrk(l, m, v, bssTop) ==
    LET new == PAGE_ALIGN(m.brk)
    IN  IF bssTop
        THEN [mm |-> [m EXCEPT !.addr = PAGE_ALIGN(l.bss), !.min = m.brk,
                               !.max = PAGE_ALIGN(m.brk)], vm |-> v]
        ELSE [mm |-> [m EXCEPT !.addr = new, !.max = new + PAGE_SIZE, !.min = new],
              vm |-> [v EXCEPT ![PageOf(new)] = "heap"]]

(* load_binfmt: the loader, then init_brk.                                 *)
BrkInit ==
    /\ layout \in Layouts
    /\ LET loaded == IF layout.format = "elf" THEN LoadElf(layout)
                                              ELSE LoadCoff(layout)
           ready == InitBrk(layout, loaded.mm, loaded.vm, loaded.bssTop)
       IN  mm = ready.mm /\ vm = ready.vm
    /\ granted = layout.end
-----------------------------------------------------------------------------
(* linux26_brk: what it leaves, and whether it agrees.                     *)
Linux26Brk(m, v, new) ==
    LET old == PAGE_ALIGN(m.brk)
        end == PAGE_ALIGN(new)
        done == IF end = old THEN [mm |-> m, vm |-> v]
                ELSE DoBrk(m, v, old, end - old)
    IN  IF new < m.min THEN [mm |-> m, vm |-> v, ok |-> FALSE]
        ELSE [mm |-> [done.mm EXCEPT !.brk = new], vm |-> done.vm, ok |-> TRUE]

(* abi_brk moves the break back to start_brk before it lowers it, and does *)
(* nothing more when the break stays in its page.  brk(0) only reports.    *)
AbiBrk(brk) ==
    LET low == IF mm.brk > brk /\ brk > mm.start_brk
               THEN [mm EXCEPT !.brk = mm.start_brk] ELSE mm
        done == IF PAGE_ALIGN(brk) = PAGE_ALIGN(low.brk)
                THEN [mm |-> low, vm |-> vm, ok |-> TRUE]
                ELSE Linux26Brk(low, vm, brk)
    IN  /\ brk # 0
        /\ mm' = done.mm /\ vm' = done.vm
        /\ granted' = IF done.ok THEN brk ELSE granted
        /\ UNCHANGED layout

(* Any other mmap(): the kernel puts it where nothing is mapped.           *)
Mmap(p) ==
    /\ vm[p] = "free"
    /\ vm' = [vm EXCEPT ![p] = "other"]
    /\ UNCHANGED <<mm, layout, granted>>

BrkNext == (\E brk \in Breaks : AbiBrk(brk)) \/ (\E p \in Obstacles : Mmap(p))

BrkSpec == BrkInit /\ [][BrkNext]_brkVars
-----------------------------------------------------------------------------
(* No sequence of breaks, granted or refused, unmaps a page of the data or *)
(* of the bss: the floor ibcs_brk_mmap_min holds.                          *)
BssKept ==
    layout.format = "coff" =>
        \A p \in PagesIn(0, layout.end) : vm[p] \in {"image", "heap"}

(* Memory below a break the program was granted is there.  do_brk is to    *)
(* "Resize the existing brk() mmap to the new size" (linux26-compat.c:848).*)
HeapMapped ==
    \A p \in PagesIn(PAGE_ALIGN(layout.end), granted) : vm[p] = "heap"
=============================================================================
