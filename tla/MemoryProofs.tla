---------------------------- MODULE MemoryProofs ----------------------------
(***************************************************************************)
(* Proofs about the two heaps of a process: the break of the emulated      *)
(* program (Brk), for every page size, layout and sequence of breaks, and  *)
(* the allocator of the emulator (IbcsMalloc), for every header size, all  *)
(* requests and every limit of the break.                                  *)
(***************************************************************************)
EXTENDS Brk, IbcsMalloc, WellFoundedInduction, NaturalsInduction, TLAPS

(* Rounding up to pages.                                                   *)
LEMMA Aligned ==
    ASSUME NEW x \in Nat
    PROVE  /\ PAGE_ALIGN(x) \in Nat /\ PageOf(x) \in Nat
           /\ x <= PAGE_ALIGN(x) /\ PAGE_ALIGN(x) < x + PAGE_SIZE
           /\ PageOf(PAGE_ALIGN(x)) * PAGE_SIZE = PAGE_ALIGN(x)
           /\ PageOf(x) * PAGE_SIZE <= x
           /\ PAGE_ALIGN(PAGE_ALIGN(x)) = PAGE_ALIGN(x)
<1> DEFINE P == PAGE_SIZE
           k == (x + P - 1) \div P
<1>1. P \in Nat /\ P > 0
  BY PageAssumption
<1>2. \A y \in Nat : /\ y \div P \in Nat /\ (y \div P) * P <= y
                     /\ y < (y \div P) * P + P
  BY <1>1, SMT
<1>3. x + P - 1 \in Nat
  BY <1>1
<1>4. k \in Nat /\ k * P \in Nat
  BY <1>1, <1>2, <1>3
<1>5. (k * P) \div P = k
  BY <1>1, <1>4, SMT
<1>6. k * P <= x + P - 1 /\ x + P - 1 < k * P + P
  BY <1>2, <1>3
<1>7. (k * P + P - 1) \div P = k
  BY <1>1, <1>4, SMT
<1> HIDE DEF k
<1> QED
  BY <1>1, <1>2, <1>4, <1>5, <1>6, <1>7 DEF PAGE_ALIGN, PageOf, k

OnPage(a) == PageOf(a) * PAGE_SIZE = a

(* Pages and addresses that are multiples of the page size.                *)
LEMMA PageBounds ==
    ASSUME NEW p \in Nat, NEW x \in Nat, NEW a \in Nat, OnPage(a)
    PROVE  /\ p * PAGE_SIZE \in Nat
           /\ p * PAGE_SIZE < PAGE_ALIGN(x) <=> p * PAGE_SIZE < x
           /\ PageOf(a) <= p <=> a <= p * PAGE_SIZE
           /\ x <= a => PAGE_ALIGN(x) <= a
           /\ OnPage(a + PAGE_SIZE)
           /\ a <= p * PAGE_SIZE /\ p * PAGE_SIZE < a + PAGE_SIZE => p = PageOf(a)
           /\ PageOf(p * PAGE_SIZE) = p
<1> DEFINE P == PAGE_SIZE
           k == PageOf(a)
           j == PageOf(PAGE_ALIGN(x))
<1>1. P \in Nat /\ P > 0
  BY PageAssumption
<1>2. k \in Nat /\ j \in Nat /\ a = k * P /\ PAGE_ALIGN(x) = j * P
  BY Aligned DEF OnPage
<1>3. x <= j * P /\ j * P < x + P
  BY <1>2, Aligned
<1>4. \A m, n \in Nat : m < n => m * P + P <= n * P
  <2> SUFFICES ASSUME NEW m \in Nat, NEW n \in Nat, m < n PROVE m * P + P <= n * P
    OBVIOUS
  <2>1. (m + 1) * P <= n * P
    BY <1>1, SMT
  <2> QED
    BY <1>1, <2>1, SMT
<1>5. \A m \in Nat : m * P \in Nat
  BY <1>1, SMT
<1>6. (p * P) \div P = p
  BY <1>1, SMT
<1>7. (k * P + P) \div P = k + 1 /\ (k + 1) * P = k * P + P
  BY <1>1, <1>2, SMT
<1> HIDE DEF k, j
<1>8. k <= p <=> k * P <= p * P
  BY <1>1, <1>2, <1>4, <1>5
<1>9. p * P < j * P <=> p * P < x
  BY <1>1, <1>2, <1>3, <1>4, <1>5
<1>10. x <= k * P => j * P <= k * P
  BY <1>1, <1>2, <1>3, <1>4, <1>5
<1>11. k * P <= p * P /\ p * P < k * P + P => p = k
  BY <1>1, <1>2, <1>4, <1>5
<1>12. OnPage(a + P)
  BY <1>2, <1>7 DEF OnPage, PageOf
<1> QED
  BY <1>2, <1>5, <1>6, <1>8, <1>9, <1>10, <1>11, <1>12 DEF k, PageOf

VM == [Page -> {"free", "image", "heap", "other"}]
MM == [brk : Nat, start_brk : Nat, addr : Nat, max : Nat, min : Nat]

(* The pages before (v) and after (w) mremap() moved the end of a mapping: *)
(* in general, and when it could grow the mapping.                         *)
Remapped(v, w, old, new) ==
    \A p \in Page :
       /\ new <= old => w[p] = IF new <= p * PAGE_SIZE /\ p * PAGE_SIZE < old
                               THEN "free" ELSE v[p]
       /\ new > old => w[p] = v[p] \/ (v[p] = "free" /\ w[p] = "heap")
Grown(v, w, old, new) ==
    \A p \in Page : w[p] = IF old <= p * PAGE_SIZE /\ p * PAGE_SIZE < new
                           THEN "heap" ELSE v[p]
Extendable(v, addr, old, new) ==
    \A q \in Page :
       /\ addr <= q * PAGE_SIZE /\ q * PAGE_SIZE < old => v[q] = "heap"
       /\ old <= q * PAGE_SIZE /\ q * PAGE_SIZE < new => v[q] = "free"

(* What mremap() does to the pages, for a mapping that ends on a page.     *)
LEMMA MremapPages ==
    ASSUME NEW v \in VM, NEW addr \in Nat, NEW old \in Nat, NEW new \in Nat,
           OnPage(addr), OnPage(old), OnPage(new),
           NEW w, w = Mremap(v, addr, old, new)
    PROVE  w \in VM /\ Remapped(v, w, old, new)
<1>1. \A p \in Page : p \in Nat
  BY PageAssumption DEF Page
<1> DEFINE gone == PagesIn(new, old)
           more == PagesIn(old, new)
           room == new <= Pages * PAGE_SIZE /\ \A p \in more : v[p] = "free"
<1>2. \A p \in Page :
         p \in gone <=> new <= p * PAGE_SIZE /\ p * PAGE_SIZE < old
  BY <1>1, PageBounds DEF PagesIn
<1>3. gone \subseteq Page /\ more \subseteq Page
  BY DEF PagesIn
<1>4. \/ new <= old /\ w = [p \in Page |-> IF p \in gone THEN "free" ELSE v[p]]
      \/ /\ ~(new <= old) /\ room
         /\ w = [p \in Page |-> IF p \in more THEN "heap" ELSE v[p]]
      \/ ~(new <= old) /\ w = v
  BY DEF Mremap
<1> HIDE DEF gone, more
<1>5. CASE new <= old /\ w = [p \in Page |-> IF p \in gone THEN "free" ELSE v[p]]
  BY <1>2, <1>5 DEF VM, Remapped
<1>6. CASE /\ ~(new <= old) /\ room
           /\ w = [p \in Page |-> IF p \in more THEN "heap" ELSE v[p]]
  BY <1>3, <1>6 DEF VM, Remapped
<1> QED
  BY <1>4, <1>5, <1>6 DEF Remapped

(* And when it can grow the mapping.                                       *)
LEMMA MremapGrows ==
    ASSUME NEW v \in VM, NEW addr \in Nat, NEW old \in Nat, NEW new \in Nat,
           OnPage(addr), OnPage(old), OnPage(new),
           new > old, addr < old, new <= Pages * PAGE_SIZE,
           Extendable(v, addr, old, new), NEW w, w = Mremap(v, addr, old, new)
    PROVE  Grown(v, w, old, new)
<1>1. \A p \in Page : p \in Nat
  BY PageAssumption DEF Page
<1>2. \A p \in Page :
         /\ p \in PagesIn(old, new) <=> old <= p * PAGE_SIZE /\ p * PAGE_SIZE < new
         /\ p \in PagesIn(addr, old) <=> addr <= p * PAGE_SIZE /\ p * PAGE_SIZE < old
  BY <1>1, PageBounds DEF PagesIn
<1>3. PagesIn(old, new) \subseteq Page /\ PagesIn(addr, old) \subseteq Page
  BY DEF PagesIn
<1>4. /\ \A p \in PagesIn(addr, old) : v[p] = "heap"
      /\ \A p \in PagesIn(old, new) : v[p] = "free"
  BY <1>2, <1>3 DEF Extendable
<1>5. w = [p \in Page |-> IF p \in PagesIn(old, new) THEN "heap" ELSE v[p]]
  BY <1>4 DEF Mremap
<1> QED
  BY <1>2, <1>5 DEF Grown

-----------------------------------------------------------------------------
(* The break's variables have their types, and the bounds the emulator     *)
(* keeps of the heap are in order: it starts no later than the first page  *)
(* after the program, is never empty, its floor is not below the program's *)
(* end, and the breaks agreed to lie within it.                            *)
BrkTypeOK ==
    /\ layout \in Layouts /\ granted \in Nat
    /\ mm \in MM /\ vm \in VM
BrkBounds ==
    /\ OnPage(mm.addr) /\ OnPage(mm.max)
    /\ mm.addr <= mm.min /\ mm.addr < mm.max /\ mm.min <= mm.max
    /\ layout.end <= mm.min /\ mm.addr <= PAGE_ALIGN(layout.end)
    /\ granted <= mm.max /\ mm.brk <= mm.max

(* abi_brk, by its outcomes: the heap stays as it is, or its end moves to  *)
(* the page of the break, but not below the floor.                         *)
LEMMA AbiBrkOutcomes ==
    ASSUME BrkTypeOK, BrkBounds, NEW b \in Nat, AbiBrk(b)
    PROVE  /\ layout' = layout /\ mm' \in MM
           /\ mm'.addr = mm.addr /\ mm'.min = mm.min
           /\ \/ /\ vm' = vm /\ mm'.max = mm.max
                 /\ granted' <= mm.max /\ mm'.brk <= mm.max
              \/ /\ mm.min <= b /\ vm' = Mremap(vm, mm.addr, mm.max, mm'.max)
                 /\ OnPage(mm'.max) /\ b <= mm'.max /\ mm.min < mm'.max
                 /\ mm'.max > mm.max => mm'.max = PAGE_ALIGN(b)
                 /\ mm'.max <= PAGE_ALIGN(b) + PAGE_SIZE
                 /\ granted' <= mm'.max /\ mm'.brk <= mm'.max
           /\ granted' \in {granted, b}
<1> DEFINE low == IF mm.brk > b /\ b > mm.start_brk
                  THEN [mm EXCEPT !.brk = mm.start_brk] ELSE mm
           old == PAGE_ALIGN(low.brk)
           end == PAGE_ALIGN(b)
           floor == IF end = mm.min THEN PAGE_ALIGN(mm.min + 1) ELSE end
           kept == PAGE_ALIGN(b) = PAGE_ALIGN(low.brk)
<1>1. /\ low \in MM /\ low.addr = mm.addr /\ low.max = mm.max /\ low.min = mm.min
      /\ low.brk <= mm.max
  BY DEF BrkTypeOK, BrkBounds, MM
<1> HIDE DEF low
<1>2. mm.min \in Nat /\ mm.max \in Nat /\ mm.addr \in Nat /\ low.brk \in Nat
      /\ granted \in Nat /\ mm.min + 1 \in Nat /\ PAGE_SIZE \in Nat \ {0}
  BY <1>1, PageAssumption DEF BrkTypeOK, MM
<1>3. old \in Nat /\ end \in Nat /\ b <= end /\ OnPage(end) /\ OnPage(old)
      /\ PAGE_ALIGN(end) = end /\ PAGE_ALIGN(mm.min + 1) \in Nat
      /\ mm.min + 1 <= PAGE_ALIGN(mm.min + 1) /\ OnPage(PAGE_ALIGN(mm.min + 1))
      /\ PAGE_ALIGN(mm.min + 1) < mm.min + 1 + PAGE_SIZE
  BY <1>2, Aligned DEF OnPage
<1>4. old <= mm.max
  BY <1>1, <1>2, PageBounds DEF BrkBounds
<1>5. layout' = layout /\ granted' \in {granted, b}
  BY DEF AbiBrk
<1>6. CASE kept
  <2>1. mm' = low /\ vm' = vm /\ granted' = b
    BY <1>6 DEF AbiBrk, low
  <2>2. b <= mm.max
    BY <1>2, <1>3, <1>4, <1>6
  <2> QED
    BY <1>1, <1>5, <2>1, <2>2
<1>7. CASE ~kept /\ b < mm.min
  <2>1. Linux26Brk(low, vm, b) = [mm |-> low, vm |-> vm, ok |-> FALSE]
    BY <1>1, <1>7 DEF Linux26Brk
  <2>2. mm' = low /\ vm' = vm /\ granted' = granted
    BY <1>7, <2>1 DEF AbiBrk, low
  <2> QED
    BY <1>1, <1>5, <2>2 DEF BrkBounds
<1>8. CASE ~kept /\ ~(b < mm.min)
  <2>1. old + (end - old) = end
    BY <1>3
  <2>2. DoBrk(low, vm, old, end - old) =
           IF end = mm.max \/ end < mm.min THEN [mm |-> low, vm |-> vm]
           ELSE [mm |-> [low EXCEPT !.max = floor],
                 vm |-> Mremap(vm, mm.addr, mm.max, floor)]
    BY <1>1, <1>3, <2>1 DEF DoBrk
  <2> DEFINE done == DoBrk(low, vm, old, end - old)
  <2>3. Linux26Brk(low, vm, b) =
           [mm |-> [done.mm EXCEPT !.brk = b], vm |-> done.vm, ok |-> TRUE]
    BY <1>1, <1>8 DEF Linux26Brk
  <2>4. mm' = [done.mm EXCEPT !.brk = b] /\ vm' = done.vm /\ granted' = b
    BY <1>8, <2>3 DEF AbiBrk, low
  <2>5. CASE end = mm.max
    <3>1. done.mm = low /\ done.vm = vm
      BY <2>2, <2>5
    <3>2. mm' = [low EXCEPT !.brk = b] /\ vm' = vm
      BY <2>4, <3>1
    <3>3. /\ mm' \in MM /\ mm'.addr = low.addr /\ mm'.max = low.max
          /\ mm'.min = low.min /\ mm'.brk = b
      BY <1>1, <3>2 DEF MM
    <3> QED
      BY <1>1, <1>3, <1>5, <2>4, <2>5, <3>2, <3>3
  <2>6. CASE end # mm.max
    <3>1. ~(end < mm.min)
      BY <1>2, <1>3, <1>8
    <3>2. done.mm = [low EXCEPT !.max = floor] /\ done.vm = Mremap(vm, mm.addr, mm.max, floor)
      BY <2>2, <2>6, <3>1
    <3>3. floor \in Nat /\ OnPage(floor) /\ mm.min < floor /\ end <= floor
      BY <1>2, <1>3, <3>1
    <3>4. floor > mm.max => floor = end
      <4>1. CASE end = mm.min
        <5>1. mm.min + 1 <= mm.max
          BY <1>2, <2>6, <4>1 DEF BrkBounds
        <5>2. PAGE_ALIGN(mm.min + 1) <= mm.max
          BY <1>2, <5>1, PageBounds DEF BrkBounds
        <5> QED
          BY <1>2, <1>3, <4>1, <5>2
      <4> QED
        BY <4>1
    <3>5. floor <= end + PAGE_SIZE
      BY <1>2, <1>3
    <3> HIDE DEF floor
    <3>6. mm' = [[low EXCEPT !.max = floor] EXCEPT !.brk = b]
          /\ vm' = Mremap(vm, mm.addr, mm.max, floor)
      BY <2>4, <3>2
    <3>7. /\ mm' \in MM /\ mm'.addr = low.addr /\ mm'.max = floor
          /\ mm'.min = low.min /\ mm'.brk = b
      BY <1>1, <3>3, <3>6 DEF MM
    <3> QED
      BY <1>1, <1>2, <1>3, <1>5, <1>8, <2>4, <3>3, <3>4, <3>5, <3>6, <3>7
  <2> QED
    BY <2>5, <2>6
<1> QED
  BY <1>6, <1>7, <1>8

(* The invariant of the break.                                             *)
BssInv == BrkTypeOK /\ BrkBounds /\ BssKept

(* No break and no other mapping takes a page of the program.              *)
LEMMA BrkNextBss == BssInv /\ [BrkNext]_brkVars => BssInv'
<1> SUFFICES ASSUME BssInv, [BrkNext]_brkVars PROVE BssInv'
  OBVIOUS
<1>0. /\ BrkTypeOK /\ BrkBounds /\ PAGE_SIZE \in Nat \ {0}
      /\ \A p \in Page : p \in Nat /\ p * PAGE_SIZE \in Nat
      /\ layout.end \in Nat /\ mm.max \in Nat /\ mm.min \in Nat /\ mm.addr \in Nat
  <2>1. \A p \in Page : p \in Nat
    BY PageAssumption DEF Page
  <2>2. PAGE_SIZE \in Nat /\ \A n \in Nat : n * PAGE_SIZE \in Nat
    BY PageAssumption, SMT
  <2>3. layout.end \in Nat
    <3>1. layout.end \in Address
      BY LayoutAssumption DEF BssInv, BrkTypeOK
    <3> QED
      BY <3>1, PageAssumption, <2>2 DEF Address
  <2> QED
    BY <2>1, <2>2, <2>3, PageAssumption DEF BssInv, BrkTypeOK, MM
<1>1. ASSUME NEW b \in Breaks, AbiBrk(b) PROVE BssInv'
  <2>0. b \in Nat
    <3>1. b \in Address
      BY BreaksAssumption
    <3>2. Pages * PAGE_SIZE \in Nat
      BY PageAssumption, SMT
    <3> QED
      BY <3>1, <3>2 DEF Address
  <2>1. /\ layout' = layout /\ mm' \in MM
        /\ mm'.addr = mm.addr /\ mm'.min = mm.min /\ granted' \in {granted, b}
    BY <1>0, <1>1, <2>0, AbiBrkOutcomes
  <2>2. CASE /\ vm' = vm /\ mm'.max = mm.max
             /\ granted' <= mm.max /\ mm'.brk <= mm.max
    <3>1. BrkTypeOK' /\ BrkBounds'
      BY <1>0, <2>0, <2>1, <2>2 DEF BrkTypeOK, BrkBounds
    <3> QED
      BY <2>1, <2>2, <3>1 DEF BssInv, BssKept
  <2>3. CASE /\ mm.min <= b /\ vm' = Mremap(vm, mm.addr, mm.max, mm'.max)
             /\ OnPage(mm'.max) /\ b <= mm'.max /\ mm.min < mm'.max
             /\ granted' <= mm'.max /\ mm'.brk <= mm'.max
    <3>0. mm'.max \in Nat
      BY <2>1 DEF MM
    <3>1. vm' \in VM /\ Remapped(vm, vm', mm.max, mm'.max)
      BY <1>0, <2>3, <3>0, MremapPages DEF BrkTypeOK, BrkBounds
    <3>2. BrkTypeOK' /\ BrkBounds'
      BY <1>0, <2>0, <2>1, <2>3, <3>0, <3>1 DEF BrkTypeOK, BrkBounds
    <3>3. ASSUME layout.format = "coff", NEW p \in PagesIn(0, layout.end)
          PROVE  vm'[p] \in {"image", "heap"}
      <4>1. p \in Page /\ p * PAGE_SIZE < layout.end /\ vm[p] \in {"image", "heap"}
        BY <3>3 DEF PagesIn, BssInv, BssKept
      <4>2. ~(mm'.max <= p * PAGE_SIZE)
        BY <1>0, <2>3, <3>0, <4>1 DEF BrkBounds
      <4> QED
        BY <1>0, <3>0, <3>1, <4>1, <4>2 DEF Remapped
    <3> QED
      BY <2>1, <3>2, <3>3 DEF BssInv, BssKept
  <2> QED
    BY <1>0, <1>1, <2>0, <2>2, <2>3, AbiBrkOutcomes
<1>2. ASSUME NEW p \in Obstacles, Mmap(p) PROVE BssInv'
  <2>1. vm[p] = "free" /\ vm' = [vm EXCEPT ![p] = "other"]
        /\ UNCHANGED <<mm, layout, granted>>
    BY <1>2 DEF Mmap
  <2>2. BrkTypeOK' /\ BrkBounds'
    BY <1>0, <2>1 DEF BrkTypeOK, BrkBounds, VM
  <2>3. \A q \in Page : vm[q] \in {"image", "heap"} => vm'[q] = vm[q]
    BY <1>0, <2>1 DEF BrkTypeOK, VM
  <2> QED
    BY <2>1, <2>2, <2>3 DEF BssInv, BssKept, PagesIn
<1>3. CASE UNCHANGED brkVars
  BY <1>3 DEF brkVars, BssInv, BrkTypeOK, BrkBounds, BssKept
<1> QED
  BY <1>1, <1>2, <1>3 DEF BrkNext

-----------------------------------------------------------------------------
(* What the loaders and init_brk leave: either the bss mapping of a COFF   *)
(* program, which is the heap from then on, or one fresh page after it.    *)
BssIsHeap(l, m, v) ==
    /\ m.addr = PAGE_ALIGN(l.bss) /\ m.max = PAGE_ALIGN(l.end) /\ m.min = l.end
    /\ PAGE_ALIGN(l.bss) < l.end /\ l.library = {} /\ l.format = "coff"
    /\ \A p \in Page : v[p] = IF p \in PagesIn(PAGE_ALIGN(l.bss), l.end)
                              THEN "heap" ELSE Image(l, p)
FreshPage(l, m, v) ==
    LET new == PAGE_ALIGN(l.end) IN
    /\ m.addr = new /\ m.max = new + PAGE_SIZE /\ m.min = new
    /\ \A p \in Page :
          v[p] = IF p = PageOf(new) THEN "heap"
                 ELSE IF l.format = "coff" /\ p \in PagesIn(PAGE_ALIGN(l.bss), l.end)
                 THEN "heap" ELSE Image(l, p)

(* The numbers of a layout.                                                *)
LEMMA LayoutNumbers ==
    ASSUME NEW l \in Layouts
    PROVE  /\ l.bss \in Nat /\ l.end \in Nat /\ l.bss < l.end
           /\ l.format \in {"coff", "elf"} /\ l.library \subseteq Page
           /\ PAGE_SIZE \in Nat \ {0} /\ Pages * PAGE_SIZE \in Nat
           /\ l.end <= Pages * PAGE_SIZE
<1>1. PAGE_SIZE \in Nat \ {0} /\ Pages * PAGE_SIZE \in Nat
  BY PageAssumption, SMT
<1>2. l.bss \in Address /\ l.end \in Address /\ l.bss < l.end
      /\ l.format \in {"coff", "elf"} /\ l.library \subseteq Page
  BY LayoutAssumption
<1> QED
  BY <1>1, <1>2 DEF Address

(* ELF's set_brk runs before there is a heap, so mremap() has no mapping   *)
(* to resize and changes nothing.                                          *)
LEMMA LoadElfOutcome ==
    ASSUME NEW l \in Layouts
    PROVE  /\ LoadElf(l).vm = [p \in Page |-> Image(l, p)]
           /\ LoadElf(l).mm \in MM /\ LoadElf(l).mm.brk = PAGE_ALIGN(l.end)
           /\ LoadElf(l).bssTop = FALSE
<1> DEFINE start == PAGE_ALIGN(l.bss)
           end == PAGE_ALIGN(l.end)
           file == [p \in Page |-> Image(l, p)]
           done == IF end > start THEN DoBrk(NoBounds, file, start, end - start)
                   ELSE [mm |-> NoBounds, vm |-> file]
<1>1. start \in Nat /\ end \in Nat /\ PAGE_ALIGN(end) = end
  BY LayoutNumbers, Aligned
<1>2. LoadElf(l) = [mm |-> [done.mm EXCEPT !.brk = end, !.start_brk = end],
                    vm |-> done.vm, bssTop |-> FALSE]
  BY DEF LoadElf
<1>3. done.vm = file /\ done.mm \in MM
  <2>1. CASE end > start
    <3>1. start + (end - start) = end /\ end # 0 /\ ~(end < 0) /\ ~(end <= 0)
      BY <1>1, <2>1
    <3>2. Mremap(file, 0, 0, end) = file
      BY <1>1, <3>1 DEF Mremap
    <3>3. DoBrk(NoBounds, file, start, end - start) =
            [mm |-> [NoBounds EXCEPT !.max = end], vm |-> file]
      BY <1>1, <3>1, <3>2 DEF DoBrk, NoBounds
    <3> QED
      BY <1>1, <2>1, <3>3 DEF NoBounds, MM
  <2>2. CASE ~(end > start)
    BY <2>2 DEF NoBounds, MM
  <2> QED
    BY <2>1, <2>2
<1> HIDE DEF done, end, start
<1>4. /\ [done.mm EXCEPT !.brk = end, !.start_brk = end] \in MM
      /\ [done.mm EXCEPT !.brk = end, !.start_brk = end].brk = end
  BY <1>1, <1>3 DEF MM
<1>5. /\ LoadElf(l).vm = file /\ LoadElf(l).bssTop = FALSE
      /\ LoadElf(l).mm = [done.mm EXCEPT !.brk = end, !.start_brk = end]
  BY <1>2, <1>3
<1> QED
  BY <1>4, <1>5 DEF end

(* A program as it is started.                                             *)
LEMMA BrkInitOutcome ==
    ASSUME BrkInit
    PROVE  /\ layout \in Layouts /\ granted = layout.end
           /\ mm \in MM /\ vm \in VM /\ mm.brk \in {layout.end, PAGE_ALIGN(layout.end)}
           /\ BssIsHeap(layout, mm, vm) \/ FreshPage(layout, mm, vm)
<1> DEFINE l == layout
           A == PAGE_ALIGN(l.end)
           B == PAGE_ALIGN(l.bss)
<1>1. l \in Layouts /\ granted = l.end
  BY DEF BrkInit
<1>2. /\ l.end \in Nat /\ A \in Nat /\ B \in Nat /\ PAGE_ALIGN(A) = A
      /\ PAGE_SIZE \in Nat /\ l.bss \in Nat
  BY <1>1, LayoutNumbers, Aligned
<1>3. \A p \in Page : Image(l, p) \in {"image", "free"}
  BY DEF Image
<1>4. CASE l.format = "elf"
  <2> DEFINE v == LoadElf(l).vm
             m == LoadElf(l).mm
  <2>0. LoadElf(l).bssTop = FALSE
    BY <1>1, LoadElfOutcome
  <2>1. mm = InitBrk(l, m, v, FALSE).mm /\ vm = InitBrk(l, m, v, FALSE).vm
    BY <1>4, <2>0 DEF BrkInit
  <2>2. m \in MM /\ m.brk = A /\ v = [p \in Page |-> Image(l, p)]
    BY <1>1, LoadElfOutcome
  <2> HIDE DEF v, m
  <2>3. /\ mm = [m EXCEPT !.addr = A, !.max = A + PAGE_SIZE, !.min = A]
        /\ vm = [v EXCEPT ![PageOf(A)] = "heap"]
    BY <1>2, <2>1, <2>2 DEF InitBrk
  <2>4. mm \in MM /\ mm.addr = A /\ mm.max = A + PAGE_SIZE /\ mm.min = A /\ mm.brk = A
    <3> HIDE DEF A
    <3>1. A + PAGE_SIZE \in Nat
      BY <1>2
    <3> QED
      BY <1>2, <2>2, <2>3, <3>1 DEF MM
  <2>5. vm \in VM
    BY <1>3, <2>2, <2>3 DEF VM
  <2>6. FreshPage(l, mm, vm)
    BY <1>4, <2>2, <2>3, <2>4 DEF FreshPage
  <2> QED
    BY <1>1, <2>4, <2>5, <2>6
<1>5. CASE l.format = "coff"
  <2> DEFINE v == [p \in Page |-> IF p \in PagesIn(B, l.end) THEN "heap" ELSE Image(l, p)]
             m == [NoBounds EXCEPT !.brk = l.end, !.start_brk = l.bss]
             top == B < l.end /\ l.library = {}
  <2>1. mm = InitBrk(l, m, v, top).mm /\ vm = InitBrk(l, m, v, top).vm
    BY <1>5 DEF BrkInit, LoadCoff
  <2>2. m \in MM /\ m.brk = l.end
    BY <1>2 DEF MM, NoBounds
  <2>3. v \in VM
    BY <1>3 DEF VM
  <2>4. CASE top
    <3>1. /\ mm = [m EXCEPT !.addr = B, !.min = l.end, !.max = A] /\ vm = v
      BY <2>1, <2>2, <2>4 DEF InitBrk
    <3>2. mm \in MM /\ mm.addr = B /\ mm.max = A /\ mm.min = l.end /\ mm.brk = l.end
      BY <1>2, <2>2, <3>1 DEF MM
    <3>3. BssIsHeap(l, mm, vm)
      BY <1>5, <2>4, <3>1, <3>2 DEF BssIsHeap
    <3> QED
      BY <1>1, <2>3, <3>1, <3>2, <3>3
  <2>5. CASE ~top
    <3> HIDE DEF m, v, top
    <3>1. /\ mm = [m EXCEPT !.addr = A, !.max = A + PAGE_SIZE, !.min = A]
          /\ vm = [v EXCEPT ![PageOf(A)] = "heap"]
      BY <2>1, <2>2, <2>5 DEF InitBrk
    <3>2. /\ mm \in MM /\ mm.addr = A /\ mm.max = A + PAGE_SIZE
          /\ mm.min = A /\ mm.brk = l.end
      <4> HIDE DEF A
      <4>1. A + PAGE_SIZE \in Nat
        BY <1>2
      <4> QED
        BY <1>2, <2>2, <3>1, <4>1 DEF MM
    <3>3. vm \in VM
      BY <2>3, <3>1 DEF VM
    <3>4. FreshPage(l, mm, vm)
      BY <1>5, <3>1, <3>2 DEF FreshPage, v
    <3> QED
      BY <1>1, <3>2, <3>3, <3>4
  <2> QED
    BY <2>4, <2>5
<1> QED
  BY <1>1, <1>4, <1>5, LayoutNumbers

(* The invariants of the break hold when the program is started.           *)
LEMMA BrkInitBss == BrkInit => BssInv
<1> SUFFICES ASSUME BrkInit PROVE BssInv
  OBVIOUS
<1> DEFINE A == PAGE_ALIGN(layout.end)
           B == PAGE_ALIGN(layout.bss)
<1>1. /\ layout \in Layouts /\ granted = layout.end
      /\ mm \in MM /\ vm \in VM /\ mm.brk \in {layout.end, A}
      /\ BssIsHeap(layout, mm, vm) \/ FreshPage(layout, mm, vm)
  BY BrkInitOutcome
<1>2. /\ layout.end \in Nat /\ layout.bss \in Nat /\ layout.bss < layout.end
      /\ PAGE_SIZE \in Nat \ {0} /\ layout.format \in {"coff", "elf"}
  BY <1>1, LayoutNumbers
<1>3. /\ A \in Nat /\ B \in Nat /\ layout.end <= A /\ OnPage(A) /\ OnPage(B)
  BY <1>2, Aligned DEF OnPage
<1>4. OnPage(A + PAGE_SIZE)
  BY <1>2, <1>3, PageBounds
<1>5. BrkTypeOK
  BY <1>1, <1>2 DEF BrkTypeOK
<1>6. ASSUME NEW p \in Page, p \in PagesIn(0, layout.end), layout.format = "coff"
      PROVE  p \in PagesIn(B, layout.end) \/ Image(layout, p) = "image"
  <2>1. PageOf(B) \in Nat /\ p \in Nat /\ p * PAGE_SIZE < layout.end
    BY <1>2, <1>3, <1>6, Aligned, PageAssumption DEF PagesIn, Page
  <2>2. PageOf(B) <= p \/ p < PageOf(B)
    BY <2>1
  <2> QED
    BY <2>1, <2>2, <1>6 DEF PagesIn, Image
<1>7. PagesIn(0, layout.end) \subseteq Page
  BY DEF PagesIn
<1> HIDE DEF A, B
<1>8. CASE BssIsHeap(layout, mm, vm)
  <2>1. BrkBounds
    BY <1>1, <1>2, <1>3, <1>8 DEF BrkBounds, BssIsHeap, A, B
  <2>2. BssKept
    BY <1>6, <1>7, <1>8 DEF BssKept, BssIsHeap, B
  <2> QED
    BY <1>5, <2>1, <2>2 DEF BssInv
<1>9. CASE FreshPage(layout, mm, vm)
  <2>0. mm.addr = A /\ mm.max = A + PAGE_SIZE /\ mm.min = A
    BY <1>9 DEF FreshPage, A
  <2>1. BrkBounds
    BY <1>1, <1>2, <1>3, <1>4, <2>0 DEF BrkBounds, A
  <2>2. BssKept
    BY <1>6, <1>7, <1>9 DEF BssKept, FreshPage, B
  <2> QED
    BY <1>5, <2>1, <2>2 DEF BssInv
<1> QED
  BY <1>1, <1>8, <1>9

(* No sequence of breaks, granted or refused, and no other mapping, takes  *)
(* a page of a COFF program's data or bss from it (abi_brk, linux26_brk,   *)
(* do_brk), whatever the page size, the layout and the breaks asked for.   *)
THEOREM BssStays == BrkSpec => []BssKept
<1>1. BssInv => BssKept
  BY DEF BssInv
<1> QED
  BY <1>1, BrkInitBss, BrkNextBss, PTL DEF BrkSpec

-----------------------------------------------------------------------------
(* Nothing else is mapped, or will be, in the pages a break can reach: no  *)
(* shared library and none of the program's own mappings.                  *)
Reached(l, p) ==
    \E b \in Breaks \cup {l.end} : p * PAGE_SIZE < PAGE_ALIGN(b) + PAGE_SIZE
RoomToGrow ==
    \A l \in Layouts : \A p \in l.library \cup Obstacles : ~Reached(l, p)

(* What the emulator believes of the heap is what the kernel has: its      *)
(* pages are mapped, and the ones it could grow into are free.             *)
HeapPages ==
    \A p \in Page :
       /\ mm.addr <= p * PAGE_SIZE /\ p * PAGE_SIZE < mm.max => vm[p] = "heap"
       /\ mm.max <= p * PAGE_SIZE /\ Reached(layout, p) => vm[p] = "free"
HeapInv == BssInv /\ HeapPages

(* Memory below the break is there in every state of the invariant.        *)
LEMMA HeapInvMapped == HeapInv => HeapMapped
<1> SUFFICES ASSUME HeapInv, NEW p \in PagesIn(PAGE_ALIGN(layout.end), granted)
             PROVE  vm[p] = "heap"
  BY DEF HeapMapped
<1> DEFINE A == PAGE_ALIGN(layout.end)
<1>1. p \in Page /\ p \in Nat /\ p * PAGE_SIZE < granted /\ PageOf(A) <= p
  BY PageAssumption DEF PagesIn, Page
<1>2. layout.end \in Nat /\ PAGE_SIZE \in Nat
  BY LayoutNumbers DEF HeapInv, BssInv, BrkTypeOK
<1>3. A \in Nat /\ OnPage(A)
  BY <1>2, Aligned DEF OnPage
<1> HIDE DEF A
<1>4. A <= p * PAGE_SIZE /\ p * PAGE_SIZE \in Nat
  BY <1>1, <1>3, PageBounds
<1>5. /\ mm.addr <= A /\ granted <= mm.max
      /\ mm.addr \in Nat /\ mm.max \in Nat /\ granted \in Nat
  BY DEF HeapInv, BssInv, BrkTypeOK, BrkBounds, MM, A
<1>6. mm.addr <= p * PAGE_SIZE /\ p * PAGE_SIZE < mm.max
  <2>1. PICK a \in Nat, x \in Nat : a = p * PAGE_SIZE /\ x = A
    BY <1>3, <1>4
  <2> QED
    BY <1>1, <1>4, <1>5, <2>1
<1> QED
  BY <1>1, <1>6 DEF HeapInv, HeapPages

(* The heap of a program that has room is as the emulator believes.        *)
LEMMA HeapInit == ASSUME RoomToGrow PROVE BrkInit => HeapInv
<1> SUFFICES ASSUME BrkInit PROVE HeapInv
  OBVIOUS
<1> DEFINE A == PAGE_ALIGN(layout.end)
           B == PAGE_ALIGN(layout.bss)
<1>1. BssInv
  BY BrkInitBss
<1>2. /\ layout \in Layouts
      /\ BssIsHeap(layout, mm, vm) \/ FreshPage(layout, mm, vm)
  BY BrkInitOutcome
<1>3. /\ layout.end \in Nat /\ layout.bss \in Nat /\ layout.bss < layout.end
      /\ PAGE_SIZE \in Nat \ {0}
  BY <1>2, LayoutNumbers
<1>4. /\ A \in Nat /\ B \in Nat /\ layout.end <= A /\ layout.bss <= A
      /\ OnPage(A) /\ OnPage(B)
  BY <1>3, Aligned DEF OnPage
<1>5. B <= A
  BY <1>3, <1>4, PageBounds
<1> SUFFICES ASSUME NEW p \in Page
             PROVE  /\ mm.addr <= p * PAGE_SIZE /\ p * PAGE_SIZE < mm.max => vm[p] = "heap"
                    /\ mm.max <= p * PAGE_SIZE /\ Reached(layout, p) => vm[p] = "free"
  BY <1>1 DEF HeapInv, HeapPages
<1>6. p \in Nat /\ p * PAGE_SIZE \in Nat
  BY <1>3, PageAssumption, SMT DEF Page
<1>7. Reached(layout, p) => p \notin layout.library
  BY <1>2 DEF RoomToGrow
<1>8. /\ p * PAGE_SIZE < A <=> p * PAGE_SIZE < layout.end
      /\ PageOf(A) <= p <=> A <= p * PAGE_SIZE
      /\ PageOf(B) <= p <=> B <= p * PAGE_SIZE
      /\ A <= p * PAGE_SIZE /\ p * PAGE_SIZE < A + PAGE_SIZE => p = PageOf(A)
  BY <1>3, <1>4, <1>6, PageBounds
<1>9. PageOf(B) \in Nat /\ PageOf(A) \in Nat /\ PageOf(B) * PAGE_SIZE = B
  BY <1>4, Aligned DEF OnPage
<1>10. p \in PagesIn(B, layout.end) <=> B <= p * PAGE_SIZE /\ p * PAGE_SIZE < A
  BY <1>8 DEF PagesIn
<1>11. B <= p * PAGE_SIZE /\ p \notin layout.library => Image(layout, p) = "free"
  BY <1>6, <1>8, <1>9 DEF Image
<1> HIDE DEF A, B
<1>12. CASE BssIsHeap(layout, mm, vm)
  <2>1. /\ mm.addr = B /\ mm.max = A /\ layout.library = {}
        /\ vm[p] = IF p \in PagesIn(B, layout.end) THEN "heap" ELSE Image(layout, p)
    BY <1>12 DEF BssIsHeap, A, B
  <2> QED
    BY <1>4, <1>5, <1>6, <1>10, <1>11, <2>1
<1>13. CASE FreshPage(layout, mm, vm)
  <2>1. /\ mm.addr = A /\ mm.max = A + PAGE_SIZE
        /\ vm[p] = IF p = PageOf(A) THEN "heap"
                   ELSE IF layout.format = "coff" /\ p \in PagesIn(B, layout.end)
                   THEN "heap" ELSE Image(layout, p)
    BY <1>13 DEF FreshPage, A, B
  <2>2. PageOf(A) * PAGE_SIZE = A
    BY <1>4 DEF OnPage
  <2> QED
    BY <1>3, <1>4, <1>5, <1>6, <1>7, <1>8, <1>10, <1>11, <2>1, <2>2
<1> QED
  BY <1>2, <1>12, <1>13

(* abi_brk keeps the heap as the emulator believes it: what it gives back  *)
(* is free again, and what it asks for it gets.                            *)
LEMMA HeapBrk ==
    ASSUME HeapInv, RoomToGrow, NEW b \in Breaks, AbiBrk(b)
    PROVE  HeapPages'
<1>0. BrkTypeOK /\ BrkBounds /\ HeapPages /\ layout \in Layouts
  BY DEF HeapInv, BssInv, BrkTypeOK
<1>1. /\ PAGE_SIZE \in Nat \ {0} /\ Pages \in Nat /\ Pages * PAGE_SIZE \in Nat
      /\ b \in Nat /\ b <= Pages * PAGE_SIZE
  <2>1. b \in Address
    BY BreaksAssumption
  <2> QED
    BY <1>0, <2>1, LayoutNumbers, PageAssumption DEF Address
<1>2. /\ layout' = layout /\ mm' \in MM /\ mm'.addr = mm.addr
      /\ \/ vm' = vm /\ mm'.max = mm.max
         \/ /\ vm' = Mremap(vm, mm.addr, mm.max, mm'.max) /\ OnPage(mm'.max)
            /\ mm.min < mm'.max /\ (mm'.max > mm.max => mm'.max = PAGE_ALIGN(b))
  BY <1>0, <1>1, AbiBrkOutcomes
<1>3. CASE vm' = vm /\ mm'.max = mm.max
  BY <1>0, <1>2, <1>3 DEF HeapPages, Reached
<1>4. CASE /\ vm' = Mremap(vm, mm.addr, mm.max, mm'.max) /\ OnPage(mm'.max)
           /\ mm.min < mm'.max /\ (mm'.max > mm.max => mm'.max = PAGE_ALIGN(b))
  <2>1. PICK addr \in Nat, old \in Nat, new \in Nat :
            addr = mm.addr /\ old = mm.max /\ new = mm'.max
    BY <1>0, <1>2 DEF BrkTypeOK, MM
  <2>2. /\ vm \in VM /\ OnPage(addr) /\ OnPage(old) /\ OnPage(new) /\ addr < old
        /\ vm' = Mremap(vm, addr, old, new) /\ (new > old => new = PAGE_ALIGN(b))
    BY <1>0, <1>4, <2>1 DEF BrkTypeOK, BrkBounds
  <2>3. Remapped(vm, vm', old, new)
    BY <2>2, MremapPages
  <2>4. \A p \in Page : p * PAGE_SIZE \in Nat
    BY <1>1, PageAssumption, SMT DEF Page
  <2>5. \A p \in Page :
           /\ addr <= p * PAGE_SIZE /\ p * PAGE_SIZE < old => vm[p] = "heap"
           /\ old <= p * PAGE_SIZE /\ Reached(layout, p) => vm[p] = "free"
    BY <1>0, <2>1 DEF HeapPages
  <2> SUFFICES ASSUME NEW p \in Page
               PROVE  /\ addr <= p * PAGE_SIZE /\ p * PAGE_SIZE < new => vm'[p] = "heap"
                      /\ new <= p * PAGE_SIZE /\ Reached(layout, p) => vm'[p] = "free"
    BY <1>2, <2>1 DEF HeapPages, Reached
  <2>6. CASE new <= old
    <3>1. vm'[p] = IF new <= p * PAGE_SIZE /\ p * PAGE_SIZE < old THEN "free" ELSE vm[p]
      BY <2>3, <2>6 DEF Remapped
    <3> HIDE DEF Reached
    <3> QED
      BY <2>4, <2>5, <2>6, <3>1
  <2>7. CASE new > old
    <3>1. new = PAGE_ALIGN(b) /\ new <= Pages * PAGE_SIZE
      <4>1. OnPage(Pages * PAGE_SIZE)
        <5>1. (Pages * PAGE_SIZE) \div PAGE_SIZE = Pages
          BY <1>1, SMT
        <5> QED
          BY <5>1 DEF OnPage, PageOf
      <4>2. PAGE_ALIGN(b) <= Pages * PAGE_SIZE
        BY <1>1, <4>1, PageBounds
      <4> QED
        BY <2>2, <2>7, <4>2
    <3>2. ASSUME NEW q \in Page, q * PAGE_SIZE < new PROVE Reached(layout, q)
      <4>1. q * PAGE_SIZE \in Nat /\ PAGE_SIZE \in Nat
        BY <1>1, <2>4
      <4>2. q * PAGE_SIZE < new + PAGE_SIZE
        BY <3>2, <4>1
      <4> QED
        BY <3>1, <4>2 DEF Reached
    <3>3. Extendable(vm, addr, old, new)
      BY <2>5, <3>2 DEF Extendable
    <3>4. Grown(vm, vm', old, new)
      BY <2>2, <2>7, <3>1, <3>3, MremapGrows
    <3>5. vm'[p] = IF old <= p * PAGE_SIZE /\ p * PAGE_SIZE < new THEN "heap" ELSE vm[p]
      BY <3>4 DEF Grown
    <3> QED
      BY <2>4, <2>5, <2>7, <3>5
  <2> QED
    BY <2>6, <2>7
<1> QED
  BY <1>2, <1>3, <1>4

(* Every step keeps it so.                                                 *)
LEMMA HeapNext == ASSUME RoomToGrow PROVE HeapInv /\ [BrkNext]_brkVars => HeapInv'
<1> SUFFICES ASSUME HeapInv, [BrkNext]_brkVars PROVE HeapInv'
  OBVIOUS
<1>1. BssInv'
  BY BrkNextBss DEF HeapInv
<1>2. ASSUME NEW b \in Breaks, AbiBrk(b) PROVE HeapPages'
  BY <1>2, HeapBrk
<1>3. ASSUME NEW q \in Obstacles, Mmap(q) PROVE HeapPages'
  <2>1. vm[q] = "free" /\ vm' = [vm EXCEPT ![q] = "other"]
        /\ mm' = mm /\ layout' = layout
    BY <1>3 DEF Mmap
  <2>2. ~Reached(layout, q) /\ vm \in VM
    BY DEF RoomToGrow, HeapInv, BssInv, BrkTypeOK
  <2>3. \A p \in Page : p # q => vm'[p] = vm[p]
    BY <2>1, <2>2 DEF VM
  <2> QED
    BY <2>1, <2>2, <2>3 DEF HeapInv, HeapPages, Reached
<1>4. CASE UNCHANGED brkVars
  BY <1>1, <1>4 DEF brkVars, HeapInv, HeapPages, Reached
<1> QED
  BY <1>1, <1>2, <1>3, <1>4 DEF BrkNext, HeapInv

(* Memory below a break abi_brk agreed to is mapped, as long as nothing    *)
(* else is mapped within reach of the breaks.  Without that hypothesis     *)
(* do_brk misses mremap()'s refusal and the statement is false.            *)
THEOREM HeapIsThere == ASSUME RoomToGrow PROVE BrkSpec => []HeapMapped
<1>1. BrkInit => HeapInv
  BY HeapInit
<1>2. HeapInv /\ [BrkNext]_brkVars => HeapInv'
  BY HeapNext
<1> QED
  BY <1>1, <1>2, HeapInvMapped, PTL DEF BrkSpec

-----------------------------------------------------------------------------
(* The allocator.  Its variables have their types.                         *)
Header == [next : Addr, busy : BOOLEAN]
Call == [wanted : Nat, p : Addr \cup {NULL},
         at : {"idle", "look", "test", "grow"}, freed : BOOLEAN]
MallocTypeOK ==
    /\ hdr \in [Addr -> Header] /\ live \in [Addr -> Nat]
    /\ brk \in Addr /\ call \in Call
    /\ first \in Addr \cup {NULL} /\ last \in Addr \cup {NULL}
    /\ cursor \in Addr \cup {NULL}
    /\ state \in {"running", "fatal", "fault"}

(* The headers of the list are the set H: each but the end marker points   *)
(* to the next higher one, and the end marker back to the first.           *)
Ring(H) ==
    /\ H \subseteq Addr /\ first \in H /\ last \in H
    /\ \A a \in H : first <= a /\ a <= last
    /\ \A a \in H : a # last =>
          /\ hdr[a].next \in H /\ a < hdr[a].next
          /\ \A b \in H : b <= a \/ hdr[a].next <= b
    /\ hdr[last] = [next |-> first, busy |-> TRUE]
    /\ last + 1 = brk

(* Exactly the busy blocks below the end marker have owners.               *)
Owned(H) ==
    /\ \A a \in Addr : live[a] > 0 =>
          a \in H /\ a # last /\ hdr[a].busy = TRUE /\ hdr[a].next = a + live[a]
    /\ \A a \in H : hdr[a].busy = TRUE /\ a # last => live[a] > 0

(* A block the search passes over, and those it has passed: the ones from  *)
(* where it began, ibcs_malloc_p, round to where it is, and all of them    *)
(* when it has come back there.                                            *)
TooSmall(a) ==
    hdr[a].busy = FALSE =>
        hdr[a].next - a < call.wanted /\ hdr[hdr[a].next].busy = TRUE
Passed(H, to) ==
    {a \in H : IF cursor <= to THEN cursor <= a /\ a < to
               ELSE cursor <= a \/ a < to}
Seen(H) == IF call.at = "test" /\ call.p = cursor THEN H ELSE Passed(H, call.p)

(* The call in progress.  The block the search began at may be merged away *)
(* while it runs; then it cannot end without a fit.  A free in the middle  *)
(* of it moves the end, and what it has seen says no more about the list.  *)
AtRest(H) == call = Idle /\ cursor \in H
Searching(H) ==
    /\ call.at \in {"look", "test"} /\ call.p \in H /\ call.wanted > 0
    /\ cursor \in Addr
    /\ cursor \in H /\ call.freed = FALSE => \A a \in Seen(H) : TooSmall(a)
Growing(H) ==
    /\ call.at = "grow" /\ call.p = last /\ call.wanted > 0 /\ cursor \in H
    /\ call.freed = FALSE => \A a \in H : TooSmall(a)
Heap(H) ==
    /\ brk > 0 /\ Ring(H) /\ Owned(H)
    /\ AtRest(H) \/ Searching(H) \/ Growing(H)

(* Before the first call, and during it, there is no list.                 *)
NoBlocks == brk = 0 /\ \A a \in Addr : live[a] = 0
Unused == NoBlocks /\ cursor = NULL /\ call = Idle
FirstCall ==
    /\ NoBlocks /\ first = 0 /\ last = 0 /\ cursor = 0
    /\ call.at = "grow" /\ call.p = 0 /\ call.wanted > 0

MallocInv == MallocTypeOK /\ (Unused \/ FirstCall \/ \E H \in SUBSET Addr : Heap(H))

(* ibcs_malloc always wants at least a header.                             *)
LEMMA UnitsPositive == ASSUME NEW n \in Nat PROVE Units(n) \in Nat /\ Units(n) > 0
<1>1. HdrSize \in Nat /\ HdrSize > 0
  BY HdrSizeAssumption
<1>2. n + HdrSize - 1 \in Nat
  BY <1>1
<1>3. (n + HdrSize - 1) \div HdrSize \in Nat
  BY <1>1, <1>2, SMT
<1> QED
  BY <1>3 DEF Units

(* The blocks of the list have two distinct neighbours, in order.          *)
LEMMA RingOrder ==
    ASSUME NEW H, Ring(H), MallocTypeOK, NEW a \in H, a # last
    PROVE  /\ a \in Nat /\ hdr[a].next \in H /\ hdr[a].next \in Nat
           /\ a < hdr[a].next /\ hdr[a].next <= BrkLimit
           /\ \A b \in H : b \in Nat /\ (b <= a \/ hdr[a].next <= b)
           /\ \A b \in H : b # last /\ hdr[b].next = hdr[a].next => b = a
<1>1. \A b \in H : b \in Nat /\ b <= BrkLimit
  BY BrkLimitAssumption DEF Ring, Addr
<1>2. /\ hdr[a].next \in H /\ a < hdr[a].next
      /\ \A b \in H : b <= a \/ hdr[a].next <= b
  BY DEF Ring
<1>3. ASSUME NEW b \in H, b # last, hdr[b].next = hdr[a].next PROVE b = a
  <2>1. b < hdr[b].next /\ (a <= b \/ hdr[b].next <= a)
    BY <1>3 DEF Ring
  <2> QED
    BY <1>1, <1>2, <1>3, <2>1
<1> QED
  BY <1>1, <1>2, <1>3

(* The first step of a call: its search starts at a block of the list with *)
(* nothing passed.                                                         *)
LEMMA MallocStep ==
    ASSUME MallocTypeOK, NEW H \in SUBSET Addr, Heap(H), NEW n \in Sizes, Malloc(n)
    PROVE  MallocTypeOK' /\ Heap(H)'
<1>1. Units(n) \in Nat /\ Units(n) > 0
  BY SizesAssumption, UnitsPositive
<1>2. /\ call' = [wanted |-> Units(n), p |-> cursor, at |-> "look", freed |-> FALSE]
      /\ call = Idle /\ UNCHANGED <<hdr, brk, first, last, cursor, live, state>>
  BY DEF Malloc
<1>3. cursor \in H
  BY <1>2 DEF Heap, AtRest, Searching, Growing, Idle
<1>4. MallocTypeOK'
  BY <1>1, <1>2 DEF MallocTypeOK, Call
<1>5. cursor \in Nat /\ \A a \in H : a \in Nat
  BY <1>3, BrkLimitAssumption DEF Addr
<1>6. Passed(H, cursor) = {}
  BY <1>5 DEF Passed
<1>7. Searching(H)'
  <2>1. Seen(H)' = Passed(H, cursor)
    BY <1>2 DEF Passed, Seen
  <2> QED
    BY <1>1, <1>2, <1>3, <1>6, <2>1 DEF Searching
<1>8. Ring(H)' /\ Owned(H)' /\ brk' > 0
  BY <1>2 DEF Heap, Ring, Owned
<1> QED
  BY <1>4, <1>7, <1>8 DEF Heap

(* The search moves over a block that is of no use: it has seen one block  *)
(* more, or, back where it began, every block.                             *)
LEMMA AdvanceStep ==
    ASSUME MallocTypeOK, NEW H \in SUBSET Addr, Heap(H), Searching(H), Looking,
           TooSmall(call.p), Advance,
           UNCHANGED <<hdr, brk, first, last, cursor, live, state>>
    PROVE  MallocTypeOK' /\ Heap(H)'
<1> DEFINE p == call.p
           n == hdr[call.p].next
<1>1. /\ Ring(H) /\ p \in H /\ call.wanted > 0 /\ call \in Call
      /\ cursor \in Addr /\ call.at = "look"
  BY DEF Heap, Searching, MallocTypeOK, Looking
<1>2. /\ \A a \in H : a \in Nat /\ a <= BrkLimit
      /\ first \in H /\ last \in H /\ \A a \in H : first <= a /\ a <= last
  <2>1. \A a \in H : a \in Nat /\ a <= BrkLimit
    BY BrkLimitAssumption DEF Addr
  <2> QED
    BY <1>1, <2>1 DEF Ring
<1>3. p = last => n = first
  BY <1>1 DEF Ring
<1>4. p # last => /\ n \in H /\ p < n
                  /\ \A b \in H : b <= p \/ n <= b
  BY <1>1 DEF Ring
<1>5. n \in H
  BY <1>2, <1>3, <1>4
<1>6. Ring(H)' /\ Owned(H)' /\ brk' > 0
  BY DEF Heap, Ring, Owned
<1>7. /\ call' \in Call /\ call'.p = n /\ call'.wanted = call.wanted
      /\ call'.at = "test" /\ call'.freed = call.freed
  BY <1>1, <1>5 DEF Advance, Call
<1>8. ASSUME n # cursor, cursor \in H, NEW a \in Passed(H, n)
      PROVE  a \in Passed(H, p) \/ a = p
  <2>1. a \in H /\ IF cursor <= n THEN cursor <= a /\ a < n ELSE cursor <= a \/ a < n
    BY <1>8 DEF Passed
  <2>2. CASE p = last
    BY <1>2, <1>3, <1>8, <2>1, <2>2 DEF Passed
  <2>3. CASE p # last
    BY <1>1, <1>2, <1>4, <1>8, <2>1, <2>3 DEF Passed
  <2> QED
    BY <2>2, <2>3
<1>9. ASSUME n = cursor, NEW a \in H PROVE a \in Passed(H, p) \/ a = p
  <2>1. CASE p = last
    BY <1>2, <1>3, <1>9, <2>1 DEF Passed
  <2>2. CASE p # last
    BY <1>1, <1>2, <1>4, <1>9, <2>2 DEF Passed
  <2> QED
    BY <2>1, <2>2
<1>10. ASSUME cursor \in H, call.freed = FALSE, NEW a \in Seen(H)' PROVE TooSmall(a)'
  <2>1. Seen(H)' = IF n = cursor THEN H ELSE Passed(H, n)
    BY <1>7 DEF Seen, Passed
  <2>2. a \in Passed(H, p) \/ a = p
    BY <1>8, <1>9, <1>10, <2>1
  <2>3. TooSmall(a)
    BY <1>1, <1>10, <2>2 DEF Searching, Seen
  <2> QED
    BY <1>7, <2>3 DEF TooSmall
<1>11. Searching(H)'
  BY <1>1, <1>5, <1>7, <1>10 DEF Searching
<1> QED
  BY <1>6, <1>7, <1>11 DEF Heap, MallocTypeOK

(* The search goes on, or is back where it began and has seen every block. *)
LEMMA TestStep ==
    ASSUME MallocTypeOK, NEW H \in SUBSET Addr, Heap(H), Searching(H), ScanTest
    PROVE  MallocTypeOK' /\ Heap(H)'
<1>1. /\ Ring(H) /\ call.p \in H /\ call.wanted > 0 /\ call \in Call
      /\ cursor \in Addr /\ call.at = "test" /\ last \in H /\ H \subseteq Addr
      /\ UNCHANGED <<hdr, brk, first, last, cursor, live, state>>
  BY DEF Heap, Searching, MallocTypeOK, ScanTest, Ring
<1>2. Ring(H)' /\ Owned(H)' /\ brk' > 0 /\ last + 1 = brk
  BY <1>1 DEF Heap, Ring, Owned
<1>3. CASE call.p # cursor
  <2>1. call' = [call EXCEPT !.at = "look"]
    BY <1>3 DEF ScanTest
  <2>2. /\ call' \in Call /\ call'.p = call.p /\ call'.wanted = call.wanted
        /\ call'.at = "look" /\ call'.freed = call.freed
    BY <1>1, <2>1 DEF Call
  <2>3. Seen(H)' = Seen(H)
    BY <1>1, <1>3, <2>2 DEF Seen, Passed
  <2>4. ASSUME NEW a, TooSmall(a) PROVE TooSmall(a)'
    BY <1>1, <2>2, <2>4 DEF TooSmall
  <2>5. Searching(H)'
    BY <1>1, <2>2, <2>3, <2>4 DEF Searching
  <2> QED
    BY <1>1, <1>2, <2>2, <2>5 DEF Heap, MallocTypeOK
<1>4. CASE call.p = cursor
  <2>1. call' = [call EXCEPT !.at = "grow", !.p = last]
    BY <1>2, <1>4 DEF ScanTest
  <2>2. /\ call' \in Call /\ call'.p = last /\ call'.wanted = call.wanted
        /\ call'.at = "grow" /\ call'.freed = call.freed
    BY <1>1, <2>1 DEF Call
  <2>3. ASSUME call.freed = FALSE, NEW a \in H PROVE TooSmall(a)'
    <3>1. TooSmall(a)
      BY <1>1, <1>4, <2>3 DEF Searching, Seen
    <3> QED
      BY <1>1, <2>2, <3>1 DEF TooSmall
  <2>4. Growing(H)'
    BY <1>1, <1>4, <2>2, <2>3 DEF Growing
  <2> QED
    BY <1>1, <1>2, <2>2, <2>4 DEF Heap, MallocTypeOK
<1> QED
  BY <1>3, <1>4

(* Two free neighbours become one block: the second leaves the list.       *)
LEMMA CoalesceStep ==
    ASSUME MallocTypeOK, NEW H \in SUBSET Addr, Heap(H), Searching(H), Coalesce
    PROVE  MallocTypeOK' /\ \E K \in SUBSET Addr : Heap(K)'
<1>0. PICK p, q, r : p = call.p /\ q = hdr[p].next /\ r = hdr[q].next
  OBVIOUS
<1> DEFINE K == H \ {q}
<1>1. /\ Ring(H) /\ Owned(H) /\ p \in H /\ brk > 0
      /\ hdr \in [Addr -> Header] /\ live \in [Addr -> Nat]
  BY <1>0 DEF Heap, Searching, MallocTypeOK
<1>2. /\ hdr[p].busy = FALSE /\ hdr[q].busy = FALSE
      /\ hdr' = [hdr EXCEPT ![p].next = r]
      /\ UNCHANGED <<brk, first, last, cursor, call, live, state>>
  <2>1. p \in Addr /\ q \in Addr
    BY <1>0, <1>1 DEF Header
  <2> QED
    BY <1>0, <1>1, <2>1 DEF Coalesce, Free, Header
<1>3. /\ \A a \in H : a \in Nat /\ a <= BrkLimit /\ a \in Addr
      /\ first \in H /\ last \in H /\ \A a \in H : first <= a /\ a <= last
  BY <1>1, BrkLimitAssumption DEF Ring, Addr
<1>4. p # last
  BY <1>1, <1>2 DEF Ring
<1>5. q \in H /\ p < q /\ \A b \in H : b <= p \/ q <= b
  BY <1>0, <1>1, <1>4 DEF Ring
<1>6. q # last
  BY <1>1, <1>2 DEF Ring
<1>7. r \in H /\ q < r /\ \A b \in H : b <= q \/ r <= b
  BY <1>0, <1>1, <1>5, <1>6 DEF Ring
<1>8. /\ \A a \in Addr : a # p => hdr'[a] = hdr[a]
      /\ hdr'[p].next = r /\ hdr'[p].busy = FALSE /\ hdr' \in [Addr -> Header]
  BY <1>0, <1>1, <1>2, <1>3, <1>7 DEF Header
<1>9. ASSUME NEW a \in H, a # p, a # last PROVE hdr[a].next # q
  BY <1>1, <1>4, <1>9, RingOrder, <1>0
<1>10. Ring(K)'
  <2>1. /\ K \subseteq Addr /\ first \in K /\ last \in K /\ \A a \in K : a \in H /\ a # q
    BY <1>1, <1>3, <1>5, <1>6
  <2>2. hdr'[last] = [next |-> first, busy |-> TRUE] /\ last + 1 = brk
    BY <1>1, <1>3, <1>4, <1>8 DEF Ring
  <2>3. ASSUME NEW a \in K, a # last
        PROVE  /\ hdr'[a].next \in K /\ a < hdr'[a].next
               /\ \A b \in K : b <= a \/ hdr'[a].next <= b
    <3>1. CASE a = p
      BY <1>3, <1>5, <1>7, <1>8, <2>1, <3>1
    <3>2. CASE a # p
      <4>1. hdr'[a].next = hdr[a].next /\ a \in H
        BY <1>3, <1>8, <2>1, <3>2
      <4>2. /\ hdr[a].next \in H /\ a < hdr[a].next
            /\ \A b \in H : b <= a \/ hdr[a].next <= b
        BY <1>1, <2>3, <4>1 DEF Ring
      <4> QED
        BY <1>9, <2>1, <2>3, <3>2, <4>1, <4>2
    <3> QED
      BY <3>1, <3>2
  <2> QED
    BY <1>2, <1>3, <2>1, <2>2, <2>3 DEF Ring
<1>11. Owned(K)'
  <2>1. ASSUME NEW a \in Addr, live[a] > 0
        PROVE  a \in K /\ a # last /\ hdr'[a].busy = TRUE /\ hdr'[a].next = a + live[a]
    BY <1>1, <1>2, <1>8, <2>1 DEF Owned
  <2>2. ASSUME NEW a \in K, hdr'[a].busy = TRUE, a # last PROVE live[a] > 0
    BY <1>1, <1>3, <1>8, <2>2 DEF Owned
  <2> QED
    BY <1>2, <2>1, <2>2 DEF Owned
<1>12. Searching(K)'
  <2>1. call.p \in K /\ call.at = "look" /\ call.wanted > 0 /\ cursor \in Addr
    BY <1>0, <1>1, <1>3, <1>5 DEF Searching, Coalesce, Looking
  <2>2. ASSUME cursor \in K, call.freed = FALSE, NEW a \in Passed(K, p)
        PROVE  TooSmall(a)'
    <3>1. a \in Passed(H, p) /\ a \in K /\ a # p /\ cursor \in H
      BY <1>3, <1>5, <2>2 DEF Passed
    <3>2. TooSmall(a)
      BY <1>0, <2>1, <2>2, <3>1 DEF Searching, Seen
    <3>3. hdr'[a] = hdr[a] /\ a \in H
      BY <1>3, <1>8, <3>1
    <3>4. hdr[a].next \in H
      BY <1>1, <1>3, <3>3 DEF Ring
    <3>5. hdr'[hdr[a].next].busy = hdr[hdr[a].next].busy
      BY <1>2, <1>3, <1>8, <3>4
    <3> QED
      BY <1>2, <3>2, <3>3, <3>5 DEF TooSmall
  <2>3. Seen(K)' = Passed(K, p)
    BY <1>0, <1>2, <2>1 DEF Passed, Seen
  <2> QED
    BY <1>2, <2>1, <2>2, <2>3 DEF Searching
<1>13. K \in SUBSET Addr
  OBVIOUS
<1> HIDE DEF K
<1>14. Heap(K)'
  BY <1>1, <1>2, <1>10, <1>11, <1>12 DEF Heap
<1> QED
  BY <1>2, <1>8, <1>13, <1>14 DEF MallocTypeOK

(* The search ends at a block that is large enough: the block is handed    *)
(* out, and what is left of it is a new free block.                        *)
LEMMA FitStep ==
    ASSUME MallocTypeOK, NEW H \in SUBSET Addr, Heap(H), Searching(H), ScanFit
    PROVE  MallocTypeOK' /\ \E K \in SUBSET Addr : Heap(K)'
<1>0. PICK p, n, w, e :
          p = call.p /\ n = hdr[p].next /\ w = call.wanted /\ e = p + w
  OBVIOUS
<1>1. /\ Ring(H) /\ Owned(H) /\ p \in H /\ brk > 0 /\ w \in Nat /\ w > 0
      /\ hdr \in [Addr -> Header] /\ live \in [Addr -> Nat]
  BY <1>0 DEF Heap, Searching, MallocTypeOK, Call
<1>2. /\ hdr[p].busy = FALSE /\ n - p >= w
      /\ hdr' = IF n - p = w THEN [hdr EXCEPT ![p].busy = TRUE]
                ELSE [hdr EXCEPT ![e] = [next |-> n, busy |-> FALSE],
                                 ![p] = [next |-> e, busy |-> TRUE]]
      /\ cursor' = e /\ call' = Idle /\ live' = [live EXCEPT ![p] = w]
      /\ UNCHANGED <<brk, first, last, state>>
  BY <1>0, <1>1 DEF ScanFit, Free, Size, Header
<1>3. /\ \A a \in H : a \in Nat /\ a <= BrkLimit /\ a \in Addr
      /\ first \in H /\ last \in H /\ \A a \in H : first <= a /\ a <= last
      /\ BrkLimit \in Nat
  BY <1>1, BrkLimitAssumption DEF Ring, Addr
<1>4. p # last
  BY <1>1, <1>2 DEF Ring
<1>5. n \in H /\ p < n /\ \A b \in H : b <= p \/ n <= b
  BY <1>0, <1>1, <1>4 DEF Ring
<1>6. live[p] = 0
  BY <1>1, <1>2, <1>3 DEF Owned
<1>7. Idle \in Call
  BY DEF Idle, Call
<1>8. live' \in [Addr -> Nat] /\ live'[p] = w /\ \A a \in Addr : a # p => live'[a] = live[a]
  BY <1>1, <1>2, <1>3
<1>9. e \in Addr /\ p < e /\ e <= n
  BY <1>0, <1>1, <1>2, <1>3, <1>5 DEF Addr
<1>10. CASE n - p = w
  <2>1. e = n
    BY <1>0, <1>1, <1>3, <1>5, <1>10
  <2>2. /\ \A a \in Addr : hdr'[a].next = hdr[a].next /\ (a # p => hdr'[a] = hdr[a])
        /\ hdr'[p].busy = TRUE /\ hdr' \in [Addr -> Header] /\ hdr'[p].next = n
    <3>1. hdr' = [hdr EXCEPT ![p].busy = TRUE] /\ p \in Addr
      BY <1>1, <1>2, <1>3, <1>10
    <3>2. \A a \in Addr : a # p => hdr'[a] = hdr[a]
      BY <1>1, <3>1
    <3>3. hdr'[p] = [hdr[p] EXCEPT !.busy = TRUE] /\ hdr[p] \in Header
      BY <1>1, <3>1
    <3>4. hdr'[p].next = n /\ hdr'[p].busy = TRUE /\ hdr'[p] \in Header
      BY <1>0, <3>3 DEF Header
    <3>5. hdr' \in [Addr -> Header]
      BY <1>1, <3>1, <3>2, <3>4
    <3> QED
      BY <1>0, <3>2, <3>4, <3>5
  <2>3. Ring(H)'
    <3>1. hdr'[last] = hdr[last]
      BY <1>3, <1>4, <2>2
    <3>2. \A a \in H : hdr'[a].next = hdr[a].next
      BY <1>3, <2>2
    <3> QED
      BY <1>1, <1>2, <3>1, <3>2 DEF Ring
  <2>4. Owned(H)'
    <3>1. ASSUME NEW a \in Addr, live'[a] > 0
          PROVE  a \in H /\ a # last /\ hdr'[a].busy = TRUE /\ hdr'[a].next = a + live'[a]
      <4>1. CASE a = p
        BY <1>0, <1>1, <1>4, <1>8, <2>1, <2>2, <4>1
      <4>2. CASE a # p
        BY <1>1, <1>8, <2>2, <3>1, <4>2 DEF Owned
      <4> QED
        BY <4>1, <4>2
    <3>2. ASSUME NEW a \in H, hdr'[a].busy = TRUE, a # last PROVE live'[a] > 0
      BY <1>1, <1>3, <1>8, <2>2, <3>2 DEF Owned
    <3> QED
      BY <1>2, <3>1, <3>2 DEF Owned
  <2>5. AtRest(H)'
    BY <1>2, <1>5, <2>1 DEF AtRest
  <2>6. MallocTypeOK'
    BY <1>2, <1>7, <1>8, <1>9, <2>2 DEF MallocTypeOK
  <2>7. Heap(H)'
    BY <1>1, <1>2, <2>3, <2>4, <2>5 DEF Heap
  <2> QED
    BY <2>6, <2>7
<1>11. CASE n - p # w
  <2> DEFINE K == H \cup {e}
  <2>1. e < n /\ e \notin H /\ e # p
    <3>1. p \in Nat /\ n \in Nat /\ w \in Nat /\ e \in Nat /\ e = p + w
      BY <1>0, <1>1, <1>3, <1>5
    <3>2. e < n
      BY <1>2, <1>11, <3>1
    <3> QED
      BY <1>5, <1>9, <3>1, <3>2
  <2>2. /\ \A a \in Addr : a # p /\ a # e => hdr'[a] = hdr[a]
        /\ hdr'[p].busy = TRUE /\ hdr'[p].next = e
        /\ hdr'[e].busy = FALSE /\ hdr'[e].next = n
        /\ hdr' \in [Addr -> Header]
    BY <1>1, <1>2, <1>3, <1>5, <1>9, <1>11, <2>1 DEF Header
  <2>3. e \in Nat /\ first <= e /\ e <= last
    BY <1>1, <1>3, <1>5, <1>9, <2>1 DEF Addr
  <2>4. Ring(K)'
    <3>1. /\ K \subseteq Addr /\ first \in K /\ last \in K
          /\ \A a \in K : a \in Nat /\ first <= a /\ a <= last
      BY <1>3, <1>9, <2>3
    <3>2. hdr'[last] = [next |-> first, busy |-> TRUE] /\ last + 1 = brk
      BY <1>1, <1>3, <1>4, <2>1, <2>2 DEF Ring
    <3>3. ASSUME NEW a \in K, a # last
          PROVE  /\ hdr'[a].next \in K /\ a < hdr'[a].next
                 /\ \A b \in K : b <= a \/ hdr'[a].next <= b
      <4>1. CASE a = p
        BY <1>3, <1>5, <1>9, <2>1, <2>2, <3>1, <4>1
      <4>2. CASE a = e
        BY <1>1, <1>3, <1>5, <1>9, <2>1, <2>2, <3>1, <4>2
      <4>3. CASE a # p /\ a # e
        <5>1. hdr'[a].next = hdr[a].next /\ a \in H
          BY <1>3, <2>2, <4>3
        <5>2. /\ hdr[a].next \in H /\ a < hdr[a].next
              /\ \A b \in H : b <= a \/ hdr[a].next <= b
          BY <1>1, <3>3, <5>1 DEF Ring
        <5>3. e <= a \/ hdr[a].next <= e
          <6>1. (a <= p \/ n <= a) /\ (p <= a \/ hdr[a].next <= p)
            BY <1>1, <1>5, <5>1, <5>2
          <6>2. /\ a \in Nat /\ p \in Nat /\ n \in Nat /\ hdr[a].next \in Nat
                /\ p < e /\ e <= n /\ a # p /\ e \in Nat
            BY <1>1, <1>3, <1>5, <1>9, <2>3, <4>3, <5>1, <5>2
          <6> QED
            BY <6>1, <6>2
        <5> QED
          BY <5>1, <5>2, <5>3
      <4> QED
        BY <4>1, <4>2, <4>3
    <3> QED
      BY <1>2, <3>1, <3>2, <3>3 DEF Ring
  <2>5. Owned(K)'
    <3>0. live[e] = 0 /\ e # last
      BY <1>1, <1>3, <1>9, <2>1 DEF Owned
    <3>1. ASSUME NEW a \in Addr, live'[a] > 0
          PROVE  a \in K /\ a # last /\ hdr'[a].busy = TRUE /\ hdr'[a].next = a + live'[a]
      <4>1. CASE a = p
        BY <1>0, <1>1, <1>4, <1>8, <2>2, <4>1
      <4>2. CASE a # p
        BY <1>1, <1>8, <2>2, <3>0, <3>1, <4>2 DEF Owned
      <4> QED
        BY <4>1, <4>2
    <3>2. ASSUME NEW a \in K, hdr'[a].busy = TRUE, a # last PROVE live'[a] > 0
      BY <1>1, <1>3, <1>8, <1>9, <2>2, <3>2 DEF Owned
    <3> QED
      BY <1>2, <3>1, <3>2 DEF Owned
  <2>6. AtRest(K)'
    BY <1>2 DEF AtRest
  <2>7. MallocTypeOK'
    BY <1>2, <1>7, <1>8, <1>9, <2>2 DEF MallocTypeOK
  <2>8. K \in SUBSET Addr
    BY <1>9
  <2> HIDE DEF K
  <2>9. Heap(K)'
    BY <1>1, <1>2, <2>4, <2>5, <2>6 DEF Heap
  <2> QED
    BY <2>7, <2>8, <2>9
<1> QED
  BY <1>10, <1>11

(* The break moves: the old end marker becomes the new block.              *)
LEMMA GrowStep ==
    ASSUME MallocTypeOK, Grow,
           \/ FirstCall
           \/ \E H \in SUBSET Addr : Heap(H) /\ Growing(H)
    PROVE  MallocTypeOK' /\ \E K \in SUBSET Addr : Heap(K)'
<1>0. PICK p, w, n : p = call.p /\ w = call.wanted /\ n = p + w
  OBVIOUS
<1>1. /\ n + 1 <= BrkLimit /\ brk' = n + 1 /\ last' = n
      /\ hdr' = [hdr EXCEPT ![last] = [next |-> n, busy |-> TRUE],
                            ![p] = [next |-> n, busy |-> TRUE],
                            ![n] = [next |-> first, busy |-> TRUE]]
      /\ live' = [live EXCEPT ![p] = w] /\ call' = Idle
      /\ UNCHANGED <<first, cursor, state>>
  BY <1>0 DEF Grow
<1>2. /\ hdr \in [Addr -> Header] /\ live \in [Addr -> Nat] /\ w \in Nat /\ w > 0
      /\ BrkLimit \in Nat /\ p = last
  BY <1>0, BrkLimitAssumption DEF MallocTypeOK, Call, Growing, FirstCall
<1>3. Idle \in Call
  BY DEF Idle, Call
(* Both cases: p is the old end marker, which is in Addr.                  *)
<1>4. ASSUME p \in Addr, first \in Addr
      PROVE  /\ n \in Addr /\ n + 1 \in Addr /\ p < n /\ p \in Nat /\ n \in Nat
             /\ hdr' \in [Addr -> Header] /\ live' \in [Addr -> Nat]
             /\ \A a \in Addr : a # p /\ a # n => hdr'[a] = hdr[a]
             /\ hdr'[p] = [next |-> n, busy |-> TRUE]
             /\ hdr'[n] = [next |-> first, busy |-> TRUE]
             /\ live'[p] = w /\ \A a \in Addr : a # p => live'[a] = live[a]
  <2>1. n \in Addr /\ n + 1 \in Addr /\ p < n /\ p \in Nat /\ n \in Nat
    <3>1. p \in Nat /\ n = p + w /\ w \in Nat /\ w > 0 /\ n + 1 <= BrkLimit /\ BrkLimit \in Nat
      BY <1>0, <1>1, <1>2, <1>4 DEF Addr
    <3>2. n \in Nat /\ p < n /\ n <= BrkLimit /\ n + 1 \in Nat
      BY <3>1
    <3> QED
      BY <3>1, <3>2 DEF Addr
  <2>2. live' \in [Addr -> Nat] /\ live'[p] = w /\ \A a \in Addr : a # p => live'[a] = live[a]
    BY <1>1, <1>2, <1>4
  <2>3. /\ [next |-> n, busy |-> TRUE] \in Header
        /\ [next |-> first, busy |-> TRUE] \in Header
    BY <1>4, <2>1 DEF Header
  <2>4. /\ \A a \in Addr : a # p /\ a # n => hdr'[a] = hdr[a]
        /\ hdr'[p] = [next |-> n, busy |-> TRUE]
        /\ hdr'[n] = [next |-> first, busy |-> TRUE]
    <3> DEFINE X == [next |-> n, busy |-> TRUE]
               Y == [next |-> first, busy |-> TRUE]
    <3>1. hdr' = [hdr EXCEPT ![p] = X, ![p] = X, ![n] = Y]
      BY <1>1, <1>2
    <3>2. p # n
      BY <2>1
    <3> HIDE DEF X, Y
    <3>3. \A a \in Addr : hdr'[a] = IF a = n THEN Y ELSE IF a = p THEN X ELSE hdr[a]
      BY <1>2, <1>4, <2>1, <3>1, <3>2
    <3>4. hdr'[n] = Y /\ hdr'[p] = X
      BY <1>4, <2>1, <3>2, <3>3
    <3> QED
      BY <3>3, <3>4 DEF X, Y
  <2>5. hdr' \in [Addr -> Header]
    BY <1>1, <1>2, <1>4, <2>1, <2>3
  <2> QED
    BY <2>1, <2>2, <2>4, <2>5
<1>5. CASE FirstCall
  <2> DEFINE K == {0, n}
  <2>1. p = 0 /\ first = 0 /\ last = 0 /\ cursor = 0 /\ \A a \in Addr : live[a] = 0
    BY <1>0, <1>5 DEF FirstCall, NoBlocks
  <2>2. 0 \in Addr
    BY BrkLimitAssumption DEF Addr
  <2>3. /\ n \in Addr /\ n + 1 \in Addr /\ p < n /\ p \in Nat /\ n \in Nat
        /\ hdr' \in [Addr -> Header] /\ live' \in [Addr -> Nat]
        /\ hdr'[0] = [next |-> n, busy |-> TRUE] /\ hdr'[n] = [next |-> 0, busy |-> TRUE]
        /\ live'[p] = w /\ \A a \in Addr : a # p => live'[a] = live[a]
    BY <1>4, <2>1, <2>2
  <2>4. MallocTypeOK'
    BY <1>1, <1>3, <2>3 DEF MallocTypeOK
  <2>5. Ring(K)'
    BY <1>1, <2>1, <2>2, <2>3 DEF Ring
  <2>6. Owned(K)'
    BY <1>0, <1>1, <1>2, <2>1, <2>3 DEF Owned
  <2>7. AtRest(K)'
    BY <1>1, <2>1 DEF AtRest
  <2>8. K \in SUBSET Addr /\ brk' > 0
    BY <1>1, <2>2, <2>3
  <2> QED
    BY <2>4, <2>5, <2>6, <2>7, <2>8 DEF Heap
<1>6. ASSUME NEW H \in SUBSET Addr, Heap(H), Growing(H)
      PROVE  MallocTypeOK' /\ \E K \in SUBSET Addr : Heap(K)'
  <2> DEFINE K == H \cup {n}
  <2>1. /\ Ring(H) /\ Owned(H) /\ p \in H /\ first \in H /\ cursor \in H
        /\ \A a \in H : a \in Addr /\ a \in Nat /\ first <= a /\ a <= p
    BY <1>2, <1>6, BrkLimitAssumption DEF Heap, Growing, Ring, Addr
  <2>2. /\ n \in Addr /\ n + 1 \in Addr /\ p < n /\ p \in Nat /\ n \in Nat
        /\ hdr' \in [Addr -> Header] /\ live' \in [Addr -> Nat]
        /\ \A a \in Addr : a # p /\ a # n => hdr'[a] = hdr[a]
        /\ hdr'[p] = [next |-> n, busy |-> TRUE]
        /\ hdr'[n] = [next |-> first, busy |-> TRUE]
        /\ live'[p] = w /\ \A a \in Addr : a # p => live'[a] = live[a]
    BY <1>4, <2>1
  <2>3. MallocTypeOK'
    BY <1>1, <1>3, <2>2 DEF MallocTypeOK
  <2>4. n \notin H
    BY <2>1, <2>2
  <2>5. Ring(K)'
    <3>1. /\ K \subseteq Addr /\ first \in K /\ n \in K
          /\ \A a \in K : a \in Nat /\ first <= a /\ a <= n
      <4>1. first \in Nat /\ first <= p /\ p < n /\ n \in Nat /\ p \in Nat
        BY <2>1, <2>2
      <4>2. first <= n
        BY <4>1
      <4>3. \A a \in H : a \in Nat /\ first <= a /\ a <= n
        BY <2>1, <4>1
      <4>4. n \in Nat /\ n <= n /\ n \in Addr
        BY <2>2
      <4>5. \A a \in K : a \in Nat /\ first <= a /\ a <= n
        BY <4>2, <4>3, <4>4
      <4> QED
        BY <2>1, <4>4, <4>5
    <3>2. ASSUME NEW a \in K, a # n
          PROVE  /\ hdr'[a].next \in K /\ a < hdr'[a].next
                 /\ \A b \in K : b <= a \/ hdr'[a].next <= b
      <4>1. CASE a = p
        <5>1. hdr'[a].next = n /\ p < n /\ n \in Nat
          BY <2>2, <4>1
        <5>2. \A b \in K : b <= p \/ n <= b
          BY <2>1, <5>1
        <5> QED
          BY <4>1, <5>1, <5>2
      <4>2. CASE a # p
        <5>1. a \in H /\ hdr'[a] = hdr[a]
          BY <2>1, <2>2, <3>2, <4>2
        <5>2. /\ hdr[a].next \in H /\ a < hdr[a].next
              /\ \A b \in H : b <= a \/ hdr[a].next <= b
          BY <1>2, <2>1, <4>2, <5>1 DEF Ring
        <5>3. hdr[a].next <= n
          BY <3>1, <5>2
        <5> QED
          BY <5>1, <5>2, <5>3
      <4> QED
        BY <4>1, <4>2
    <3> QED
      BY <1>1, <2>2, <3>1, <3>2 DEF Ring
  <2>6. Owned(K)'
    <3>1. ASSUME NEW a \in Addr, live'[a] > 0
          PROVE  a \in K /\ a # n /\ hdr'[a].busy = TRUE /\ hdr'[a].next = a + live'[a]
      <4>1. CASE a = p
        BY <1>0, <2>1, <2>2, <4>1
      <4>2. CASE a # p
        BY <2>1, <2>2, <2>4, <3>1, <4>2 DEF Owned
      <4> QED
        BY <4>1, <4>2
    <3>2. ASSUME NEW a \in K, hdr'[a].busy = TRUE, a # n PROVE live'[a] > 0
      <4>1. CASE a = p
        BY <1>2, <2>2, <4>1
      <4>2. CASE a # p
        BY <1>2, <2>1, <2>2, <3>2, <4>2 DEF Owned
      <4> QED
        BY <4>1, <4>2
    <3> QED
      BY <1>1, <3>1, <3>2 DEF Owned
  <2>7. AtRest(K)'
    BY <1>1, <2>1 DEF AtRest
  <2>8. K \in SUBSET Addr /\ brk' > 0
    BY <1>1, <2>2
  <2> QED
    BY <2>3, <2>5, <2>6, <2>7, <2>8 DEF Heap
<1> QED
  BY <1>5, <1>6

(* A block its owner gives back is free, and the next search begins there; *)
(* a search that is going on ends there.                                   *)
LEMMA FreeStep ==
    ASSUME MallocTypeOK, NEW H \in SUBSET Addr, Heap(H), NEW a \in Addr, IbcsFree(a)
    PROVE  MallocTypeOK' /\ Heap(H)'
<1>1. /\ live[a] > 0 /\ hdr' = [hdr EXCEPT ![a].busy = FALSE]
      /\ cursor' = a /\ live' = [live EXCEPT ![a] = 0]
      /\ call' = IF call = Idle THEN Idle ELSE [call EXCEPT !.freed = TRUE]
      /\ UNCHANGED <<brk, first, last, state>>
  BY DEF IbcsFree
<1>2. /\ Ring(H) /\ Owned(H) /\ brk > 0 /\ a \in H /\ a # last
      /\ hdr \in [Addr -> Header] /\ live \in [Addr -> Nat] /\ last \in Addr
  BY <1>1 DEF Heap, Owned, Ring, MallocTypeOK
<1>3. hdr'[a] = [hdr[a] EXCEPT !.busy = FALSE] /\ hdr[a] \in Header
  BY <1>1, <1>2
<1>4. hdr'[a].next = hdr[a].next /\ hdr'[a].busy = FALSE /\ hdr'[a] \in Header
  BY <1>3 DEF Header
<1>5. /\ \A b \in Addr : b # a => hdr'[b] = hdr[b]
      /\ live' \in [Addr -> Nat] /\ live'[a] = 0
      /\ \A b \in Addr : b # a => live'[b] = live[b]
  BY <1>1, <1>2
<1>6. hdr' \in [Addr -> Header]
  BY <1>1, <1>2, <1>4, <1>5
<1>7. \A b \in H : b \in Addr /\ hdr'[b].next = hdr[b].next
  BY <1>4, <1>5
<1>8. Ring(H)'
  BY <1>1, <1>2, <1>5, <1>7 DEF Ring
<1>9. Owned(H)'
  <2>1. ASSUME NEW b \in Addr, live'[b] > 0
        PROVE  b \in H /\ b # last /\ hdr'[b].busy = TRUE /\ hdr'[b].next = b + live'[b]
    BY <1>2, <1>5, <2>1 DEF Owned
  <2>2. ASSUME NEW b \in H, hdr'[b].busy = TRUE, b # last PROVE live'[b] > 0
    BY <1>2, <1>4, <1>5, <2>2 DEF Owned
  <2> QED
    BY <1>1, <2>1, <2>2 DEF Owned
<1>10. \/ call = Idle /\ call' = Idle
       \/ /\ call'.wanted = call.wanted /\ call'.p = call.p /\ call'.at = call.at
          /\ call'.freed = TRUE /\ call # Idle
  BY <1>1 DEF MallocTypeOK, Call
<1>11. AtRest(H)' \/ Searching(H)' \/ Growing(H)'
  <2>1. CASE call = Idle
    BY <1>1, <1>2, <1>10, <2>1 DEF AtRest
  <2>2. CASE Searching(H) /\ call # Idle
    BY <1>1, <1>2, <1>10, <2>2 DEF Searching
  <2>3. CASE Growing(H) /\ call # Idle
    BY <1>1, <1>2, <1>10, <2>3 DEF Growing
  <2> QED
    BY <2>1, <2>2, <2>3 DEF Heap, AtRest
<1>12. MallocTypeOK'
  <2>1. call' \in Call
    BY <1>1 DEF MallocTypeOK, Call, Idle
  <2> QED
    BY <1>1, <1>5, <1>6, <2>1 DEF MallocTypeOK
<1> QED
  BY <1>1, <1>2, <1>8, <1>9, <1>11, <1>12 DEF Heap

(* The invariant of the allocator holds at the start.                      *)
LEMMA MallocInitInv == MallocInit => MallocInv
<1> SUFFICES ASSUME MallocInit PROVE MallocInv
  OBVIOUS
<1>1. MallocTypeOK
  BY BrkLimitAssumption DEF MallocInit, MallocTypeOK, Header, Call, Idle, Addr, NULL
<1>2. Unused
  BY DEF MallocInit, Unused, NoBlocks
<1> QED
  BY <1>1, <1>2 DEF MallocInv

(* It does not depend on how the process ended.                            *)
LEMMA MallocInvFrame ==
    ASSUME MallocInv, UNCHANGED <<hdr, brk, first, last, cursor, call, live>>,
           state' \in {"running", "fatal", "fault"}
    PROVE  MallocInv'
<1>1. MallocTypeOK'
  BY DEF MallocInv, MallocTypeOK
<1>2. (Unused => Unused') /\ (FirstCall => FirstCall')
  BY DEF Unused, FirstCall, NoBlocks
<1>3. ASSUME NEW H \in SUBSET Addr, Heap(H) PROVE Heap(H)'
  <2>1. Ring(H)' = Ring(H) /\ Owned(H)' = Owned(H) /\ AtRest(H)' = AtRest(H)
    BY DEF Ring, Owned, AtRest
  <2>2. Seen(H)' = Seen(H)
    BY DEF Seen, Passed
  <2>3. \A a : TooSmall(a) => TooSmall(a)'
    BY DEF TooSmall
  <2>4. Searching(H) => Searching(H)'
    BY <2>2, <2>3 DEF Searching
  <2>5. Growing(H) => Growing(H)'
    BY <2>3 DEF Growing
  <2> QED
    BY <1>3, <2>1, <2>4, <2>5 DEF Heap
<1> QED
  BY <1>1, <1>2, <1>3 DEF MallocInv

(* Every step of ibcs_malloc and ibcs_free keeps it.                       *)
LEMMA MallocNextInv == MallocInv /\ [MallocNext]_mallocVars => MallocInv'
<1> SUFFICES ASSUME MallocInv, [MallocNext]_mallocVars PROVE MallocInv'
  OBVIOUS
<1>0. MallocTypeOK /\ Idle.at = "idle" /\ 0 \in Addr
  BY BrkLimitAssumption DEF MallocInv, Idle, Addr
<1>1. CASE state # "running" \/ UNCHANGED mallocVars
  <2>1. UNCHANGED mallocVars
    BY <1>1 DEF MallocNext, MallocFirst, Malloc, IbcsFree, Scan, ScanBusy, Coalesce,
                ScanSmall, ScanFit, ScanTest, Looking, Grow, GrowRefused, Ended
  <2>2. UNCHANGED <<hdr, brk, first, last, cursor, call, live>> /\ state' = state
    BY <2>1 DEF mallocVars
  <2> QED
    BY <1>0, <2>2, MallocInvFrame DEF MallocTypeOK
<1>2. CASE state = "running" /\ MallocNext /\ Unused
  <2>1. call = Idle /\ cursor = NULL /\ brk = 0 /\ \A a \in Addr : ~(live[a] > 0)
    BY <1>2 DEF Unused, NoBlocks
  <2>2. PICK n \in Sizes : MallocFirst(n)
    BY <1>0, <1>2, <2>1 DEF MallocNext, Malloc, IbcsFree, Scan, ScanBusy, Coalesce,
                       ScanSmall, ScanFit, ScanTest, Looking, Grow, GrowRefused, Ended
  <2>3. Units(n) \in Nat /\ Units(n) > 0
    BY SizesAssumption, UnitsPositive
  <2>4. /\ first' = 0 /\ last' = 0 /\ cursor' = 0
        /\ call' = [wanted |-> Units(n), p |-> 0, at |-> "grow", freed |-> FALSE]
        /\ UNCHANGED <<hdr, brk, live, state>>
    BY <2>1, <2>2 DEF MallocFirst
  <2>5. MallocTypeOK'
    BY <1>0, <2>3, <2>4 DEF MallocTypeOK, Call
  <2>6. FirstCall'
    BY <1>2, <2>3, <2>4 DEF FirstCall, NoBlocks, Unused
  <2> QED
    BY <2>5, <2>6 DEF MallocInv
<1>3. CASE GrowRefused
  <2>1. /\ state' \in {"fatal", "fault"}
        /\ UNCHANGED <<hdr, brk, first, last, cursor, call, live>>
    BY <1>3 DEF GrowRefused
  <2> QED
    BY <2>1, MallocInvFrame
<1>4. CASE state = "running" /\ MallocNext /\ FirstCall /\ ~GrowRefused
  <2>1. call # Idle /\ call.at = "grow" /\ \A a \in Addr : ~(live[a] > 0)
    BY <1>0, <1>4 DEF FirstCall, NoBlocks
  <2>2. Grow
    BY <1>4, <2>1 DEF MallocNext, MallocFirst, Malloc, IbcsFree, Scan, ScanBusy,
                       Coalesce, ScanSmall, ScanFit, ScanTest, Looking, Ended
  <2> QED
    BY <1>0, <1>4, <2>2, GrowStep DEF MallocInv
<1>5. ASSUME state = "running", MallocNext, NEW H \in SUBSET Addr, Heap(H), ~GrowRefused
      PROVE  MallocInv'
  <2>1. cursor # NULL \/ Searching(H)
    BY <1>5, BrkLimitAssumption DEF Heap, AtRest, Growing, Addr, NULL
  <2>2. Searching(H) => call # Idle
    BY <1>0 DEF Searching, Idle
  <2>3. ASSUME NEW n \in Sizes, Malloc(n) PROVE MallocInv'
    BY <1>0, <1>5, <2>3, MallocStep DEF MallocInv
  <2>4. ASSUME NEW n \in Sizes, MallocFirst(n) PROVE MallocInv'
    BY <2>1, <2>2, <2>4 DEF MallocFirst
  <2>5. ASSUME NEW a \in Addr, IbcsFree(a) PROVE MallocInv'
    BY <1>0, <1>5, <2>5, FreeStep DEF MallocInv
  <2>6. CASE Scan
    <3>1. call.at \in {"look", "test"}
      BY <2>6 DEF Scan, ScanBusy, Coalesce, ScanSmall, ScanFit, ScanTest, Looking
    <3>2. Searching(H)
      BY <1>0, <1>5, <3>1 DEF Heap, AtRest, Growing
    <3>3. CASE Coalesce
      BY <1>0, <1>5, <3>2, <3>3, CoalesceStep DEF MallocInv
    <3>4. CASE ScanFit
      BY <1>0, <1>5, <3>2, <3>4, FitStep DEF MallocInv
    <3>5. /\ call.p \in Addr /\ hdr[call.p] \in Header
          /\ hdr[hdr[call.p].next] \in Header
      BY <1>0, <3>2 DEF Searching, MallocTypeOK, Header
    <3>6. CASE ScanBusy
      <4>1. TooSmall(call.p)
        BY <3>5, <3>6 DEF ScanBusy, Free, TooSmall, Header
      <4> QED
        BY <1>0, <1>5, <3>2, <3>6, <4>1, AdvanceStep DEF MallocInv, ScanBusy
    <3>7. CASE ScanSmall
      <4>1. TooSmall(call.p)
        BY <3>5, <3>7 DEF ScanSmall, Free, Size, TooSmall, Header
      <4> QED
        BY <1>0, <1>5, <3>2, <3>7, <4>1, AdvanceStep DEF MallocInv, ScanSmall
    <3>8. CASE ScanTest
      BY <1>0, <1>5, <3>2, <3>8, TestStep DEF MallocInv
    <3> QED
      BY <2>6, <3>3, <3>4, <3>6, <3>7, <3>8 DEF Scan
  <2>7. CASE Grow
    <3>1. Growing(H)
      BY <1>0, <1>5, <2>7 DEF Grow, Heap, AtRest, Searching
    <3> QED
      BY <1>0, <1>5, <2>7, <3>1, GrowStep DEF MallocInv
  <2>8. CASE Ended
    BY <1>5, <2>8 DEF Ended
  <2> QED
    BY <1>5, <2>3, <2>4, <2>5, <2>6, <2>7, <2>8 DEF MallocNext
<1> QED
  BY <1>1, <1>2, <1>3, <1>4, <1>5 DEF MallocInv

-----------------------------------------------------------------------------
(* Sets of numbers have a least element, and bounded ones a greatest.      *)
LEMMA Least ==
    ASSUME NEW S \in SUBSET Nat, S # {}
    PROVE  \E x \in S : \A y \in S : x <= y
<1>1. IsWellFoundedOn(OpToRel(<, Nat), Nat)
  BY NatLessThanWellFounded
<1>2. PICK x \in S : \A y \in S : ~(<<y, x>> \in OpToRel(<, Nat))
  BY <1>1, WFMin
<1>3. \A y \in S : ~(y < x)
  BY <1>2 DEF OpToRel
<1> QED
  BY <1>3

(* A set of numbers up to a bound has a greatest element.                  *)
LEMMA Greatest ==
    ASSUME NEW m \in Nat, NEW S \in SUBSET (0 .. m), S # {}
    PROVE  \E x \in S : \A y \in S : y <= x
<1> DEFINE T == {m - x : x \in S}
<1>1. T \in SUBSET Nat /\ T # {}
  <2>1. \A x \in S : m - x \in Nat
    OBVIOUS
  <2>2. PICK x \in S : TRUE
    OBVIOUS
  <2>3. m - x \in T
    BY <2>2
  <2> QED
    BY <2>1, <2>3
<1>2. PICK t \in T : \A u \in T : t <= u
  BY <1>1, Least
<1>3. PICK x \in S : t = m - x
  BY <1>2
<1>4. \A y \in S : m - y \in T
  OBVIOUS
<1>5. \A y \in S : m - x <= m - y
  BY <1>2, <1>3, <1>4
<1> QED
  BY <1>5

(* The body of the recursive function by which Chain follows the list.     *)
Follow(f) ==
    [a \in Addr |-> {a} \cup (IF hdr[a].next > a THEN f[hdr[a].next] ELSE {})]

(* That function exists: it gives the least set of addresses that holds a  *)
(* and, with each of its elements, the higher one that element points to.  *)
LEMMA FollowExists == ASSUME MallocTypeOK PROVE \E f : f = Follow(f)
<1> DEFINE Closed(S) == \A x \in S : hdr[x].next > x => hdr[x].next \in S
           Cl(a) == {b \in Addr : \A S \in SUBSET Addr : a \in S /\ Closed(S) => b \in S}
           f == [a \in Addr |-> Cl(a)]
<1>1. \A a \in Addr : hdr[a].next \in Addr
  BY DEF MallocTypeOK, Header
<1>2. ASSUME NEW a \in Addr PROVE a \in Cl(a) /\ Cl(a) \in SUBSET Addr /\ Closed(Cl(a))
  BY <1>1
<1>3. ASSUME NEW a \in Addr, NEW S \in SUBSET Addr, a \in S, Closed(S)
      PROVE  Cl(a) \subseteq S
  BY <1>3
<1> HIDE DEF Cl
<1>4. ASSUME NEW a \in Addr, hdr[a].next > a PROVE Cl(a) = {a} \cup Cl(hdr[a].next)
  <2>1. hdr[a].next \in Cl(a)
    BY <1>2, <1>4
  <2>2. Cl(hdr[a].next) \subseteq Cl(a)
    BY <1>1, <1>2, <1>3, <2>1
  <2>3. Closed({a} \cup Cl(hdr[a].next))
    BY <1>1, <1>2
  <2>4. Cl(a) \subseteq {a} \cup Cl(hdr[a].next)
    BY <1>1, <1>2, <1>3, <2>3
  <2> QED
    BY <1>2, <2>2, <2>4
<1>5. ASSUME NEW a \in Addr, ~(hdr[a].next > a) PROVE Cl(a) = {a}
  <2>1. Closed({a})
    BY <1>5
  <2>2. {a} \in SUBSET Addr /\ a \in {a}
    OBVIOUS
  <2>3. Cl(a) \subseteq {a}
    BY <1>3, <2>1, <2>2
  <2> QED
    BY <1>2, <2>3
<1>6. ASSUME NEW a \in Addr
      PROVE  f[a] = {a} \cup (IF hdr[a].next > a THEN f[hdr[a].next] ELSE {})
  BY <1>1, <1>4, <1>5
<1>7. f = Follow(f)
  BY <1>6 DEF Follow
<1> QED
  BY <1>7

(* Following the headers from the first block meets exactly the blocks of  *)
(* the list.  Else there would be a highest block from which it does not   *)
(* meet the ones above, and its successor, which is higher, refutes that.  *)
LEMMA ChainIsList ==
    ASSUME MallocTypeOK, NEW H \in SUBSET Addr, Ring(H), brk > 0
    PROVE  Chain = H
<1> DEFINE from == CHOOSE f : f = Follow(f)
           Up(a) == {b \in H : a <= b}
           Bad == {a \in H : from[a] # Up(a)}
<1>1. from = Follow(from)
  BY FollowExists
<1>2. Chain = from[first]
  <2>1. brk # 0
    BY DEF MallocTypeOK
  <2> QED
    BY <2>1 DEF Chain, Follow
<1> HIDE DEF from
<1>3. /\ \A a \in H : a \in Nat /\ a \in Addr /\ a \in 0 .. BrkLimit
      /\ first \in H /\ last \in H /\ \A a \in H : first <= a /\ a <= last
      /\ BrkLimit \in Nat
  BY BrkLimitAssumption DEF Ring, Addr
<1>4. \A a \in Addr : from[a] = {a} \cup (IF hdr[a].next > a THEN from[hdr[a].next] ELSE {})
  BY <1>1 DEF Follow
<1>5. Bad = {}
  <2> SUFFICES ASSUME Bad # {} PROVE FALSE
    OBVIOUS
  <2>1. Bad \in SUBSET (0 .. BrkLimit)
    BY <1>3
  <2>2. PICK a \in Bad : \A b \in Bad : b <= a
    BY <1>3, <2>1, Greatest
  <2>3. a \in H /\ from[a] # Up(a)
    BY <2>2
  <2>4. CASE a = last
    <3>1. hdr[a].next = first
      BY <2>4 DEF Ring
    <3>2. ~(hdr[a].next > a)
      BY <1>3, <2>4, <3>1
    <3>3. from[a] = {a}
      BY <1>3, <1>4, <2>3, <3>2
    <3>4. Up(a) = {a}
      BY <1>3, <2>3, <2>4
    <3> QED
      BY <2>3, <3>3, <3>4
  <2>5. CASE a # last
    <3>1. /\ hdr[a].next \in H /\ a < hdr[a].next
          /\ \A b \in H : b <= a \/ hdr[a].next <= b
      BY <2>3, <2>5 DEF Ring
    <3>2. hdr[a].next \notin Bad
      BY <1>3, <2>2, <2>3, <3>1
    <3>3. from[hdr[a].next] = Up(hdr[a].next)
      BY <3>1, <3>2
    <3>4. hdr[a].next > a
      BY <1>3, <2>3, <3>1
    <3>5. from[a] = {a} \cup Up(hdr[a].next)
      BY <1>3, <1>4, <2>3, <3>3, <3>4
    <3>6. Up(a) = {a} \cup Up(hdr[a].next)
      BY <1>3, <2>3, <3>1
    <3> QED
      BY <2>3, <3>5, <3>6
  <2> QED
    BY <2>4, <2>5
<1>6. from[first] = Up(first)
  BY <1>3, <1>5
<1>7. Up(first) = H
  BY <1>3
<1> QED
  BY <1>2, <1>6, <1>7

(* What the invariant says in terms of the chain.                          *)
LEMMA MallocInvChain == MallocInv => ChainAscends /\ OwnersExact
<1> SUFFICES ASSUME MallocInv PROVE ChainAscends /\ OwnersExact
  OBVIOUS
<1>1. MallocTypeOK
  BY DEF MallocInv
<1>2. CASE NoBlocks
  <2>1. Chain = {}
    BY <1>2 DEF NoBlocks, Chain
  <2> QED
    BY <1>2, <2>1 DEF NoBlocks, ChainAscends, OwnersExact
<1>3. ASSUME NEW H \in SUBSET Addr, Heap(H) PROVE ChainAscends /\ OwnersExact
  <2>1. Ring(H) /\ Owned(H) /\ brk > 0 /\ hdr \in [Addr -> Header] /\ live \in [Addr -> Nat]
    BY <1>1, <1>3 DEF Heap, MallocTypeOK
  <2>2. Chain = H
    BY <1>1, <2>1, ChainIsList
  <2>3. ChainAscends
    BY <2>1, <2>2 DEF ChainAscends, Ring
  <2>4. ASSUME NEW a \in Addr, live[a] > 0 PROVE a \in H /\ ~Free(a) /\ Size(a) = live[a]
    <3>1. /\ a \in H /\ hdr[a].busy = TRUE /\ hdr[a].next = a + live[a]
          /\ a \in Nat /\ live[a] \in Nat
      BY <2>1, <2>4, BrkLimitAssumption DEF Owned, Addr
    <3>2. Size(a) = live[a]
      BY <3>1 DEF Size
    <3> QED
      BY <3>1, <3>2 DEF Free
  <2>5. ASSUME NEW a \in H, ~Free(a), a # last PROVE live[a] > 0
    <3>1. hdr[a].busy = TRUE
      BY <2>1, <2>5 DEF Free, Header
    <3> QED
      BY <2>1, <2>5, <3>1 DEF Owned
  <2> QED
    BY <2>2, <2>3, <2>4, <2>5 DEF OwnersExact
<1> QED
  BY <1>2, <1>3 DEF MallocInv, Unused, FirstCall

(* The list that check_malloc_chain walks is in order after every step of  *)
(* ibcs_malloc and ibcs_free: it ascends from ibcs_malloc_first to the end *)
(* marker below the break, whatever was asked for and given back.          *)
THEOREM ListInOrder == MallocSpec => []ChainAscends
<1>1. MallocInv => ChainAscends
  BY MallocInvChain
<1> QED
  BY <1>1, MallocInitInv, MallocNextInv, PTL DEF MallocSpec

(* A block ibcs_malloc handed out is on the list, as long as was asked     *)
(* for, until it is given back; no two owners share memory; and no block   *)
(* is busy without an owner.                                               *)
THEOREM OwnersKept == MallocSpec => []OwnersExact
<1>1. MallocInv => OwnersExact
  BY MallocInvChain
<1> QED
  BY <1>1, MallocInitInv, MallocNextInv, PTL DEF MallocSpec

(* ibcs_malloc moves the break only when no free block, and no two free    *)
(* neighbours, would do, unless a free came in the middle of its search.   *)
THEOREM GrowsWhenFull == MallocSpec => GrowOnlyWhenFull
<1> DEFINE Full == brk' > brk /\ brk > 0 /\ ~call.freed =>
                      \A a \in Chain : Free(a) => Size(a) < call.wanted /\ ~Free(hdr[a].next)
<1>1. MallocInv /\ [MallocNext]_mallocVars => Full \/ UNCHANGED mallocVars
  <2> SUFFICES ASSUME MallocInv, MallocNext, brk' > brk, brk > 0, ~call.freed,
                      NEW a \in Chain, Free(a)
               PROVE  Size(a) < call.wanted /\ ~Free(hdr[a].next)
    OBVIOUS
  <2>0. MallocTypeOK /\ brk \in Nat /\ Idle.at = "idle" /\ call.freed = FALSE
    BY BrkLimitAssumption DEF MallocInv, MallocTypeOK, Idle, Addr, Call
  <2>1. Grow
    BY <2>0 DEF MallocNext, MallocFirst, Malloc, IbcsFree, Scan, ScanBusy, Coalesce,
           ScanSmall, ScanFit, ScanTest, GrowRefused, Ended, mallocVars
  <2>2. PICK H \in SUBSET Addr : Heap(H)
    BY <2>0 DEF MallocInv, Unused, FirstCall, NoBlocks
  <2>3. Growing(H) /\ Ring(H)
    BY <2>0, <2>1, <2>2 DEF Grow, Heap, AtRest, Searching
  <2>4. a \in H
    BY <2>0, <2>2, <2>3, ChainIsList
  <2>5. TooSmall(a) /\ hdr[a] \in Header
    BY <2>0, <2>3, <2>4 DEF Growing, MallocTypeOK
  <2>6. hdr[a].busy = FALSE
    BY <2>5 DEF Free, Header
  <2> QED
    BY <2>5, <2>6 DEF TooSmall, Size, Free
<1>2. MallocInv /\ [MallocNext]_mallocVars => [Full]_mallocVars
  BY <1>1
<1> QED
  BY <1>2, MallocInitInv, MallocNextInv, PTL DEF MallocSpec, GrowOnlyWhenFull
=============================================================================
