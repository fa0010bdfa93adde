----------------------------- MODULE IbcsMalloc -----------------------------
(***************************************************************************)
(* The allocator of ibcs/ibcs-lib.c: ibcs_malloc and ibcs_free.            *)
(*                                                                         *)
(* Memory is counted in units of one struct ibcs_malloc_hdr.  hdr[a] is    *)
(* the header at address a: the address it points to and the busy bit the  *)
(* code keeps in the pointer.  All blocks, free or not, form one circular  *)
(* list in address order from ibcs_malloc_first to the end marker at       *)
(* ibcs_malloc_last.                                                       *)
(*                                                                         *)
(* ibcs_malloc holds ibcs_malloc_semaphore throughout; its search of the   *)
(* list takes several steps because nothing bounds it.  ibcs_free takes no *)
(* semaphore: the handler of a signal that arrives during the search may   *)
(* free a block in the middle of it.  It writes the header of a block      *)
(* somebody owns and ibcs_malloc_p, and the search looks at these two at   *)
(* different moments: at the block it is at, and, once it has moved on, at *)
(* ibcs_malloc_p.  (A handler that calls ibcs_malloc itself waits for the  *)
(* semaphore for ever: see Lcall.)                                         *)
(***************************************************************************)
EXTENDS Integers, FiniteSets

CONSTANTS
    Sizes,      \* the byte counts callers ask for
    HdrSize,    \* sizeof(struct ibcs_malloc_hdr)
    BrkLimit,   \* the highest program break the kernel grants
    Handlers    \* TRUE when handlers run in the middle of ibcs_malloc

ASSUME SizesAssumption == Sizes \subseteq Nat
ASSUME HdrSizeAssumption == HdrSize \in Nat \ {0}
ASSUME BrkLimitAssumption == BrkLimit \in Nat
ASSUME HandlersAssumption == Handlers \in BOOLEAN

Addr == 0 .. BrkLimit
NULL == -1

VARIABLES
    hdr,        \* memory, as headers
    brk,        \* the kernel's program break
    first,      \* ibcs_malloc_first
    last,       \* ibcs_malloc_last
    cursor,     \* ibcs_malloc_p
    call,       \* the ibcs_malloc in progress, or Idle: its wanted and p,
                \* where it is, and whether a free came in between (history)
    live,       \* live[a]: the units promised to the owner of block a, or 0
    state       \* "running"; "fatal" or "fault" once the process has ended

mallocVars == <<hdr, brk, first, last, cursor, call, live, state>>

Idle == [wanted |-> 0, p |-> NULL, at |-> "idle", freed |-> FALSE]

(* wanted, as the first statement of ibcs_malloc rounds it: whole headers, *)
(* and one more for the header in front of the block.                      *)
Units(bytes) == (bytes + HdrSize - 1) \div HdrSize + 1

MallocInit ==
    /\ hdr = [a \in Addr |-> [next |-> 0, busy |-> FALSE]]
    /\ brk = 0
    /\ first = NULL /\ last = NULL /\ cursor = NULL
    /\ call = Idle
    /\ live = [a \in Addr |-> 0]
    /\ state = "running"

(* The first call takes the present break as the start of the list.        *)
MallocFirst(bytes) ==
    /\ state = "running" /\ call = Idle
    /\ cursor = NULL
    /\ first' = brk /\ last' = brk /\ cursor' = brk
    /\ call' = [wanted |-> Units(bytes), p |-> brk, at |-> "grow", freed |-> FALSE]
    /\ UNCHANGED <<hdr, brk, live, state>>

(* Every later call searches from where the last one stopped.              *)
Malloc(bytes) ==
    /\ state = "running" /\ call = Idle
    /\ cursor # NULL
    /\ call' = [wanted |-> Units(bytes), p |-> cursor, at |-> "look", freed |-> FALSE]
    /\ UNCHANGED <<hdr, brk, first, last, cursor, live, state>>

Looking == state = "running" /\ call.at = "look"
Free(a) == ~hdr[a].busy
Size(a) == hdr[a].next - a

(* The search moves on from a block that is of no use.                     *)
Advance == call' = [call EXCEPT !.p = hdr[call.p].next, !.at = "test"]

(* Mutant: the search ends at the start of the list.                       *)
ScanTestToFirst ==
    /\ state = "running" /\ call.at = "test"
    /\ call' = IF call.p # first THEN [call EXCEPT !.at = "look"]
               ELSE [call EXCEPT !.at = "grow",
                                 !.p = IF last + 1 = brk THEN last ELSE brk]
    /\ UNCHANGED <<hdr, brk, first, last, cursor, live, state>>

(* It ends when it is back at ibcs_malloc_p: then p becomes the break, or  *)
(* the end marker when that is adjacent to it.                             *)
ScanTest ==
    /\ state = "running" /\ call.at = "test"
    /\ call' = IF call.p # cursor THEN [call EXCEPT !.at = "look"]
               ELSE [call EXCEPT !.at = "grow",
                                 !.p = IF last + 1 = brk THEN last ELSE brk]
    /\ UNCHANGED <<hdr, brk, first, last, cursor, live, state>>

ScanBusy ==
    /\ Looking
    /\ ~Free(call.p)
    /\ Advance
    /\ UNCHANGED <<hdr, brk, first, last, cursor, live, state>>

(* Mutant: the busy bit of the next block is not looked at.                *)
CoalesceBusy ==
    /\ Looking
    /\ Free(call.p) /\ hdr[call.p].next # last
    /\ hdr' = [hdr EXCEPT ![call.p].next = hdr[hdr[call.p].next].next]
    /\ UNCHANGED <<brk, first, last, cursor, call, live, state>>

Coalesce ==
    /\ Looking
    /\ Free(call.p) /\ Free(hdr[call.p].next)
    /\ hdr' = [hdr EXCEPT ![call.p].next = hdr[hdr[call.p].next].next]
    /\ UNCHANGED <<brk, first, last, cursor, call, live, state>>

ScanSmall ==
    /\ Looking
    /\ Free(call.p) /\ ~Free(hdr[call.p].next)
    /\ Size(call.p) < call.wanted
    /\ Advance
    /\ UNCHANGED <<hdr, brk, first, last, cursor, live, state>>

(* Mutant: the remainder of a split is not linked back into the list.      *)
ScanFitUnlinked ==
    LET p == call.p
        end == p + call.wanted
    IN  /\ Looking
        /\ Free(p) /\ ~Free(hdr[p].next)
        /\ Size(p) >= call.wanted
        /\ hdr' = [hdr EXCEPT ![p] = [next |-> end, busy |-> TRUE]]
        /\ cursor' = end
        /\ live' = [live EXCEPT ![p] = call.wanted]
        /\ call' = Idle
        /\ UNCHANGED <<brk, first, last, state>>

(* A large enough block is split if it is larger than wanted.              *)
ScanFit ==
    LET p == call.p
        end == p + call.wanted
    IN  /\ Looking
        /\ Free(p) /\ ~Free(hdr[p].next)
        /\ Size(p) >= call.wanted
        /\ hdr' = IF Size(p) = call.wanted
                  THEN [hdr EXCEPT ![p].busy = TRUE]
                  ELSE [hdr EXCEPT ![end] = [next |-> hdr[p].next, busy |-> FALSE],
                                   ![p] = [next |-> end, busy |-> TRUE]]
        /\ cursor' = end
        /\ live' = [live EXCEPT ![p] = call.wanted]
        /\ call' = Idle
        /\ UNCHANGED <<brk, first, last, state>>

(* The kernel moves the break.  The new block and the new end marker go on *)
(* the list.                                                               *)
Grow ==
    LET p == call.p
        n == p + call.wanted
    IN  /\ state = "running" /\ call.at = "grow"
        /\ n + 1 <= BrkLimit
        /\ brk' = n + 1
        /\ hdr' = [hdr EXCEPT ![last] = [next |-> n, busy |-> TRUE],
                              ![p] = [next |-> n, busy |-> TRUE],
                              ![n] = [next |-> first, busy |-> TRUE]]
        /\ last' = n
        /\ live' = [live EXCEPT ![p] = call.wanted]
        /\ call' = Idle
        /\ UNCHANGED <<first, cursor, state>>

(* The kernel refuses: brk() returns the break as it was.  The size check  *)
(* sees a block of no units and ends the process, but on the first call p  *)
(* is the break itself, the size is -1 as a size_t, the check passes, and  *)
(* the header is written above the break.                                  *)
GrowRefused ==
    /\ state = "running" /\ call.at = "grow"
    /\ state' = IF call.p < brk THEN "fatal" ELSE "fault"
    /\ UNCHANGED <<hdr, brk, first, last, cursor, call, live>>

(* ibcs_free, between two calls of ibcs_malloc or in the middle of one.    *)
IbcsFree(a) ==
    /\ state = "running" /\ (call = Idle \/ Handlers)
    /\ live[a] > 0
    /\ hdr' = [hdr EXCEPT ![a].busy = FALSE]
    /\ cursor' = a
    /\ live' = [live EXCEPT ![a] = 0]
    /\ call' = IF call = Idle THEN Idle ELSE [call EXCEPT !.freed = TRUE]
    /\ UNCHANGED <<brk, first, last, state>>

Ended == state # "running" /\ UNCHANGED mallocVars

Scan == ScanBusy \/ Coalesce \/ ScanSmall \/ ScanFit \/ ScanTest

MallocNext ==
    \/ \E bytes \in Sizes : MallocFirst(bytes) \/ Malloc(bytes)
    \/ \E a \in Addr : IbcsFree(a)
    \/ Scan \/ Grow \/ GrowRefused \/ Ended

MallocSpec == MallocInit /\ [][MallocNext]_mallocVars

(* A search that has started is run by the processor to its end.           *)
MallocFairSpec == MallocSpec /\ WF_mallocVars(Scan \/ Grow \/ GrowRefused)
-----------------------------------------------------------------------------
(* The headers met from address a to the end marker, as long as they are   *)
(* in ascending order.                                                     *)
Chain == LET from[a \in Addr] ==
                 {a} \cup (IF hdr[a].next > a THEN from[hdr[a].next] ELSE {})
         IN  IF brk = 0 THEN {} ELSE from[first]

(* check_malloc_chain, ibcs-lib.c:1033-1046: the list ascends from         *)
(* ibcs_malloc_first to ibcs_malloc_last and closes there; the end marker  *)
(* is the last word below the break.                                       *)
ChainAscends ==
    brk # 0 => /\ last \in Chain
               /\ hdr[last] = [next |-> first, busy |-> TRUE]
               /\ last + 1 = brk

(* A block handed out is on the list, busy, and reaches as far as was      *)
(* asked for before the next block starts: no two owners share memory and  *)
(* nobody owns a header.  And nothing leaks: every busy block below the    *)
(* end marker has an owner.                                                *)
OwnersExact ==
    /\ \A a \in Addr : live[a] > 0 =>
          a \in Chain /\ ~Free(a) /\ Size(a) = live[a]
    /\ \A a \in Chain : ~Free(a) /\ a # last => live[a] > 0

(* A request that fits into a free block, or into two neighbouring ones,   *)
(* does not make the break grow: the search looks at every block once.     *)
(* That is promised to a search no free came into.  A free in the middle   *)
(* of one moves ibcs_malloc_p, where the search ends, and may free a block *)
(* already passed: that search gives up before it has seen every block.    *)
GrowOnlyWhenFull ==
    [][brk' > brk /\ brk > 0 /\ ~call.freed =>
          \A a \in Chain : Free(a) => Size(a) < call.wanted /\ ~Free(hdr[a].next)]_mallocVars

(* The search "scans every allocated block looking for a free one of the   *)
(* right size" and then gives up.                                          *)
SearchEnds == (call # Idle) ~> (call = Idle \/ state # "running")
=============================================================================
