---------------------------- MODULE ShortInodeLru ----------------------------
(***************************************************************************)
(* What ibcs/short-inode.c promises (its comment at lines 20-25): a map    *)
(* from inodes to short inodes that is remembered, and whose entries are   *)
(* reallocated on a least recently used basis once all are in use.  There  *)
(* are no hash rings here, and which free entry a new inode gets is left   *)
(* open.                                                                   *)
(***************************************************************************)
EXTENDS Integers, Sequences, FiniteSets, Functions

CONSTANTS Slots, Mapped, Unmapped, Base, NotGiven, Free

VARIABLES
    owner,      \* owner[s]: the inode that owns slot s, or Free
    order,      \* the slots, least recently used first
    given       \* given[i]: the last answer for inode i

vars == <<owner, order, given>>

Init ==
    /\ owner = [s \in Slots |-> Free]
    /\ order \in Injection(1 .. Cardinality(Slots), Slots)
    /\ given = [i \in Mapped \cup Unmapped |-> NotGiven]

(* Slot s, wherever it is in the order, becomes the most recently used.    *)
Use(s, i) ==
    /\ \E p \in 1 .. Len(order) :
          /\ order[p] = s
          /\ order' = SubSeq(order, 1, p - 1) \o SubSeq(order, p + 1, Len(order))
                         \o <<s>>
    /\ given' = [given EXCEPT ![i] = s + Base]

Known(i) ==
    \E s \in Slots : owner[s] = i /\ Use(s, i) /\ UNCHANGED owner

Unknown(i) ==
    /\ \A s \in Slots : owner[s] # i
    /\ \E s \in Slots :
          /\ \/ owner[s] = Free
             \/ s = Head(order) /\ \A x \in Slots : owner[x] # Free
          /\ owner' = [owner EXCEPT ![s] = i]
          /\ Use(s, i)

Special(i) == given' = [given EXCEPT ![i] = i] /\ UNCHANGED <<owner, order>>

Next == \/ \E i \in Mapped : Known(i) \/ Unknown(i)
        \/ \E i \in Unmapped : Special(i)

Spec == Init /\ [][Next]_vars
=============================================================================
