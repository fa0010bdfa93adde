----------------------------- MODULE ShortInode -----------------------------
(***************************************************************************)
(* The 32 to 16 bit inode map of ibcs/short-inode.c.                       *)
(*                                                                         *)
(* short_inode_table is an array of SHORT_INODE_MAX slots threaded by two  *)
(* families of circular doubly linked lists: one LRU ring through every    *)
(* slot, and hash rings through the slots in use.  The table starts zero   *)
(* filled and an entry gets its LRU links only when it is first touched    *)
(* (short_inode_lazy_init), so an entry whose ino is 0 stands for one      *)
(* linked to its two neighbours.                                           *)
(*                                                                         *)
(* A call holds short_inode_sem from the hash probe to the last LRU link.  *)
(* It is one step, except for the walk along the hash ring, which takes    *)
(* one step per iteration because nothing in the code bounds it.           *)
(* The table is there: without it nothing is mapped and there is no state. *)
(***************************************************************************)
EXTENDS Integers, FiniteSets

CONSTANTS
    SHORT_INODE_MAX,        \* slots in the table
    SHORT_INODE_UNMAPPED,   \* inodes 0..SHORT_INODE_UNMAPPED are not mapped
    Inodes,                 \* the inode numbers the emulated program meets
    HashVal                 \* short_inode_hashval, see ShortInodeHash

Slot == 0 .. SHORT_INODE_MAX - 1
MappedInodes == {i \in Inodes : i > SHORT_INODE_UNMAPPED}

ASSUME MaxAssumption == SHORT_INODE_MAX \in Nat /\ SHORT_INODE_MAX >= 2
ASSUME UnmappedAssumption == SHORT_INODE_UNMAPPED \in Nat
ASSUME InodesAssumption == Inodes \subseteq Nat
ASSUME HashAssumption == HashVal \in [MappedInodes -> Slot]

ZERO == 0                           \* the ino of an entry never written
SHORT_INODE_UNUSED == -1
IsUnused(ino) == ino \in {ZERO, SHORT_INODE_UNUSED}

Element == [ino : MappedInodes \cup {ZERO, SHORT_INODE_UNUSED},
            lru_prev : Slot, lru_next : Slot,
            hash_prev : Slot, hash_next : Slot]

VARIABLES
    table,      \* short_inode_table
    oldest,     \* short_inode_oldest
    walk,       \* the call walking a hash ring: [ino, first, si], or NoWalk
    given       \* given[i]: what the last short_inode_map(i) returned

vars == <<table, oldest, walk, given>>

NoWalk == [ino |-> ZERO, first |-> 0, si |-> 0]
NotGiven == -1
-----------------------------------------------------------------------------
(* The helpers of short-inode.c, as functions of the table they update.    *)

LazyInit(t, e) ==
    IF t[e].ino # ZERO THEN t
    ELSE [t EXCEPT ![e] =
             [@ EXCEPT !.ino = SHORT_INODE_UNUSED,
                       !.lru_prev = (e + SHORT_INODE_MAX - 1) % SHORT_INODE_MAX,
                       !.lru_next = (e + 1) % SHORT_INODE_MAX]]

(* Mutant: only prev is initialised.                                       *)
LruJoinNotLazy(t, prev, next) ==
    [LazyInit(t, prev) EXCEPT ![prev].lru_next = next, ![next].lru_prev = prev]

LruJoin(t, prev, next) ==
    [LazyInit(LazyInit(t, prev), next) EXCEPT ![prev].lru_next = next,
                                              ![next].lru_prev = prev]

(* Mutant: the back link is forgotten.                                     *)
HashJoinOneWay(t, prev, next) == [t EXCEPT ![prev].hash_next = next]

HashJoin(t, prev, next) == [t EXCEPT ![prev].hash_next = next,
                                     ![next].hash_prev = prev]

HashFree(t, i) ==
    IF IsUnused(t[i].ino) THEN t
    ELSE HashJoin(t, t[i].hash_prev, t[i].hash_next)

(* Mutant: short_inode_oldest is left on the entry removed.                *)
OldestStays(t, o, i) == o

(* short_inode_lru_free moves short_inode_oldest off the entry it removes. *)
OldestWithout(t, o, i) == IF i = o THEN t[i].lru_next ELSE o
LruFree(t, i) == LruJoin(t, t[i].lru_prev, t[i].lru_next)

(* Mutant: the entry stays where it is on the LRU ring.                    *)
MoveNowhere(t, o, si) == t

(* The tail of short_inode_map: si becomes the most recently used entry.   *)
MoveToEnd(t, o, si) ==
    LET t1 == LazyInit(LruFree(t, si), o)
    IN  LruJoin(LruJoin(t1, t1[o].lru_prev, si), si, o)

(* The entry taken for an inode that its hash ring lacks; si is the entry  *)
(* the walk stopped at.                                                    *)
Reallocate(t, new, si, ino) ==
    LET t1 == HashFree(LazyInit(t, new), new)
        t2 == HashJoin(t1, new, t1[si].hash_next)
    IN  [HashJoin(t2, si, new) EXCEPT ![new].ino = ino]
-----------------------------------------------------------------------------
Init ==
    /\ table = [s \in Slot |-> [ino |-> ZERO, lru_prev |-> 0, lru_next |-> 0,
                                hash_prev |-> 0, hash_next |-> 0]]
    /\ oldest = 0
    /\ walk = NoWalk
    /\ given = [i \in Inodes |-> NotGiven]

(* Mutant: the answer is off by one.                                       *)
FinishOffByOne(t, si, ino) ==
    LET o == OldestWithout(t, oldest, si)
    IN  /\ oldest' = o
        /\ table' = MoveToEnd(t, o, si)
        /\ walk' = NoWalk
        /\ given' = [given EXCEPT ![ino] = si + SHORT_INODE_UNMAPPED + 2]

(* The end of every mapped call: t is the table with entry si owned by ino. *)
Finish(t, si, ino) ==
    LET o == OldestWithout(t, oldest, si)
    IN  /\ oldest' = o
        /\ table' = MoveToEnd(t, o, si)
        /\ walk' = NoWalk
        /\ given' = [given EXCEPT ![ino] = si + SHORT_INODE_UNMAPPED + 1]

(* Inodes 0, 1 and 2 are returned unchanged.                               *)
MapUnmapped(ino) ==
    /\ walk = NoWalk
    /\ ino \notin MappedInodes
    /\ given' = [given EXCEPT ![ino] = ino]
    /\ UNCHANGED <<table, oldest, walk>>

(* Mutants: the slot's owner is not looked at; the new ring is not closed. *)
MapHomeSteal(ino) ==
    LET si == HashVal[ino]
    IN  /\ walk = NoWalk
        /\ ino \in MappedInodes
        /\ Finish(HashJoin([LazyInit(table, si) EXCEPT ![si].ino = ino], si, si),
                  si, ino)
MapHomeOpenRing(ino) ==
    LET si == HashVal[ino]
    IN  /\ walk = NoWalk
        /\ ino \in MappedInodes
        /\ IsUnused(table[si].ino)
        /\ Finish([LazyInit(table, si) EXCEPT ![si].ino = ino], si, ino)

(* The hash slot is free: it becomes a hash ring of its own.               *)
MapHomeFree(ino) ==
    LET si == HashVal[ino]
    IN  /\ walk = NoWalk
        /\ ino \in MappedInodes
        /\ IsUnused(table[si].ino)
        /\ Finish(HashJoin([LazyInit(table, si) EXCEPT ![si].ino = ino], si, si),
                  si, ino)

MapHomeHit(ino) ==
    /\ walk = NoWalk
    /\ ino \in MappedInodes
    /\ table[HashVal[ino]].ino = ino
    /\ Finish(table, HashVal[ino], ino)

(* Mutant: a while loop, which never leaves the first entry.               *)
MapCollideWhile(ino) ==
    LET si == HashVal[ino]
    IN  /\ walk = NoWalk
        /\ ino \in MappedInodes
        /\ ~IsUnused(table[si].ino)
        /\ table[si].ino # ino
        /\ walk' = [ino |-> ino, first |-> si, si |-> si]
        /\ UNCHANGED <<table, oldest, given>>

(* The hash slot is taken: the first iteration of the do loop.             *)
MapCollide(ino) ==
    LET si == HashVal[ino]
    IN  /\ walk = NoWalk
        /\ ino \in MappedInodes
        /\ ~IsUnused(table[si].ino)
        /\ table[si].ino # ino
        /\ walk' = [ino |-> ino, first |-> si, si |-> table[si].hash_next]
        /\ UNCHANGED <<table, oldest, given>>

WalkOn ==
    /\ walk # NoWalk
    /\ walk.si # walk.first
    /\ table[walk.si].ino # walk.ino
    /\ walk' = [walk EXCEPT !.si = table[walk.si].hash_next]
    /\ UNCHANGED <<table, oldest, given>>

WalkHit ==
    /\ walk # NoWalk
    /\ table[walk.si].ino = walk.ino
    /\ Finish(table, walk.si, walk.ino)

WalkMiss ==
    /\ walk # NoWalk
    /\ walk.si = walk.first
    /\ table[walk.si].ino # walk.ino
    /\ Finish(Reallocate(table, oldest, walk.si, walk.ino), oldest, walk.ino)

Call(ino) == MapUnmapped(ino) \/ MapHomeFree(ino) \/ MapHomeHit(ino)
                \/ MapCollide(ino)
Walk == WalkOn \/ WalkHit \/ WalkMiss

Next == (\E ino \in Inodes : Call(ino)) \/ Walk

Spec == Init /\ [][Next]_vars

(* A call that has started runs on: the process is in the walk's loop and  *)
(* the kernel keeps scheduling it.  No inode has to be asked for.          *)
FairSpec == Spec /\ WF_vars(Walk)
-----------------------------------------------------------------------------
(* The LRU links an entry of table t stands for, touched or not.           *)
NextOf(t, s) == IF t[s].ino = ZERO THEN (s + 1) % SHORT_INODE_MAX
                                   ELSE t[s].lru_next
PrevOf(t, s) == IF t[s].ino = ZERO
                THEN (s + SHORT_INODE_MAX - 1) % SHORT_INODE_MAX
                ELSE t[s].lru_prev
LruNext(s) == NextOf(table, s)
LruPrev(s) == PrevOf(table, s)
InUse(s) == ~IsUnused(table[s].ino)

(* Every field, short_inode_oldest included, is an index into the table    *)
(* and every answer is a 16 bit number.                                    *)
TypeOK ==
    /\ table \in [Slot -> Element]
    /\ oldest \in Slot
    /\ walk \in {NoWalk} \cup [ino : MappedInodes, first : Slot, si : Slot]
    /\ given \in [Inodes -> {NotGiven} \cup
                            0 .. SHORT_INODE_MAX + SHORT_INODE_UNMAPPED]

(* The two LRU links of every entry agree, whatever mixture of touched and *)
(* untouched entries short_inode_lru_join stitched together.               *)
LruInverse ==
    \A s \in Slot : LruPrev(LruNext(s)) = s /\ LruNext(LruPrev(s)) = s

(* The entries in use are the most recently used ones: past the first of   *)
(* them on the LRU ring, starting at short_inode_oldest, all are in use.   *)
(* So short_inode_oldest is free as long as any entry is.                  *)
UnusedAreOldest ==
    \A s \in Slot : InUse(s) => InUse(LruNext(s)) \/ LruNext(s) = oldest

(* short_inode_hash_join keeps the hash links of the entries in use        *)
(* inverse to each other.                                                  *)
HashInverse ==
    \A s \in Slot : InUse(s) =>
        /\ InUse(table[s].hash_next) /\ table[table[s].hash_next].hash_prev = s
        /\ InUse(table[s].hash_prev) /\ table[table[s].hash_prev].hash_next = s

(* Two inodes the program has asked about are never given the same number. *)
Injective ==
    \A i, j \in Inodes :
        given[i] = given[j] /\ given[i] # NotGiven => i = j

(* A mapping the program has been told about never changes.                *)
Stable ==
    [][\A i \in Inodes : given[i] # NotGiven => given'[i] = given[i]]_given

(* Every call that walks a hash ring comes back.                           *)
WalkReturns == (walk # NoWalk) ~> (walk = NoWalk)
-----------------------------------------------------------------------------
(* The hash rings and the LRU ring as an implementation of ShortInodeLru.  *)

(* The slots in LRU order, read off the ring from short_inode_oldest.      *)
LruOrder ==
    LET ring[n \in 1 .. SHORT_INODE_MAX] ==
            IF n = 1 THEN oldest ELSE LruNext(ring[n - 1])
    IN  ring

(* The inode that owns each slot, or ZERO.                                 *)
Owner == [s \in Slot |-> IF InUse(s) THEN table[s].ino ELSE ZERO]

Lru == INSTANCE ShortInodeLru WITH
           Slots <- Slot, Mapped <- MappedInodes,
           Unmapped <- Inodes \ MappedInodes,
           Base <- SHORT_INODE_UNMAPPED + 1, Free <- ZERO,
           owner <- Owner, order <- LruOrder

(* As long as the program meets no more inodes than there are slots, the   *)
(* two ring structures implement the plain least recently used map.        *)
LruSpec == Lru!Spec
=============================================================================
