-------------------------- MODULE ShortInodeProofs --------------------------
(***************************************************************************)
(* Proofs about ShortInode for every table size of at least two slots,     *)
(* every set of inodes (more than there are slots too) and every hash      *)
(* function.                                                               *)
(***************************************************************************)
EXTENDS ShortInode, Sequences, FiniteSetTheorems, WellFoundedInduction, NaturalsInduction, TLAPS

Table == [Slot -> Element]

(* The LRU links of table t, untouched entries included, are inverse.      *)
LinksInvert(t) ==
    \A s \in Slot : PrevOf(t, NextOf(t, s)) = s /\ NextOf(t, PrevOf(t, s)) = s

(* Stepping round the table stays in it, and back undoes forth.            *)
LEMMA RoundTrip ==
    ASSUME NEW s \in Slot
    PROVE  /\ (s + 1) % SHORT_INODE_MAX \in Slot
           /\ (s + SHORT_INODE_MAX - 1) % SHORT_INODE_MAX \in Slot
           /\ (((s + 1) % SHORT_INODE_MAX) + SHORT_INODE_MAX - 1) % SHORT_INODE_MAX = s
           /\ (((s + SHORT_INODE_MAX - 1) % SHORT_INODE_MAX) + 1) % SHORT_INODE_MAX = s
<1> DEFINE M == SHORT_INODE_MAX
<1>1. M \in Nat /\ M >= 2 /\ s \in Nat /\ s < M
  BY MaxAssumption DEF Slot
<1>2. (s + 1) % M = IF s = M - 1 THEN 0 ELSE s + 1
  BY <1>1, SMT
<1>3. (s + M - 1) % M = IF s = 0 THEN M - 1 ELSE s - 1
  BY <1>1, SMT
<1>4. ((IF s = M - 1 THEN 0 ELSE s + 1) + M - 1) % M = s
  BY <1>1, SMT
<1>5. ((IF s = 0 THEN M - 1 ELSE s - 1) + 1) % M = s
  BY <1>1, SMT
<1> QED
  BY <1>1, <1>2, <1>3, <1>4, <1>5 DEF Slot

(* The LRU links are slots.                                                *)
LEMMA LinksTyped ==
    ASSUME NEW t \in Table, NEW s \in Slot
    PROVE  NextOf(t, s) \in Slot /\ PrevOf(t, s) \in Slot
BY RoundTrip DEF Table, Element, NextOf, PrevOf

(* short_inode_lazy_init changes no LRU link an entry stands for.          *)
LEMMA LazyInitKeeps ==
    ASSUME NEW t \in Table, NEW e \in Slot
    PROVE  /\ LazyInit(t, e) \in Table
           /\ LazyInit(t, e)[e].ino # ZERO
           /\ \A s \in Slot :
                 /\ NextOf(LazyInit(t, e), s) = NextOf(t, s)
                 /\ PrevOf(LazyInit(t, e), s) = PrevOf(t, s)
                 /\ ~(t[s].ino = ZERO) => LazyInit(t, e)[s].ino = t[s].ino
                 /\ IsUnused(LazyInit(t, e)[s].ino) <=> IsUnused(t[s].ino)
<1>1. CASE t[e].ino # ZERO
  BY <1>1 DEF LazyInit
<1>2. CASE t[e].ino = ZERO
  <2> DEFINE u == LazyInit(t, e)
  <2> DEFINE r == [t[e] EXCEPT
                     !.ino = SHORT_INODE_UNUSED,
                     !.lru_prev = (e + SHORT_INODE_MAX - 1) % SHORT_INODE_MAX,
                     !.lru_next = (e + 1) % SHORT_INODE_MAX]
  <2>1. u = [t EXCEPT ![e] = r]
    BY <1>2 DEF LazyInit
  <2>0. t[e] \in Element
    BY DEF Table
  <2>7. r \in Element
    BY <2>0, RoundTrip DEF Element
  <2>2. u \in Table
    BY <2>1, <2>7 DEF Table
  <2>3. u[e].ino = SHORT_INODE_UNUSED /\ SHORT_INODE_UNUSED # ZERO
    BY <2>1 DEF Table, Element, ZERO, SHORT_INODE_UNUSED
  <2>4. \A s \in Slot : s # e => u[s] = t[s]
    BY <2>1 DEF Table
  <2>5. NextOf(u, e) = NextOf(t, e) /\ PrevOf(u, e) = PrevOf(t, e)
    BY <2>1, <2>3, <1>2 DEF NextOf, PrevOf, Table, Element
  <2>6. IsUnused(u[e].ino) /\ IsUnused(t[e].ino)
    BY <2>3, <1>2 DEF IsUnused
  <2> QED
    BY <2>2, <2>3, <2>4, <2>5, <2>6, <1>2 DEF NextOf, PrevOf
<1> QED
  BY <1>1, <1>2

(* Writing one field of one entry.                                         *)
LEMMA SetNext ==
    ASSUME NEW t \in Table, NEW p \in Slot, NEW n \in Slot
    PROVE  LET u == [t EXCEPT ![p].lru_next = n]
           IN  /\ u \in Table
               /\ u[p].lru_next = n
               /\ \A s \in Slot : s # p => u[s].lru_next = t[s].lru_next
               /\ \A s \in Slot : u[s].lru_prev = t[s].lru_prev /\ u[s].ino = t[s].ino
<1> DEFINE r == [t[p] EXCEPT !.lru_next = n]
<1>1. t[p] \in Element
  BY DEF Table
<1>2. r \in Element /\ r.lru_next = n /\ r.lru_prev = t[p].lru_prev /\ r.ino = t[p].ino
  BY <1>1 DEF Element
<1>3. [t EXCEPT ![p] = r] \in Table
  BY <1>2 DEF Table
<1> QED
  BY <1>2, <1>3 DEF Table

(* Writing one lru_prev link of a touched entry moves only that link.       *)
LEMMA SetPrev ==
    ASSUME NEW t \in Table, NEW p \in Slot, NEW n \in Slot
    PROVE  LET u == [t EXCEPT ![n].lru_prev = p]
           IN  /\ u \in Table
               /\ u[n].lru_prev = p
               /\ \A s \in Slot : s # n => u[s].lru_prev = t[s].lru_prev
               /\ \A s \in Slot : u[s].lru_next = t[s].lru_next /\ u[s].ino = t[s].ino
<1> DEFINE r == [t[n] EXCEPT !.lru_prev = p]
<1>1. t[n] \in Element
  BY DEF Table
<1>2. r \in Element /\ r.lru_prev = p /\ r.lru_next = t[n].lru_next /\ r.ino = t[n].ino
  BY <1>1 DEF Element
<1>3. [t EXCEPT ![n] = r] \in Table
  BY <1>2 DEF Table
<1> QED
  BY <1>2, <1>3 DEF Table

(* short_inode_lru_join changes two links and no owner.                    *)
LEMMA LruJoinLinks ==
    ASSUME NEW t \in Table, NEW p \in Slot, NEW n \in Slot
    PROVE  LET u == LruJoin(t, p, n)
           IN  /\ u \in Table
               /\ u[p].ino # ZERO /\ u[n].ino # ZERO
               /\ \A s \in Slot :
                     /\ NextOf(u, s) = IF s = p THEN n ELSE NextOf(t, s)
                     /\ PrevOf(u, s) = IF s = n THEN p ELSE PrevOf(t, s)
                     /\ ~(t[s].ino = ZERO) => u[s].ino = t[s].ino
                     /\ IsUnused(u[s].ino) <=> IsUnused(t[s].ino)
<1> DEFINE t1 == LazyInit(t, p)
           t2 == LazyInit(t1, n)
           t3 == [t2 EXCEPT ![p].lru_next = n]
           t4 == [t3 EXCEPT ![n].lru_prev = p]
<1>1. /\ t1 \in Table /\ t1[p].ino # ZERO
      /\ \A s \in Slot : /\ NextOf(t1, s) = NextOf(t, s)
                         /\ PrevOf(t1, s) = PrevOf(t, s)
                         /\ ~(t[s].ino = ZERO) => t1[s].ino = t[s].ino
                         /\ IsUnused(t1[s].ino) <=> IsUnused(t[s].ino)
  BY LazyInitKeeps
<1> HIDE DEF t1
<1>2. /\ t2 \in Table /\ t2[p].ino # ZERO /\ t2[n].ino # ZERO
      /\ \A s \in Slot : /\ NextOf(t2, s) = NextOf(t1, s)
                         /\ PrevOf(t2, s) = PrevOf(t1, s)
                         /\ ~(t1[s].ino = ZERO) => t2[s].ino = t1[s].ino
                         /\ IsUnused(t2[s].ino) <=> IsUnused(t1[s].ino)
  BY <1>1, LazyInitKeeps
<1> HIDE DEF t2
<1>3. /\ t3 \in Table /\ t3[p].lru_next = n
      /\ \A s \in Slot : s # p => t3[s].lru_next = t2[s].lru_next
      /\ \A s \in Slot : t3[s].lru_prev = t2[s].lru_prev /\ t3[s].ino = t2[s].ino
  BY <1>2, SetNext
<1> HIDE DEF t3
<1>4. /\ t4 \in Table /\ t4[n].lru_prev = p
      /\ \A s \in Slot : s # n => t4[s].lru_prev = t3[s].lru_prev
      /\ \A s \in Slot : t4[s].lru_next = t3[s].lru_next /\ t4[s].ino = t3[s].ino
  <2>1. t3 \in Table
    BY <1>3
  <2> QED
    BY <2>1, SetPrev
<1>5. LruJoin(t, p, n) = t4
  BY DEF LruJoin, t1, t2, t3
<1> HIDE DEF t4
<1>6. \A s \in Slot : NextOf(t4, s) = IF s = p THEN n ELSE NextOf(t2, s)
  BY <1>2, <1>3, <1>4 DEF NextOf
<1>7. \A s \in Slot : PrevOf(t4, s) = IF s = n THEN p ELSE PrevOf(t2, s)
  BY <1>2, <1>3, <1>4 DEF PrevOf
<1>8. \A s \in Slot : t4[s].ino = t2[s].ino
  BY <1>3, <1>4
<1>9. \A s \in Slot : /\ ~(t[s].ino = ZERO) => t4[s].ino = t[s].ino
                     /\ IsUnused(t4[s].ino) <=> IsUnused(t[s].ino)
  BY <1>1, <1>2, <1>8
<1> QED
  BY <1>1, <1>2, <1>4, <1>5, <1>6, <1>7, <1>8, <1>9

(* The entries in use follow each other on the LRU ring of t up to o.      *)
Suffix(t, o) ==
    \A s \in Slot : ~IsUnused(t[s].ino) =>
        ~IsUnused(t[NextOf(t, s)].ino) \/ NextOf(t, s) = o

(* The successor of s once si has been moved to just before o.             *)
Moved(t, o, si, s) ==
    LET a == NextOf(t, si)
        b == PrevOf(t, si)
        z == IF o = a THEN b ELSE PrevOf(t, o)
    IN  IF s = si THEN o ELSE IF s = z THEN si ELSE IF s = b THEN a
        ELSE NextOf(t, s)

(* The tail of short_inode_map keeps the LRU ring well formed.  T is the   *)
(* table before the call and t the same one with entry si owned.           *)
LEMMA MoveToEndKeeps ==
    ASSUME NEW T \in Table, NEW t \in Table, NEW o0 \in Slot, NEW si \in Slot,
           ~IsUnused(t[si].ino), LinksInvert(T), Suffix(T, o0),
           \A s \in Slot :
              /\ NextOf(t, s) = NextOf(T, s)
              /\ PrevOf(t, s) = PrevOf(T, s)
              /\ s # si => (IsUnused(t[s].ino) <=> IsUnused(T[s].ino))
    PROVE  LET o == OldestWithout(t, o0, si)
               u == MoveToEnd(t, o, si)
           IN  /\ o \in Slot /\ u \in Table /\ LinksInvert(u) /\ Suffix(u, o)
               /\ \A s \in Slot : NextOf(u, s) = Moved(t, o, si, s)
<1> DEFINE o == OldestWithout(t, o0, si)
           a == NextOf(t, si)
           b == PrevOf(t, si)
           t1 == LruJoin(t, b, a)
           t2 == LazyInit(t1, o)
           z == PrevOf(t1, o)
           t3 == LruJoin(t2, z, si)
           t4 == LruJoin(t3, si, o)
<1>0. t[si].ino # ZERO
  BY DEF IsUnused
<1>1. /\ a \in Slot /\ b \in Slot /\ a = t[si].lru_next /\ b = t[si].lru_prev
      /\ o = (IF si = o0 THEN a ELSE o0) /\ o \in Slot
  BY <1>0, LinksTyped DEF OldestWithout, NextOf, PrevOf
<1>2. LinksInvert(t)
  BY LinksTyped DEF LinksInvert
<1> HIDE DEF o, a, b
<1>3. /\ t1 \in Table
      /\ \A s \in Slot :
            /\ NextOf(t1, s) = (IF s = b THEN a ELSE NextOf(t, s))
            /\ PrevOf(t1, s) = (IF s = a THEN b ELSE PrevOf(t, s))
            /\ IsUnused(t1[s].ino) <=> IsUnused(t[s].ino)
  <2>1. t \in Table /\ a \in Slot /\ b \in Slot
    BY <1>1
  <2> QED
    BY <2>1, LruJoinLinks
<1>4. z \in Slot
  BY <1>1, <1>3, LinksTyped
<1> HIDE DEF t1
<1>5. /\ t2 \in Table /\ t2[o].ino # ZERO
      /\ \A s \in Slot :
            /\ NextOf(t2, s) = NextOf(t1, s)
            /\ PrevOf(t2, s) = PrevOf(t1, s)
            /\ IsUnused(t2[s].ino) <=> IsUnused(t1[s].ino)
  <2>1. t1 \in Table /\ o \in Slot
    BY <1>1, <1>3
  <2> QED
    BY <2>1, LazyInitKeeps
<1> HIDE DEF t2
<1>6. z = t2[o].lru_prev
  BY <1>1, <1>5 DEF PrevOf
<1> HIDE DEF z
<1>7. /\ t3 \in Table
      /\ \A s \in Slot :
            /\ NextOf(t3, s) = (IF s = z THEN si ELSE NextOf(t2, s))
            /\ PrevOf(t3, s) = (IF s = si THEN z ELSE PrevOf(t2, s))
            /\ IsUnused(t3[s].ino) <=> IsUnused(t2[s].ino)
  BY <1>4, <1>5, LruJoinLinks
<1> HIDE DEF t3
<1>8. /\ t4 \in Table
      /\ \A s \in Slot :
            /\ NextOf(t4, s) = (IF s = si THEN o ELSE NextOf(t3, s))
            /\ PrevOf(t4, s) = (IF s = o THEN si ELSE PrevOf(t3, s))
            /\ IsUnused(t4[s].ino) <=> IsUnused(t3[s].ino)
  <2>1. t3 \in Table /\ si \in Slot /\ o \in Slot
    BY <1>1, <1>7
  <2> QED
    BY <2>1, LruJoinLinks
<1>9. MoveToEnd(t, o, si) = t4
  BY <1>1, <1>6 DEF MoveToEnd, LruFree, t1, t2, t3
<1> HIDE DEF t4
(* The ring after the move, in terms of the ring before it.                *)
<1>10. \A s \in Slot : NextOf(t4, s) = IF s = si THEN o ELSE IF s = z THEN si
                                       ELSE IF s = b THEN a ELSE NextOf(t, s)
  BY <1>3, <1>5, <1>7, <1>8
<1>11. \A s \in Slot : PrevOf(t4, s) = IF s = o THEN si ELSE IF s = si THEN z
                                       ELSE IF s = a THEN b ELSE PrevOf(t, s)
  BY <1>3, <1>5, <1>7, <1>8
<1>12. z = IF o = a THEN b ELSE PrevOf(t, o)
  BY <1>1, <1>3 DEF z
<1>13. NextOf(t, si) = a /\ PrevOf(t, si) = b /\ NextOf(t, b) = si /\ PrevOf(t, a) = si
  BY <1>2 DEF LinksInvert, a, b
<1>14. \A s \in Slot : NextOf(t, s) \in Slot /\ PrevOf(t, s) \in Slot
  BY LinksTyped
<1>15. LinksInvert(t4)
  <2> SUFFICES ASSUME NEW s \in Slot
               PROVE  PrevOf(t4, NextOf(t4, s)) = s /\ NextOf(t4, PrevOf(t4, s)) = s
    BY DEF LinksInvert
  <2>1. PrevOf(t, NextOf(t, s)) = s /\ NextOf(t, PrevOf(t, s)) = s
    BY <1>2 DEF LinksInvert
  <2>2. NextOf(t, PrevOf(t, o)) = o /\ PrevOf(t, NextOf(t, b)) = b
    BY <1>1, <1>2 DEF LinksInvert
  <2>3. PrevOf(t4, NextOf(t4, s)) = s
    BY <1>1, <1>4, <1>10, <1>11, <1>12, <1>13, <1>14, <2>1, <2>2
  <2>4. NextOf(t4, PrevOf(t4, s)) = s
    BY <1>1, <1>4, <1>10, <1>11, <1>12, <1>13, <1>14, <2>1, <2>2
  <2> QED
    BY <2>3, <2>4
<1>16. Suffix(t4, o)
  <2> SUFFICES ASSUME NEW s \in Slot, ~IsUnused(t4[s].ino)
               PROVE  ~IsUnused(t4[NextOf(t4, s)].ino) \/ NextOf(t4, s) = o
    BY DEF Suffix
  <2>1. \A x \in Slot : IsUnused(t4[x].ino) <=> IsUnused(t[x].ino)
    BY <1>3, <1>5, <1>7, <1>8
  <2>2. \A x \in Slot : ~IsUnused(T[x].ino) =>
                         ~IsUnused(t[NextOf(t, x)].ino) \/ NextOf(t, x) = o0
    BY <1>14 DEF Suffix
  <2>3. \A x \in Slot : NextOf(t, x) = NextOf(T, x)
    OBVIOUS
  <2>4. CASE s = si
    BY <2>4, <1>10
  <2>5. CASE s # si /\ s = z
    BY <2>5, <2>1, <1>10
  <2>6. CASE s # si /\ s # z /\ s = b
    <3>1. ~IsUnused(T[b].ino)
      BY <2>6, <2>1
    <3>2. ~IsUnused(T[si].ino) \/ si = o0
      BY <3>1, <1>1, <1>13, <2>3 DEF Suffix
    <3>3. ~IsUnused(t[a].ino) \/ a = o
      BY <3>2, <2>2, <1>1, <1>13
    <3> QED
      BY <3>3, <2>6, <2>1, <1>10, <1>1
  <2>7. CASE s # si /\ s # z /\ s # b
    <3>1. NextOf(t4, s) = NextOf(t, s) /\ ~IsUnused(T[s].ino)
      BY <2>7, <2>1, <1>10
    <3>2. ~IsUnused(t[NextOf(t, s)].ino) \/ NextOf(t, s) = o0
      BY <3>1, <2>2
    <3>3. NextOf(t, s) # si
      BY <2>7, <1>2, <1>13 DEF LinksInvert
    <3> QED
      BY <3>1, <3>2, <3>3, <2>1, <1>1, <1>14
  <2> QED
    BY <2>4, <2>5, <2>6, <2>7
<1>17. \A s \in Slot : NextOf(t4, s) = Moved(t, o, si, s)
  BY <1>10, <1>12 DEF Moved, a, b
<1> QED
  BY <1>1, <1>8, <1>9, <1>15, <1>16, <1>17 DEF o

(* t and u have the same LRU ring and owners.                              *)
SameLru(t, u) ==
    \A s \in Slot : /\ u[s].ino = t[s].ino
                    /\ u[s].lru_next = t[s].lru_next
                    /\ u[s].lru_prev = t[s].lru_prev

(* short_inode_hash_join and short_inode_hash_free leave the LRU alone.    *)
LEMMA HashJoinKeeps ==
    ASSUME NEW t \in Table, NEW p \in Slot, NEW n \in Slot
    PROVE  HashJoin(t, p, n) \in Table /\ SameLru(t, HashJoin(t, p, n))
<1> DEFINE r1 == [t[p] EXCEPT !.hash_next = n]
           t1 == [t EXCEPT ![p] = r1]
           r2 == [t1[n] EXCEPT !.hash_prev = p]
<1>1. t[p] \in Element
  BY DEF Table
<1>2. r1 \in Element /\ r1.ino = t[p].ino /\ r1.lru_next = t[p].lru_next
                     /\ r1.lru_prev = t[p].lru_prev
  BY <1>1 DEF Element
<1> HIDE DEF r1
<1>3. t1 \in Table /\ t1[n] \in Element /\ SameLru(t, t1)
  BY <1>2 DEF Table, SameLru
<1> HIDE DEF t1
<1>4. r2 \in Element /\ r2.ino = t1[n].ino /\ r2.lru_next = t1[n].lru_next
                     /\ r2.lru_prev = t1[n].lru_prev
  BY <1>3 DEF Element
<1>5. HashJoin(t, p, n) = [t1 EXCEPT ![n] = r2]
  BY DEF HashJoin, t1, r1
<1> HIDE DEF r2
<1> QED
  BY <1>3, <1>4, <1>5 DEF Table, SameLru

(* short_inode_hash_free leaves the LRU ring and every ino as they were.    *)
LEMMA HashFreeKeeps ==
    ASSUME NEW t \in Table, NEW i \in Slot
    PROVE  HashFree(t, i) \in Table /\ SameLru(t, HashFree(t, i))
<1>1. t[i].hash_prev \in Slot /\ t[i].hash_next \in Slot
  BY DEF Table, Element
<1>2. CASE IsUnused(t[i].ino)
  BY <1>2 DEF HashFree, SameLru
<1>3. CASE ~IsUnused(t[i].ino)
  <2>1. HashFree(t, i) = HashJoin(t, t[i].hash_prev, t[i].hash_next)
    BY <1>3 DEF HashFree
  <2> QED
    BY <1>1, <2>1, HashJoinKeeps
<1> QED
  BY <1>2, <1>3

Owned(t, e, ino) == [t EXCEPT ![e].ino = ino]

(* Giving a touched entry an owner changes no link.                        *)
LEMMA SetOwner ==
    ASSUME NEW t \in Table, NEW e \in Slot, NEW ino \in MappedInodes,
           t[e].ino # ZERO
    PROVE  LET u == Owned(t, e, ino)
           IN  /\ u \in Table /\ u[e].ino = ino /\ ~IsUnused(ino)
               /\ \A s \in Slot : /\ NextOf(u, s) = NextOf(t, s)
                                  /\ PrevOf(u, s) = PrevOf(t, s)
                                  /\ s # e => u[s].ino = t[s].ino
<1> DEFINE r == [t[e] EXCEPT !.ino = ino]
           u == [t EXCEPT ![e] = r]
<1>1. t[e] \in Element
  BY DEF Table
<1>2. r \in Element /\ r.ino = ino /\ r.lru_next = t[e].lru_next
                    /\ r.lru_prev = t[e].lru_prev
  BY <1>1 DEF Element
<1>3. ino \in Nat /\ ino > 0 /\ ~IsUnused(ino) /\ ino # ZERO
  <2>1. ino \in Nat /\ ino > 0
    BY InodesAssumption, UnmappedAssumption DEF MappedInodes
  <2> QED
    BY <2>1 DEF IsUnused, ZERO, SHORT_INODE_UNUSED
<1> HIDE DEF r
<1>4. u \in Table /\ u[e] = r /\ \A s \in Slot : s # e => u[s] = t[s]
  BY <1>2 DEF Table
<1>5. u = Owned(t, e, ino)
  BY DEF r, Owned
<1> HIDE DEF u
<1>6. \A s \in Slot : NextOf(u, s) = NextOf(t, s) /\ PrevOf(u, s) = PrevOf(t, s)
  BY <1>2, <1>3, <1>4 DEF NextOf, PrevOf
<1> QED
  BY <1>2, <1>3, <1>4, <1>5, <1>6

(* SameLru in terms of the links entries stand for.                        *)
LEMMA SameLruLinks ==
    ASSUME NEW t, NEW u, SameLru(t, u), NEW s \in Slot
    PROVE  NextOf(u, s) = NextOf(t, s) /\ PrevOf(u, s) = PrevOf(t, s)
           /\ u[s].ino = t[s].ino
BY DEF SameLru, NextOf, PrevOf

(* What MoveToEndKeeps asks of the table a call finishes with.             *)
Ready(T, t, si) ==
    /\ t \in Table
    /\ ~IsUnused(t[si].ino)
    /\ \A s \in Slot :
          /\ NextOf(t, s) = NextOf(T, s)
          /\ PrevOf(t, s) = PrevOf(T, s)
          /\ s # si => (IsUnused(t[s].ino) <=> IsUnused(T[s].ino))

(* The home slot, claimed while free, is ready to be moved to the end.      *)
LEMMA HomeFreeReady ==
    ASSUME NEW T \in Table, NEW si \in Slot, NEW ino \in MappedInodes
    PROVE  Ready(T, HashJoin([LazyInit(T, si) EXCEPT ![si].ino = ino], si, si), si)
<1> DEFINE t1 == LazyInit(T, si)
           t2 == Owned(t1, si, ino)
           t3 == HashJoin(t2, si, si)
<1>1. /\ t1 \in Table /\ t1[si].ino # ZERO
      /\ \A s \in Slot : /\ NextOf(t1, s) = NextOf(T, s)
                         /\ PrevOf(t1, s) = PrevOf(T, s)
                         /\ IsUnused(t1[s].ino) <=> IsUnused(T[s].ino)
  BY LazyInitKeeps
<1> HIDE DEF t1
<1>2. /\ t2 \in Table /\ t2[si].ino = ino /\ ~IsUnused(ino)
      /\ \A s \in Slot : /\ NextOf(t2, s) = NextOf(t1, s)
                         /\ PrevOf(t2, s) = PrevOf(t1, s)
                         /\ s # si => t2[s].ino = t1[s].ino
  <2>1. t1 \in Table /\ t1[si].ino # ZERO
    BY <1>1
  <2> QED
    BY <2>1, SetOwner
<1> HIDE DEF t2
<1>3. t3 \in Table /\ SameLru(t2, t3)
  <2>1. t2 \in Table
    BY <1>2
  <2> QED
    BY <2>1, HashJoinKeeps
<1> HIDE DEF t3
<1>4. \A s \in Slot : /\ NextOf(t3, s) = NextOf(t2, s)
                     /\ PrevOf(t3, s) = PrevOf(t2, s)
                     /\ t3[s].ino = t2[s].ino
  BY <1>3, SameLruLinks
<1>5. Ready(T, t3, si)
  BY <1>1, <1>2, <1>3, <1>4 DEF Ready
<1> QED
  BY <1>5 DEF Owned, t1, t2, t3

(* The oldest entry, reallocated, is ready to be moved to the end.          *)
LEMMA ReallocateReady ==
    ASSUME NEW T \in Table, NEW new \in Slot, NEW si \in Slot,
           NEW ino \in MappedInodes
    PROVE  Ready(T, Reallocate(T, new, si, ino), new)
<1> DEFINE t0 == LazyInit(T, new)
           t1 == HashFree(t0, new)
           t2 == HashJoin(t1, new, t1[si].hash_next)
           t3 == HashJoin(t2, si, new)
           t4 == Owned(t3, new, ino)
<1>1. /\ t0 \in Table /\ t0[new].ino # ZERO
      /\ \A s \in Slot : /\ NextOf(t0, s) = NextOf(T, s)
                         /\ PrevOf(t0, s) = PrevOf(T, s)
                         /\ IsUnused(t0[s].ino) <=> IsUnused(T[s].ino)
  BY LazyInitKeeps
<1> HIDE DEF t0
<1>2. t1 \in Table /\ SameLru(t0, t1)
  <2>1. t0 \in Table
    BY <1>1
  <2> QED
    BY <2>1, HashFreeKeeps
<1> HIDE DEF t1
<1>3. t2 \in Table /\ SameLru(t1, t2)
  <2>1. t1 \in Table /\ t1[si].hash_next \in Slot
    BY <1>2 DEF Table, Element
  <2> QED
    BY <2>1, HashJoinKeeps
<1> HIDE DEF t2
<1>4. t3 \in Table /\ SameLru(t2, t3)
  <2>1. t2 \in Table
    BY <1>3
  <2> QED
    BY <2>1, HashJoinKeeps
<1> HIDE DEF t3
<1>5. \A s \in Slot : /\ NextOf(t3, s) = NextOf(t0, s)
                     /\ PrevOf(t3, s) = PrevOf(t0, s)
                     /\ t3[s].ino = t0[s].ino
  BY <1>2, <1>3, <1>4, SameLruLinks
<1>6. /\ t4 \in Table /\ t4[new].ino = ino /\ ~IsUnused(ino)
      /\ \A s \in Slot : /\ NextOf(t4, s) = NextOf(t3, s)
                         /\ PrevOf(t4, s) = PrevOf(t3, s)
                         /\ s # new => t4[s].ino = t3[s].ino
  <2>1. t3 \in Table /\ t3[new].ino # ZERO
    BY <1>1, <1>4, <1>5
  <2> QED
    BY <2>1, SetOwner
<1> HIDE DEF t4
<1>7. Ready(T, t4, new)
  BY <1>1, <1>5, <1>6 DEF Ready
<1> QED
  BY <1>7 DEF Reallocate, Owned, t0, t1, t2, t3, t4

(* The inductive invariant: TypeOK alone does not keep the LRU ring, and   *)
(* the ring is what keeps short_inode_oldest pointing at a free entry.     *)
IInv == TypeOK /\ LruInverse /\ UnusedAreOldest

(* The common tail of the map function keeps the inductive invariant.       *)
LEMMA FinishKeeps ==
    ASSUME IInv, NEW t, NEW si \in Slot, NEW ino \in MappedInodes,
           Ready(table, t, si), Finish(t, si, ino)
    PROVE  IInv'
<1> DEFINE o == OldestWithout(t, oldest, si)
           u == MoveToEnd(t, o, si)
<1>1. table \in Table /\ t \in Table /\ oldest \in Slot
  BY DEF IInv, TypeOK, Table, Ready
<1>2. LinksInvert(table) /\ Suffix(table, oldest)
  BY DEF IInv, LruInverse, UnusedAreOldest, LinksInvert, Suffix, LruNext, LruPrev, InUse
<1>3. o \in Slot /\ u \in Table /\ LinksInvert(u) /\ Suffix(u, o)
  BY <1>1, <1>2, MoveToEndKeeps DEF Ready
<1>4. table' = u /\ oldest' = o /\ walk' = NoWalk
      /\ given' = [given EXCEPT ![ino] = si + SHORT_INODE_UNMAPPED + 1]
  BY DEF Finish
<1> HIDE DEF o, u
<1>5. si + SHORT_INODE_UNMAPPED + 1 \in 0 .. SHORT_INODE_MAX + SHORT_INODE_UNMAPPED
  BY MaxAssumption, UnmappedAssumption DEF Slot
<1>6. TypeOK'
  BY <1>3, <1>4, <1>5 DEF IInv, TypeOK, Table
<1>7. LruInverse'
  BY <1>3, <1>4 DEF LruInverse, LruNext, LruPrev, NextOf, PrevOf, LinksInvert
<1>8. UnusedAreOldest'
  BY <1>3, <1>4 DEF UnusedAreOldest, LruNext, InUse, NextOf, Suffix
<1> QED
  BY <1>6, <1>7, <1>8 DEF IInv

(* Between calls and during a walk nothing but walk and given changes.     *)
LEMMA StutterKeeps ==
    ASSUME IInv, UNCHANGED <<table, oldest>>, TypeOK'
    PROVE  IInv'
BY DEF IInv, LruInverse, UnusedAreOldest, LruNext, LruPrev, NextOf, PrevOf, InUse

(* The zeroed table satisfies the inductive invariant.                      *)
LEMMA InitIInv == Init => IInv
<1> SUFFICES ASSUME Init PROVE IInv
  OBVIOUS
<1>1. \A s \in Slot : table[s].ino = ZERO
  BY DEF Init
<1>2. TypeOK
  BY MaxAssumption DEF Init, TypeOK, Element, Slot
<1>3. LruInverse
  BY <1>1, RoundTrip DEF LruInverse, LruNext, LruPrev, NextOf, PrevOf
<1>4. UnusedAreOldest
  BY <1>1 DEF UnusedAreOldest, InUse, IsUnused
<1> QED
  BY <1>2, <1>3, <1>4 DEF IInv

(* Every step of the map function keeps the inductive invariant.            *)
LEMMA NextIInv == IInv /\ [Next]_vars => IInv'
<1> SUFFICES ASSUME IInv, [Next]_vars PROVE IInv'
  OBVIOUS
<1>1. table \in Table /\ oldest \in Slot /\ TypeOK
  BY DEF IInv, TypeOK, Table
<1>2. \A s \in Slot : \A i \in MappedInodes : table[s].ino = i => Ready(table, table, s)
  BY <1>1, InodesAssumption, UnmappedAssumption
     DEF Ready, IsUnused, MappedInodes, ZERO, SHORT_INODE_UNUSED
<1>3. \A i \in MappedInodes : HashVal[i] \in Slot
  BY HashAssumption
<1>4. ASSUME NEW ino \in Inodes, MapUnmapped(ino) PROVE IInv'
  <2>1. ino \in 0 .. SHORT_INODE_MAX + SHORT_INODE_UNMAPPED
    BY <1>4, MaxAssumption, InodesAssumption, UnmappedAssumption
       DEF MapUnmapped, MappedInodes
  <2>2. TypeOK'
    BY <1>1, <1>4, <2>1 DEF MapUnmapped, TypeOK
  <2> QED
    BY <1>4, <2>2, StutterKeeps DEF MapUnmapped
<1>5. ASSUME NEW ino \in Inodes, MapHomeFree(ino) PROVE IInv'
  <2>1. ino \in MappedInodes /\ HashVal[ino] \in Slot
    BY <1>3, <1>5 DEF MapHomeFree
  <2> QED
    BY <1>1, <1>5, <2>1, HomeFreeReady, FinishKeeps DEF MapHomeFree
<1>6. ASSUME NEW ino \in Inodes, MapHomeHit(ino) PROVE IInv'
  <2>1. ino \in MappedInodes /\ HashVal[ino] \in Slot
    BY <1>3, <1>6 DEF MapHomeHit
  <2> QED
    BY <1>2, <1>6, <2>1, FinishKeeps DEF MapHomeHit
<1>7. ASSUME NEW ino \in Inodes, MapCollide(ino) PROVE IInv'
  <2>1. ino \in MappedInodes /\ HashVal[ino] \in Slot
        /\ table[HashVal[ino]].hash_next \in Slot
    BY <1>1, <1>3, <1>7 DEF MapCollide, Table, Element
  <2>2. TypeOK'
    BY <1>1, <1>7, <2>1 DEF MapCollide, TypeOK
  <2> QED
    BY <1>7, <2>2, StutterKeeps DEF MapCollide
<1>8. walk # NoWalk => walk.ino \in MappedInodes /\ walk.si \in Slot
  BY <1>1 DEF TypeOK
<1>9. CASE WalkOn
  <2>1. table[walk.si].hash_next \in Slot
    BY <1>1, <1>8, <1>9 DEF WalkOn, Table, Element
  <2>2. TypeOK'
    BY <1>1, <1>9, <2>1 DEF WalkOn, TypeOK
  <2> QED
    BY <1>9, <2>2, StutterKeeps DEF WalkOn
<1>10. CASE WalkHit
  BY <1>2, <1>8, <1>10, FinishKeeps DEF WalkHit
<1>11. CASE WalkMiss
  <2>1. walk.ino \in MappedInodes /\ walk.si \in Slot
    BY <1>8, <1>11 DEF WalkMiss
  <2>2. Ready(table, Reallocate(table, oldest, walk.si, walk.ino), oldest)
    BY <1>1, <2>1, ReallocateReady
  <2> QED
    BY <1>1, <1>11, <2>1, <2>2, FinishKeeps DEF WalkMiss
<1>12. CASE UNCHANGED vars
  BY <1>1, <1>12, StutterKeeps DEF vars, TypeOK
<1> QED
  BY <1>4, <1>5, <1>6, <1>7, <1>9, <1>10, <1>11, <1>12 DEF Next, Call, Walk

(* Every behaviour of short_inode_map keeps the table well typed, its LRU  *)
(* ring doubly linked and its free entries the oldest ones, for every      *)
(* table size and every hash function, and however many inodes are mapped. *)
THEOREM RingInvariant == Spec => []IInv
BY InitIInv, NextIInv, PTL DEF Spec

(* Every index stored in the table is a slot, and every answer fits the    *)
(* 16 bit inode.                                                           *)
THEOREM TypeCorrect == Spec => []TypeOK
BY RingInvariant, PTL DEF IInv

(* The forward and backward LRU links stay inverse to each other.          *)
THEOREM LruRing == Spec => []LruInverse
BY RingInvariant, PTL DEF IInv

(* An entry in use is never the victim while a free entry is left at the   *)
(* old end of the ring.                                                    *)
THEOREM FreeFirst == Spec => []UnusedAreOldest
BY RingInvariant, PTL DEF IInv

-----------------------------------------------------------------------------
(* The LRU links thread all slots into one ring: no part of the table is   *)
(* closed under them.                                                      *)
OneRing(t) ==
    \A S \in SUBSET Slot : S # {} /\ (\A s \in S : NextOf(t, s) \in S) => S = Slot

(* A set of slots has a greatest element.                                  *)
LEMMA GreatestSlot ==
    ASSUME NEW S \in SUBSET Slot, S # {}
    PROVE  \E x \in S : \A y \in S : y <= x
<1> DEFINE T == {SHORT_INODE_MAX - x : x \in S}
<1>0. SHORT_INODE_MAX \in Nat /\ \A x \in S : x \in Nat /\ x < SHORT_INODE_MAX
  BY MaxAssumption DEF Slot
<1>1. T \subseteq Nat /\ T # {}
  <2>1. \A x \in S : SHORT_INODE_MAX - x \in Nat
    BY <1>0
  <2>2. PICK x \in S : TRUE
    OBVIOUS
  <2>3. SHORT_INODE_MAX - x \in T
    BY <2>2
  <2> QED
    BY <2>1, <2>3
<1>2. IsWellFoundedOn(OpToRel(<, Nat), Nat)
  BY NatLessThanWellFounded
<1>3. PICK t \in T : \A u \in T : ~(<<u, t>> \in OpToRel(<, Nat))
  BY <1>1, <1>2, WFMin
<1>4. \A u \in T : u \in Nat /\ t \in Nat /\ ~(u < t)
  BY <1>1, <1>3 DEF OpToRel
<1>5. PICK x \in S : t = SHORT_INODE_MAX - x
  BY <1>3
<1>6. \A y \in S : SHORT_INODE_MAX - y \in T
  OBVIOUS
<1>7. \A y \in S : ~(SHORT_INODE_MAX - y < SHORT_INODE_MAX - x)
  BY <1>4, <1>5, <1>6
<1> QED
  BY <1>0, <1>7

(* The untouched table is one ring.                                        *)
LEMMA InitOneRing == ASSUME Init PROVE OneRing(table)
<1> DEFINE M == SHORT_INODE_MAX
<1>0. M \in Nat /\ M >= 2
  BY MaxAssumption
<1>1. \A s \in Slot : NextOf(table, s) = IF s = M - 1 THEN 0 ELSE s + 1
  <2> SUFFICES ASSUME NEW s \in Slot
               PROVE  NextOf(table, s) = IF s = M - 1 THEN 0 ELSE s + 1
    OBVIOUS
  <2>1. s \in Nat /\ s < M
    BY <1>0 DEF Slot
  <2>2. (s + 1) % M = IF s = M - 1 THEN 0 ELSE s + 1
    BY <1>0, <2>1, SMT
  <2> QED
    BY <2>2 DEF Init, NextOf
<1> SUFFICES ASSUME NEW S \in SUBSET Slot, S # {}, \A s \in S : NextOf(table, s) \in S,
                    NEW y \in Slot, y \notin S
             PROVE  FALSE
  BY DEF OneRing
<1>2. \A s \in S : s \in Nat /\ s < M /\ (s = M - 1 => 0 \in S) /\ (s # M - 1 => s + 1 \in S)
  BY <1>0, <1>1 DEF Slot
<1>3. PICK x \in S : \A z \in S : z <= x
  BY GreatestSlot
<1>4. x = M - 1
  BY <1>0, <1>2, <1>3
<1>5. 0 \in S
  BY <1>2, <1>3, <1>4
(* The slots from 0 to just below the first that is not in S are in S.     *)
<1> DEFINE L == {s \in Slot : \A z \in Slot : z <= s => z \in S}
<1>6. 0 \in L
  BY <1>0, <1>5 DEF Slot
<1>7. PICK l \in L : \A z \in L : z <= l
  <2>1. L \in SUBSET Slot /\ L # {}
    BY <1>6
  <2> HIDE DEF L
  <2> QED
    BY <2>1, GreatestSlot
<1>8. l \in S /\ l \in Slot /\ l \in Nat
  BY <1>0, <1>7 DEF Slot
<1>9. l # M - 1
  BY <1>0, <1>7, <1>8 DEF Slot
<1>10. l + 1 \in S
  BY <1>2, <1>8, <1>9
<1>11. l + 1 \in L
  BY <1>0, <1>7, <1>8, <1>10 DEF Slot
<1> QED
  BY <1>0, <1>7, <1>8, <1>11

(* Moving an entry to the end keeps the ring in one piece.                 *)
LEMMA MovedOneRing ==
    ASSUME NEW t \in Table, NEW u \in Table, NEW si \in Slot, NEW o \in Slot,
           LinksInvert(t), OneRing(t), o # si,
           \A s \in Slot : NextOf(u, s) = Moved(t, o, si, s)
    PROVE  OneRing(u)
<1> SUFFICES ASSUME NEW S \in SUBSET Slot, S # {}, \A s \in S : NextOf(u, s) \in S
             PROVE  S = Slot
  BY DEF OneRing
<1>0. PICK a, b, z : /\ a = NextOf(t, si) /\ b = PrevOf(t, si)
                     /\ z = (IF o = a THEN b ELSE PrevOf(t, o))
  OBVIOUS
<1>1. /\ a \in Slot /\ b \in Slot /\ z \in Slot /\ NextOf(t, b) = si
      /\ PrevOf(t, a) = si /\ \A s \in Slot : NextOf(t, s) \in Slot
  BY <1>0, LinksTyped DEF LinksInvert
<1>2. \A s \in Slot : NextOf(u, s) = IF s = si THEN o ELSE IF s = z THEN si
                                     ELSE IF s = b THEN a ELSE NextOf(t, s)
  BY <1>0 DEF Moved
<1>3. \A s \in Slot : NextOf(t, s) = si => s = b
  BY <1>0, <1>1 DEF LinksInvert
<1>4. z # b => NextOf(t, z) = o
  BY <1>0 DEF LinksInvert
<1>5. z = b => o = a
  <2>1. CASE o # a /\ z = b
    <3>1. NextOf(t, z) = o
      BY <1>0, <2>1 DEF LinksInvert
    <3> QED
      BY <1>1, <2>1, <3>1
  <2> QED
    BY <2>1
<1>6. a # si /\ b # si
  <2>1. a = si => \A s \in {si} : NextOf(t, s) \in {si}
    BY <1>0
  <2>2. \E s \in Slot : s # si
    OBVIOUS
  <2>3. a # si
    <3>1. {si} \in SUBSET Slot /\ {si} # {} /\ {si} # Slot
      BY <2>2
    <3> QED
      BY <2>1, <3>1 DEF OneRing
  <2> QED
    BY <1>0, <1>1, <2>3
<1>7. z # si
  BY <1>0, <1>1, <1>6 DEF LinksInvert
<1>8. si \in S => o \in S
  BY <1>2
<1>9. z \in S => si \in S
  BY <1>1, <1>2, <1>7
<1>10. CASE b \in S
  <2> DEFINE K == S \cup {si}
  <2>1. a \in S
    BY <1>1, <1>2, <1>5, <1>6, <1>8, <1>9, <1>10
  <2>2. ASSUME NEW s \in K PROVE NextOf(t, s) \in K
    <3>1. CASE s = si
      BY <1>0, <2>1, <3>1
    <3>2. CASE s = b
      BY <1>1, <3>2
    <3>3. CASE s = z /\ z # b
      BY <1>4, <1>7, <1>8, <1>9, <2>2, <3>3
    <3>4. CASE s # si /\ s # b /\ s # z
      BY <1>2, <2>2, <3>4
    <3> QED
      BY <3>1, <3>2, <3>3, <3>4
  <2>3. K = Slot
    <3>1. K \in SUBSET Slot /\ K # {}
      OBVIOUS
    <3> HIDE DEF K
    <3> QED
      BY <2>2, <3>1 DEF OneRing
  <2>4. z \in S
    BY <1>1, <1>7, <2>3
  <2> QED
    BY <1>9, <2>3, <2>4
<1>11. CASE b \notin S
  <2> DEFINE K == S \ {si}
  <2>1. K # {}
    BY <1>8
  <2>2. ASSUME NEW s \in K PROVE NextOf(t, s) \in K
    <3>1. s \in S /\ s # si /\ s # b /\ NextOf(t, s) # si
      BY <1>3, <1>11, <2>2
    <3>2. CASE s = z
      BY <1>4, <1>8, <1>9, <3>1, <3>2
    <3>3. CASE s # z
      BY <1>2, <3>1, <3>3
    <3> QED
      BY <3>2, <3>3
  <2>3. K = Slot
    <3>1. K \in SUBSET Slot
      OBVIOUS
    <3> HIDE DEF K
    <3> QED
      BY <2>1, <2>2, <3>1 DEF OneRing
  <2> QED
    BY <1>1, <1>11, <2>3
<1> QED
  BY <1>10, <1>11

-----------------------------------------------------------------------------
(* The hash rings and the owners, as functions of the table.               *)
Used(t) == {s \in Slot : ~IsUnused(t[s].ino)}

(* The hash links of the entries in use are inverse.                       *)
HashRings(t) ==
    \A s \in Used(t) :
       /\ t[s].hash_next \in Used(t) /\ t[t[s].hash_next].hash_prev = s
       /\ t[s].hash_prev \in Used(t) /\ t[t[s].hash_prev].hash_next = s

(* No two entries have one owner, and an entry is on the hash ring of the  *)
(* slot its owner hashes to: every set that holds that slot and is closed  *)
(* under the hash links holds the entry.                                   *)
Distinct(t) == \A s, r \in Used(t) : t[s].ino = t[r].ino => s = r
ClosedIn(t, S) == \A s \in S \cap Used(t) : t[s].hash_next \in S
Homed(t) ==
    \A s \in Used(t) : \A S \in SUBSET Slot :
        HashVal[t[s].ino] \in S /\ ClosedIn(t, S) => s \in S
Hashed(t) == HashRings(t) /\ Distinct(t) /\ Homed(t)

(* What the program was told is what the table says.                       *)
Told(t, g) ==
    /\ \A i \in MappedInodes : g[i] # NotGiven =>
          \E s \in Used(t) : t[s].ino = i /\ g[i] = s + SHORT_INODE_UNMAPPED + 1
    /\ \A i \in Inodes \ MappedInodes : g[i] \in {NotGiven, i}

(* A walk in progress has passed the entries of some set V, from the slot  *)
(* its inode hashes to up to where it is, and none of them was the one it  *)
(* looks for.                                                              *)
Walked ==
    walk # NoWalk =>
        /\ walk.first = HashVal[walk.ino]
        /\ walk.first \in Used(table) /\ walk.si \in Used(table)
        /\ \E V \in SUBSET Used(table) :
              /\ walk.first \in V
              /\ \A v \in V : /\ table[v].ino # walk.ino
                              /\ table[v].hash_next \in V \cup {walk.si}

(* t and u have the same hash links and owners.                            *)
SameHash(t, u) ==
    \A s \in Slot : /\ u[s].hash_next = t[s].hash_next
                    /\ u[s].hash_prev = t[s].hash_prev
                    /\ IsUnused(u[s].ino) <=> IsUnused(t[s].ino)
                    /\ ~IsUnused(t[s].ino) => u[s].ino = t[s].ino

(* Such tables agree on all of the above.                                  *)
LEMMA SameHashKeeps ==
    ASSUME NEW t \in Table, NEW u \in Table, SameHash(t, u)
    PROVE  /\ Used(u) = Used(t) /\ (Hashed(t) => Hashed(u))
           /\ \A g : Told(t, g) => Told(u, g)
<1>1. Used(u) = Used(t)
  BY DEF Used, SameHash
<1>2. /\ \A s \in Slot : u[s].hash_next = t[s].hash_next /\ u[s].hash_prev = t[s].hash_prev
      /\ \A s \in Used(t) : u[s].ino = t[s].ino
      /\ Used(t) \subseteq Slot
  BY DEF Used, SameHash
<1>3. \A S : ClosedIn(u, S) => ClosedIn(t, S)
  BY <1>1, <1>2 DEF ClosedIn
<1>4. Homed(t) => Homed(u)
  BY <1>1, <1>2, <1>3 DEF Homed
<1>5. Distinct(t) => Distinct(u)
  BY <1>1, <1>2 DEF Distinct
<1>6. HashRings(t) => HashRings(u)
  BY <1>1, <1>2 DEF HashRings
<1>7. \A g : Told(t, g) => Told(u, g)
  BY <1>1, <1>2 DEF Told
<1> QED
  BY <1>1, <1>4, <1>5, <1>6, <1>7 DEF Hashed

(* Initialising an entry and linking the LRU ring leave the hash rings.    *)
LEMMA LazyInitHash ==
    ASSUME NEW t \in Table, NEW e \in Slot PROVE SameHash(t, LazyInit(t, e))
<1>1. CASE t[e].ino # ZERO
  BY <1>1 DEF LazyInit, SameHash
<1>2. CASE t[e].ino = ZERO
  <2> DEFINE r == [t[e] EXCEPT
                     !.ino = SHORT_INODE_UNUSED,
                     !.lru_prev = (e + SHORT_INODE_MAX - 1) % SHORT_INODE_MAX,
                     !.lru_next = (e + 1) % SHORT_INODE_MAX]
  <2>1. LazyInit(t, e) = [t EXCEPT ![e] = r]
    BY <1>2 DEF LazyInit
  <2>2. t[e] \in Element
    BY DEF Table
  <2>3. /\ r.hash_next = t[e].hash_next /\ r.hash_prev = t[e].hash_prev
        /\ IsUnused(r.ino) /\ IsUnused(t[e].ino)
    BY <1>2, <2>2 DEF Element, IsUnused
  <2> HIDE DEF r
  <2>4. LazyInit(t, e)[e] = r /\ \A s \in Slot : s # e => LazyInit(t, e)[s] = t[s]
    BY <2>1 DEF Table
  <2> QED
    BY <2>3, <2>4 DEF SameHash
<1> QED
  BY <1>1, <1>2

(* So does linking two entries on the LRU ring.                            *)
LEMMA LruJoinHash ==
    ASSUME NEW t \in Table, NEW p \in Slot, NEW n \in Slot
    PROVE  LruJoin(t, p, n) \in Table /\ SameHash(t, LruJoin(t, p, n))
<1> DEFINE t1 == LazyInit(t, p)
           t2 == LazyInit(t1, n)
           r3 == [t2[p] EXCEPT !.lru_next = n]
           t3 == [t2 EXCEPT ![p] = r3]
           r4 == [t3[n] EXCEPT !.lru_prev = p]
           t4 == [t3 EXCEPT ![n] = r4]
<1>1. t1 \in Table /\ SameHash(t, t1)
  BY LazyInitKeeps, LazyInitHash
<1> HIDE DEF t1
<1>2. t2 \in Table /\ SameHash(t1, t2)
  BY <1>1, LazyInitKeeps, LazyInitHash
<1> HIDE DEF t2
<1>3. t2[p] \in Element
  BY <1>2 DEF Table
<1>4. r3 \in Element /\ r3.hash_next = t2[p].hash_next /\ r3.hash_prev = t2[p].hash_prev
      /\ r3.ino = t2[p].ino
  BY <1>3 DEF Element
<1> HIDE DEF r3
<1>5. t3 \in Table /\ t3[p] = r3 /\ \A s \in Slot : s # p => t3[s] = t2[s]
  BY <1>2, <1>4 DEF Table
<1>6. SameHash(t2, t3)
  BY <1>4, <1>5 DEF SameHash
<1> HIDE DEF t3
<1>7. t3[n] \in Element
  BY <1>5 DEF Table
<1>8. r4 \in Element /\ r4.hash_next = t3[n].hash_next /\ r4.hash_prev = t3[n].hash_prev
      /\ r4.ino = t3[n].ino
  BY <1>7 DEF Element
<1>9. LruJoin(t, p, n) = t4
  BY DEF LruJoin, t1, t2, t3, r3, r4
<1> HIDE DEF r4
<1>10. t4 \in Table /\ t4[n] = r4 /\ \A s \in Slot : s # n => t4[s] = t3[s]
  BY <1>5, <1>8 DEF Table
<1>11. SameHash(t3, t4)
  BY <1>8, <1>10 DEF SameHash
<1> HIDE DEF t4
<1>12. SameHash(t, t4)
  BY <1>1, <1>2, <1>6, <1>11 DEF SameHash
<1> QED
  BY <1>9, <1>10, <1>12

(* And so does moving an entry to its end.                                 *)
LEMMA MoveToEndHash ==
    ASSUME NEW t \in Table, NEW o \in Slot, NEW si \in Slot
    PROVE  SameHash(t, MoveToEnd(t, o, si))
<1> DEFINE t1 == LruJoin(t, t[si].lru_prev, t[si].lru_next)
           t2 == LazyInit(t1, o)
           t3 == LruJoin(t2, t2[o].lru_prev, si)
           t4 == LruJoin(t3, si, o)
<1>1. t[si].lru_prev \in Slot /\ t[si].lru_next \in Slot
  BY DEF Table, Element
<1>2. t1 \in Table /\ SameHash(t, t1)
  BY <1>1, LruJoinHash
<1>3. MoveToEnd(t, o, si) = t4
  BY DEF MoveToEnd, LruFree
<1> HIDE DEF t1
<1>4. t2 \in Table /\ SameHash(t1, t2)
  BY <1>2, LazyInitKeeps, LazyInitHash
<1> HIDE DEF t2
<1>5. t2[o].lru_prev \in Slot
  BY <1>4 DEF Table, Element
<1>6. t3 \in Table /\ SameHash(t2, t3)
  BY <1>4, <1>5, LruJoinHash
<1> HIDE DEF t3
<1>7. SameHash(t3, t4)
  BY <1>6, LruJoinHash
<1> HIDE DEF t4
<1>8. SameHash(t, t4)
  BY <1>2, <1>4, <1>6, <1>7 DEF SameHash
<1> QED
  BY <1>3, <1>8

(* Table u is t with p and n linked to each other on the hash ring.        *)
HashJoined(t, u, p, n) ==
    \A s \in Slot : /\ u[s].hash_next = IF s = p THEN n ELSE t[s].hash_next
                    /\ u[s].hash_prev = IF s = n THEN p ELSE t[s].hash_prev
                    /\ u[s].ino = t[s].ino

(* short_inode_hash_join writes two links.                                 *)
LEMMA HashJoinLinks ==
    ASSUME NEW t \in Table, NEW p \in Slot, NEW n \in Slot,
           NEW u, u = HashJoin(t, p, n)
    PROVE  u \in Table /\ HashJoined(t, u, p, n)
<1> DEFINE r1 == [t[p] EXCEPT !.hash_next = n]
           t1 == [t EXCEPT ![p] = r1]
           r2 == [t1[n] EXCEPT !.hash_prev = p]
<1>1. t[p] \in Element
  BY DEF Table
<1>2. r1 \in Element /\ r1.ino = t[p].ino /\ r1.hash_next = n
                     /\ r1.hash_prev = t[p].hash_prev
  BY <1>1 DEF Element
<1> HIDE DEF r1
<1>3. t1 \in Table /\ t1[p] = r1 /\ \A s \in Slot : s # p => t1[s] = t[s]
  BY <1>2 DEF Table
<1>4. t1[n] \in Element
  BY <1>3 DEF Table
<1> HIDE DEF t1
<1>5. r2 \in Element /\ r2.ino = t1[n].ino /\ r2.hash_prev = p
                     /\ r2.hash_next = t1[n].hash_next
  BY <1>4 DEF Element
<1>6. u = [t1 EXCEPT ![n] = r2]
  BY DEF HashJoin, t1, r1
<1> HIDE DEF r2
<1>7. u \in Table /\ u[n] = r2 /\ \A s \in Slot : s # n => u[s] = t1[s]
  BY <1>3, <1>5, <1>6 DEF Table
<1> QED
  BY <1>2, <1>3, <1>5, <1>7 DEF HashJoined

(* Giving an entry an owner leaves the hash links.                         *)
LEMMA OwnedLinks ==
    ASSUME NEW t \in Table, NEW e \in Slot, NEW ino \in MappedInodes,
           NEW u, u = Owned(t, e, ino)
    PROVE  /\ u \in Table /\ ~IsUnused(ino)
           /\ \A s \in Slot : /\ u[s].hash_next = t[s].hash_next
                              /\ u[s].hash_prev = t[s].hash_prev
                              /\ u[s].ino = IF s = e THEN ino ELSE t[s].ino
<1> DEFINE r == [t[e] EXCEPT !.ino = ino]
<1>1. t[e] \in Element
  BY DEF Table
<1>2. r \in Element /\ r.ino = ino /\ r.hash_next = t[e].hash_next
                    /\ r.hash_prev = t[e].hash_prev
  BY <1>1 DEF Element
<1>3. ino \in Nat /\ ino > 0
  BY InodesAssumption, UnmappedAssumption DEF MappedInodes
<1>4. u = [t EXCEPT ![e] = r]
  BY DEF Owned
<1> HIDE DEF r
<1>5. u \in Table /\ u[e] = r /\ \A s \in Slot : s # e => u[s] = t[s]
  BY <1>2, <1>4 DEF Table
<1> QED
  BY <1>2, <1>3, <1>5 DEF IsUnused, ZERO, SHORT_INODE_UNUSED

(* Entry e of u has been given to ino, and nothing else has changed hands. *)
Claimed(t, u, e, ino) ==
    /\ u \in Table /\ Used(u) = Used(t) \cup {e} /\ u[e].ino = ino
    /\ \A s \in Used(t) : u[s].ino = t[s].ino
    /\ Hashed(u)

(* The hash slot, claimed while free, is a hash ring of its own.           *)
LEMMA HomeFreeClaims ==
    ASSUME NEW t \in Table, Hashed(t), NEW ino \in MappedInodes,
           NEW si \in Slot, si = HashVal[ino], si \notin Used(t),
           \A s \in Used(t) : t[s].ino # ino,
           NEW u, u = HashJoin([LazyInit(t, si) EXCEPT ![si].ino = ino], si, si)
    PROVE  Claimed(t, u, si, ino)
<1>0. PICK t1, t2 : t1 = LazyInit(t, si) /\ t2 = Owned(t1, si, ino)
  OBVIOUS
<1>1. t1 \in Table /\ SameHash(t, t1)
  BY <1>0, LazyInitKeeps, LazyInitHash
<1>2. /\ Used(t1) = Used(t) /\ Hashed(t1) /\ Used(t) \subseteq Slot
      /\ \A s \in Used(t) : t1[s].ino = t[s].ino
  BY <1>1, SameHashKeeps DEF SameHash, Used
<1>3. /\ t2 \in Table /\ ~IsUnused(ino)
      /\ \A s \in Slot : /\ t2[s].hash_next = t1[s].hash_next
                         /\ t2[s].hash_prev = t1[s].hash_prev
                         /\ t2[s].ino = IF s = si THEN ino ELSE t1[s].ino
  BY <1>0, <1>1, OwnedLinks
<1>4. u = HashJoin(t2, si, si)
  BY <1>0 DEF Owned
<1>5. /\ u \in Table
      /\ \A s \in Slot : /\ u[s].hash_next = IF s = si THEN si ELSE t2[s].hash_next
                         /\ u[s].hash_prev = IF s = si THEN si ELSE t2[s].hash_prev
                         /\ u[s].ino = t2[s].ino
  <2>1. u \in Table /\ HashJoined(t2, u, si, si)
    BY <1>3, <1>4, HashJoinLinks
  <2> QED
    BY <2>1 DEF HashJoined
<1>6. /\ u[si].hash_next = si /\ u[si].hash_prev = si /\ u[si].ino = ino
      /\ \A s \in Slot \ {si} : /\ u[s].hash_next = t1[s].hash_next
                                /\ u[s].hash_prev = t1[s].hash_prev
                                /\ u[s].ino = t1[s].ino
  BY <1>3, <1>5
<1>7. Used(u) = Used(t1) \cup {si}
  BY <1>3, <1>6 DEF Used
<1>8. HashRings(u)
  <2> SUFFICES ASSUME NEW s \in Used(u)
               PROVE  /\ u[s].hash_next \in Used(u) /\ u[u[s].hash_next].hash_prev = s
                      /\ u[s].hash_prev \in Used(u) /\ u[u[s].hash_prev].hash_next = s
    BY DEF HashRings
  <2>1. CASE s = si
    BY <1>6, <1>7, <2>1
  <2>2. CASE s # si
    <3>1. s \in Used(t1) /\ s \in Slot
      BY <1>2, <1>7, <2>2
    <3>2. /\ t1[s].hash_next \in Used(t1) /\ t1[t1[s].hash_next].hash_prev = s
          /\ t1[s].hash_prev \in Used(t1) /\ t1[t1[s].hash_prev].hash_next = s
      BY <1>2, <3>1 DEF Hashed, HashRings
    <3>3. t1[s].hash_next \in Slot \ {si} /\ t1[s].hash_prev \in Slot \ {si}
      BY <1>2, <3>2
    <3> QED
      BY <1>6, <1>7, <2>2, <3>1, <3>2, <3>3
  <2> QED
    BY <2>1, <2>2
<1>9. Distinct(u)
  <2>1. \A s \in Used(t1) : s \in Slot \ {si} /\ u[s].ino = t1[s].ino /\ u[s].ino # ino
    BY <1>2, <1>6
  <2> QED
    BY <1>2, <1>6, <1>7, <2>1 DEF Hashed, Distinct
<1>10. Homed(u)
  <2> SUFFICES ASSUME NEW s \in Used(u), NEW S \in SUBSET Slot,
                      HashVal[u[s].ino] \in S, ClosedIn(u, S)
               PROVE  s \in S
    BY DEF Homed
  <2>1. ClosedIn(t1, S)
    BY <1>2, <1>6, <1>7 DEF ClosedIn
  <2>2. CASE s = si
    BY <1>6, <2>2
  <2>3. CASE s # si
    <3>1. s \in Used(t1) /\ u[s].ino = t1[s].ino
      BY <1>2, <1>6, <1>7, <2>3
    <3> QED
      BY <1>2, <2>1, <3>1 DEF Hashed, Homed
  <2> QED
    BY <2>2, <2>3
<1>11. \A s \in Used(t) : u[s].ino = t[s].ino
  BY <1>2, <1>6
<1> QED
  BY <1>2, <1>5, <1>6, <1>7, <1>8, <1>9, <1>10, <1>11 DEF Claimed, Hashed

(* A free entry is put on the hash ring after the slot its owner hashes to.*)
LEMMA ReallocateClaims ==
    ASSUME NEW t \in Table, Hashed(t), NEW ino \in MappedInodes,
           NEW si \in Used(t), si = HashVal[ino], NEW new \in Slot, new \notin Used(t),
           \A s \in Used(t) : t[s].ino # ino,
           NEW u, u = Reallocate(t, new, si, ino)
    PROVE  Claimed(t, u, new, ino)
<1>0. PICK t1, n, t2, t3 : /\ t1 = LazyInit(t, new) /\ n = t1[si].hash_next
                           /\ t2 = HashJoin(t1, new, n) /\ t3 = HashJoin(t2, si, new)
  OBVIOUS
<1>1. t1 \in Table /\ SameHash(t, t1)
  BY <1>0, LazyInitKeeps, LazyInitHash
<1>2. /\ Used(t1) = Used(t) /\ Hashed(t1) /\ Used(t) \subseteq Slot
      /\ \A s \in Used(t) : t1[s].ino = t[s].ino
  BY <1>1, SameHashKeeps DEF SameHash, Used
<1>3. HashFree(t1, new) = t1
  BY <1>2 DEF HashFree, Used
<1>4. u = Owned(t3, new, ino)
  BY <1>0, <1>3 DEF Reallocate, Owned
<1>5. n \in Used(t1) /\ n \in Slot /\ n # new /\ si # new /\ si \in Slot /\ t1[n].hash_prev = si
  BY <1>0, <1>2 DEF Hashed, HashRings
<1>6. /\ t2 \in Table
      /\ \A s \in Slot : /\ t2[s].hash_next = IF s = new THEN n ELSE t1[s].hash_next
                         /\ t2[s].hash_prev = IF s = n THEN new ELSE t1[s].hash_prev
                         /\ t2[s].ino = t1[s].ino
  <2>1. t2 \in Table /\ HashJoined(t1, t2, new, n)
    BY <1>0, <1>1, <1>5, HashJoinLinks
  <2> QED
    BY <2>1 DEF HashJoined
<1>7. /\ t3 \in Table
      /\ \A s \in Slot : /\ t3[s].hash_next = IF s = si THEN new ELSE t2[s].hash_next
                         /\ t3[s].hash_prev = IF s = new THEN si ELSE t2[s].hash_prev
                         /\ t3[s].ino = t2[s].ino
  <2>1. t3 \in Table /\ HashJoined(t2, t3, si, new)
    BY <1>0, <1>5, <1>6, HashJoinLinks
  <2> QED
    BY <2>1 DEF HashJoined
<1>8. /\ u \in Table /\ ~IsUnused(ino)
      /\ \A s \in Slot : /\ u[s].hash_next = t3[s].hash_next
                         /\ u[s].hash_prev = t3[s].hash_prev
                         /\ u[s].ino = IF s = new THEN ino ELSE t3[s].ino
  BY <1>4, <1>7, OwnedLinks
<1>9. \A s \in Slot :
         /\ u[s].hash_next = IF s = si THEN new ELSE IF s = new THEN n ELSE t1[s].hash_next
         /\ u[s].hash_prev = IF s = new THEN si ELSE IF s = n THEN new ELSE t1[s].hash_prev
         /\ u[s].ino = IF s = new THEN ino ELSE t1[s].ino
  BY <1>6, <1>7, <1>8
<1>10. Used(u) = Used(t1) \cup {new}
  BY <1>8, <1>9 DEF Used
<1>11. HashRings(u)
  <2> SUFFICES ASSUME NEW s \in Used(u)
               PROVE  /\ u[s].hash_next \in Used(u) /\ u[u[s].hash_next].hash_prev = s
                      /\ u[s].hash_prev \in Used(u) /\ u[u[s].hash_prev].hash_next = s
    BY DEF HashRings
  <2>1. CASE s = new
    BY <1>2, <1>5, <1>9, <1>10, <2>1
  <2>2. CASE s # new
    <3>1. s \in Used(t1) /\ s \in Slot
      BY <1>2, <1>10, <2>2
    <3>2. /\ t1[s].hash_next \in Used(t1) /\ t1[t1[s].hash_next].hash_prev = s
          /\ t1[s].hash_prev \in Used(t1) /\ t1[t1[s].hash_prev].hash_next = s
      BY <1>2, <3>1 DEF Hashed, HashRings
    <3>3. t1[s].hash_next \in Slot \ {new} /\ t1[s].hash_prev \in Slot \ {new}
      BY <1>2, <3>2
    <3>4. u[s].hash_next \in Used(u) /\ u[u[s].hash_next].hash_prev = s
      BY <1>0, <1>2, <1>5, <1>9, <1>10, <2>2, <3>1, <3>2, <3>3
    <3>5. u[s].hash_prev \in Used(u) /\ u[u[s].hash_prev].hash_next = s
      BY <1>0, <1>2, <1>5, <1>9, <1>10, <2>2, <3>1, <3>2, <3>3
    <3> QED
      BY <3>4, <3>5
  <2> QED
    BY <2>1, <2>2
<1>12. Distinct(u)
  <2>1. \A s \in Used(t1) : s \in Slot /\ s # new /\ u[s].ino = t1[s].ino /\ u[s].ino # ino
    BY <1>2, <1>9
  <2> QED
    BY <1>2, <1>9, <1>10, <2>1 DEF Hashed, Distinct
<1>13. Homed(u)
  <2> SUFFICES ASSUME NEW s \in Used(u), NEW S \in SUBSET Slot,
                      HashVal[u[s].ino] \in S, ClosedIn(u, S)
               PROVE  s \in S
    BY DEF Homed
  <2>1. si \in S => new \in S /\ n \in S
    BY <1>2, <1>5, <1>9, <1>10 DEF ClosedIn
  <2>2. ClosedIn(t1, S)
    BY <1>0, <1>2, <1>9, <1>10, <2>1 DEF ClosedIn
  <2>3. CASE s = new
    BY <1>9, <2>1, <2>3
  <2>4. CASE s # new
    <3>1. s \in Used(t1) /\ u[s].ino = t1[s].ino
      BY <1>2, <1>9, <1>10, <2>4
    <3> QED
      BY <1>2, <2>2, <3>1 DEF Hashed, Homed
  <2> QED
    BY <2>3, <2>4
<1>14. \A s \in Used(t) : u[s].ino = t[s].ino
  BY <1>2, <1>9
<1> QED
  BY <1>2, <1>8, <1>9, <1>10, <1>11, <1>12, <1>13, <1>14 DEF Claimed, Hashed

-----------------------------------------------------------------------------
(* The program meets no more inodes than the table has slots.  It is what  *)
(* keeps an entry from ever changing hands.                                *)
Fits == IsFiniteSet(MappedInodes) /\ Cardinality(MappedInodes) <= SHORT_INODE_MAX

(* The inductive invariant of a map that fits its table.                   *)
FInv == IInv /\ OneRing(table) /\ Hashed(table) /\ Told(table, given) /\ Walked

(* What the program has been told stays as it is.                          *)
Kept == \A i \in Inodes : given[i] # NotGiven => given'[i] = given[i]

(* As long as some inode has no entry, short_inode_oldest is a free entry. *)
LEMMA OldestFree ==
    ASSUME Fits, FInv, NEW ino \in MappedInodes,
           \A s \in Used(table) : table[s].ino # ino
    PROVE  oldest \notin Used(table)
<1> SUFFICES ASSUME oldest \in Used(table) PROVE FALSE
  OBVIOUS
<1>1. Used(table) \in SUBSET Slot /\ Used(table) # {}
  BY DEF Used
<1>2. \A s \in Used(table) : NextOf(table, s) \in Used(table)
  <2>1. \A s \in Slot : NextOf(table, s) \in Slot
    <3>1. table \in Table
      BY DEF FInv, IInv, TypeOK, Table
    <3> QED
      BY <3>1, LinksTyped
  <2> QED
    BY <2>1 DEF FInv, IInv, UnusedAreOldest, InUse, LruNext, Used
<1>3. Used(table) = Slot
  BY <1>1, <1>2 DEF FInv, OneRing
<1>4. \A s \in Slot : table[s].ino \in MappedInodes \ {ino}
  <2>1. \A s \in Slot : table[s] \in Element
    BY DEF FInv, IInv, TypeOK
  <2> QED
    BY <1>3, <2>1 DEF Used, Element, IsUnused
<1> DEFINE f == [s \in Slot |-> table[s].ino]
<1>5. f \in [Slot -> MappedInodes \ {ino}]
  BY <1>4
<1>6. IsFiniteSet(Slot) /\ Cardinality(Slot) = SHORT_INODE_MAX
  <2>1. 0 \in Int /\ SHORT_INODE_MAX - 1 \in Int /\ ~(0 > SHORT_INODE_MAX - 1)
        /\ (SHORT_INODE_MAX - 1) - 0 + 1 = SHORT_INODE_MAX
    BY MaxAssumption
  <2> QED
    BY <2>1, FS_Interval DEF Slot
<1>7. /\ IsFiniteSet(MappedInodes \ {ino})
      /\ Cardinality(MappedInodes \ {ino}) = Cardinality(MappedInodes) - 1
  BY FS_RemoveElement DEF Fits
<1>8. Cardinality(MappedInodes) \in Nat
  BY FS_CardinalityType DEF Fits
<1>9. Cardinality(MappedInodes \ {ino}) < Cardinality(Slot)
  BY <1>6, <1>7, <1>8, MaxAssumption DEF Fits
<1> HIDE DEF f
<1>10. \E x, y \in Slot : x # y /\ f[x] = f[y]
  BY <1>5, <1>6, <1>7, <1>9, FS_PigeonHole
<1> QED
  BY <1>3, <1>10 DEF f, FInv, Hashed, Distinct

(* A free hash slot means that the inode has no entry.                     *)
LEMMA HomeFreeNew ==
    ASSUME FInv, NEW ino \in MappedInodes, HashVal[ino] \notin Used(table)
    PROVE  \A s \in Used(table) : table[s].ino # ino
<1> SUFFICES ASSUME NEW s \in Used(table), table[s].ino = ino PROVE FALSE
  OBVIOUS
<1>1. {HashVal[ino]} \in SUBSET Slot /\ ClosedIn(table, {HashVal[ino]})
  BY HashAssumption DEF ClosedIn
<1>2. s \in {HashVal[ino]}
  BY <1>1 DEF FInv, Hashed, Homed
<1> QED
  BY <1>2

(* So does a walk that has come round to where it started.                 *)
LEMMA WalkMissNew ==
    ASSUME FInv, WalkMiss
    PROVE  \A s \in Used(table) : table[s].ino # walk.ino
<1> SUFFICES ASSUME NEW s \in Used(table), table[s].ino = walk.ino PROVE FALSE
  OBVIOUS
<1>1. walk.first = HashVal[walk.ino] /\ walk.si = walk.first
  BY DEF WalkMiss, FInv, Walked
<1>2. PICK V \in SUBSET Used(table) :
         /\ walk.first \in V
         /\ \A v \in V : /\ table[v].ino # walk.ino
                         /\ table[v].hash_next \in V \cup {walk.si}
  BY DEF WalkMiss, FInv, Walked
<1>3. V \in SUBSET Slot /\ ClosedIn(table, V)
  BY <1>1, <1>2 DEF ClosedIn, Used
<1>4. s \in V
  BY <1>1, <1>2, <1>3 DEF FInv, Hashed, Homed
<1> QED
  BY <1>2, <1>4

(* The common tail of a call, for an entry claimed or found.               *)
LEMMA FinishMaps ==
    ASSUME FInv, NEW t, NEW e \in Slot, NEW ino \in MappedInodes,
           Ready(table, t, e), Claimed(table, t, e, ino), Finish(t, e, ino)
    PROVE  FInv' /\ Kept
<1>0. PICK o, u : o = OldestWithout(t, oldest, e) /\ u = MoveToEnd(t, o, e)
  OBVIOUS
<1>1. table \in Table /\ t \in Table /\ oldest \in Slot /\ ~IsUnused(t[e].ino)
  BY DEF FInv, IInv, TypeOK, Table, Ready
<1>2. LinksInvert(table) /\ Suffix(table, oldest)
  BY DEF FInv, IInv, LruInverse, UnusedAreOldest, LinksInvert, Suffix, LruNext, LruPrev, InUse
<1>3. o \in Slot /\ u \in Table /\ \A s \in Slot : NextOf(u, s) = Moved(t, o, e, s)
  <2>1. \A s \in Slot : /\ NextOf(t, s) = NextOf(table, s)
                        /\ PrevOf(t, s) = PrevOf(table, s)
                        /\ s # e => (IsUnused(t[s].ino) <=> IsUnused(table[s].ino))
    BY DEF Ready
  <2> QED
    BY <1>0, <1>1, <1>2, <2>1, MoveToEndKeeps
<1>4. /\ table' = u /\ oldest' = o /\ walk' = NoWalk
      /\ given' = [given EXCEPT ![ino] = e + SHORT_INODE_UNMAPPED + 1]
  BY <1>0 DEF Finish
<1>5. \A s \in Slot : NextOf(t, s) = NextOf(table, s) /\ PrevOf(t, s) = PrevOf(table, s)
  BY DEF Ready
<1>6. OneRing(t) /\ LinksInvert(t)
  <2>1. OneRing(t)
    BY <1>5 DEF FInv, OneRing
  <2>2. LinksInvert(t)
    BY <1>1, <1>2, <1>5, LinksTyped DEF LinksInvert
  <2> QED
    BY <2>1, <2>2
<1>7. o # e
  <2> SUFFICES ASSUME o = e PROVE FALSE
    OBVIOUS
  <2>1. NextOf(t, e) = e
    BY <1>0, <1>1 DEF OldestWithout, NextOf, IsUnused
  <2>2. {e} \in SUBSET Slot /\ {e} # {} /\ \A s \in {e} : NextOf(t, s) \in {e}
    BY <2>1
  <2>3. {e} = Slot
    BY <1>6, <2>2 DEF OneRing
  <2>4. 0 \in Slot /\ 1 \in Slot
    BY MaxAssumption DEF Slot
  <2> QED
    BY <2>3, <2>4
<1>8. OneRing(u)
  BY <1>1, <1>3, <1>6, <1>7, MovedOneRing
<1>9. SameHash(t, u)
  BY <1>0, <1>1, <1>3, MoveToEndHash
<1>10. Used(u) = Used(t) /\ Hashed(u) /\ \A g : Told(t, g) => Told(u, g)
  BY <1>1, <1>3, <1>9, SameHashKeeps DEF Claimed
<1>11. DOMAIN given = Inodes /\ ino \in Inodes
  BY DEF FInv, IInv, TypeOK, MappedInodes
<1>12. given'[ino] = e + SHORT_INODE_UNMAPPED + 1
       /\ \A i \in Inodes \ {ino} : given'[i] = given[i]
  BY <1>4, <1>11
<1>13. Told(t, given')
  <2>1. e \in Used(t) /\ t[e].ino = ino
    BY DEF Claimed
  <2>2. ASSUME NEW i \in MappedInodes, given'[i] # NotGiven
        PROVE  \E s \in Used(t) : t[s].ino = i /\ given'[i] = s + SHORT_INODE_UNMAPPED + 1
    <3>1. CASE i = ino
      BY <1>12, <2>1, <3>1
    <3>2. CASE i # ino
      <4>1. i \in Inodes /\ given'[i] = given[i]
        BY <1>12, <3>2 DEF MappedInodes
      <4>2. PICK s \in Used(table) :
                 table[s].ino = i /\ given[i] = s + SHORT_INODE_UNMAPPED + 1
        BY <2>2, <4>1 DEF FInv, Told
      <4>3. s \in Used(t) /\ t[s].ino = i
        BY <4>2 DEF Claimed
      <4> QED
        BY <4>1, <4>2, <4>3
    <3> QED
      BY <3>1, <3>2
  <2>3. \A i \in Inodes \ MappedInodes : given'[i] \in {NotGiven, i}
    BY <1>12 DEF FInv, Told
  <2> QED
    BY <2>2, <2>3 DEF Told
<1>14. Kept
  <2> SUFFICES ASSUME NEW i \in Inodes, given[i] # NotGiven PROVE given'[i] = given[i]
    BY DEF Kept
  <2>1. CASE i # ino
    BY <1>12, <2>1
  <2>2. CASE i = ino
    <3>1. PICK s \in Used(table) :
               table[s].ino = ino /\ given[ino] = s + SHORT_INODE_UNMAPPED + 1
      BY <2>2 DEF FInv, Told
    <3>2. s = e
      BY <3>1 DEF Claimed, Hashed, Distinct
    <3> QED
      BY <1>12, <2>2, <3>1, <3>2
  <2> QED
    BY <2>1, <2>2
<1>15. IInv'
  BY FinishKeeps DEF FInv
<1>16. Told(u, given') /\ Walked'
  BY <1>4, <1>10, <1>13 DEF Walked
<1>17. OneRing(table)' /\ Hashed(table)' /\ Told(table, given)'
  <2>1. OneRing(table') /\ Hashed(table') /\ Told(table', given')
    BY <1>4, <1>8, <1>10, <1>16
  <2> QED
    BY <2>1
<1> QED
  BY <1>14, <1>15, <1>16, <1>17 DEF FInv

(* Found entries are claimed already.                                      *)
LEMMA HitMaps ==
    ASSUME FInv, NEW e \in Slot, NEW ino \in MappedInodes,
           table[e].ino = ino, Finish(table, e, ino)
    PROVE  FInv' /\ Kept
<1>1. table \in Table /\ ~IsUnused(ino)
  BY InodesAssumption, UnmappedAssumption
     DEF FInv, IInv, TypeOK, Table, IsUnused, MappedInodes, ZERO, SHORT_INODE_UNUSED
<1>2. Ready(table, table, e)
  BY <1>1 DEF Ready
<1>3. Claimed(table, table, e, ino)
  <2>1. e \in Used(table)
    BY <1>1 DEF Used
  <2> QED
    BY <1>1, <2>1 DEF Claimed, FInv
<1> QED
  BY <1>2, <1>3, FinishMaps

(* A step that leaves the table, and starts or continues a walk or tells   *)
(* an unmapped number.                                                     *)
LEMMA TableKept ==
    ASSUME FInv, IInv', table' = table, Told(table, given'), Walked'
    PROVE  FInv'
BY DEF FInv, OneRing, NextOf, Hashed, HashRings, Distinct, Homed, ClosedIn, Used, Told

(* The empty map.                                                          *)
LEMMA InitFInv == Init => FInv
<1> SUFFICES ASSUME Init PROVE FInv
  OBVIOUS
<1>1. Used(table) = {}
  BY DEF Init, Used, IsUnused
<1>2. Hashed(table)
  BY <1>1 DEF Hashed, HashRings, Distinct, Homed
<1>3. Told(table, given)
  BY DEF Init, Told, MappedInodes
<1>4. Walked
  BY DEF Init, Walked
<1> QED
  BY <1>2, <1>3, <1>4, InitIInv, InitOneRing DEF FInv

(* Every step of a map that fits keeps the invariant and what was told.    *)
LEMMA NextFInv == ASSUME Fits PROVE FInv /\ [Next]_vars => FInv' /\ Kept
<1> SUFFICES ASSUME FInv, [Next]_vars PROVE FInv' /\ Kept
  OBVIOUS
<1>1. IInv'
  BY NextIInv DEF FInv
<1>2. table \in Table /\ oldest \in Slot /\ \A i \in MappedInodes : HashVal[i] \in Slot
  BY HashAssumption DEF FInv, IInv, TypeOK, Table
<1>3. /\ HashRings(table) /\ Hashed(table) /\ Told(table, given)
      /\ DOMAIN given = Inodes /\ Used(table) \subseteq Slot
  BY DEF FInv, Hashed, IInv, TypeOK, Used
<1>4. ASSUME NEW ino \in Inodes, MapUnmapped(ino) PROVE FInv' /\ Kept
  <2>1. given'[ino] = ino /\ \A i \in Inodes \ {ino} : given'[i] = given[i]
    BY <1>3, <1>4 DEF MapUnmapped
  <2>2. ino \in Inodes \ MappedInodes
    BY <1>4 DEF MapUnmapped
  <2>3. Told(table, given')
    BY <1>3, <2>1, <2>2 DEF Told, MappedInodes
  <2>4. Kept
    BY <1>3, <2>1, <2>2 DEF Told, Kept
  <2>5. table' = table /\ Walked'
    BY <1>4 DEF MapUnmapped, Walked
  <2> QED
    BY <1>1, <2>3, <2>4, <2>5, TableKept
<1>5. ASSUME NEW ino \in Inodes, MapHomeFree(ino) PROVE FInv' /\ Kept
  <2>0. PICK si, u : /\ si = HashVal[ino]
                     /\ u = HashJoin([LazyInit(table, si) EXCEPT ![si].ino = ino], si, si)
    OBVIOUS
  <2>1. ino \in MappedInodes /\ si \in Slot /\ si \notin Used(table) /\ Finish(u, si, ino)
    BY <1>2, <1>5, <2>0 DEF MapHomeFree, Used
  <2>2. \A s \in Used(table) : table[s].ino # ino
    BY <2>0, <2>1, HomeFreeNew
  <2>3. Claimed(table, u, si, ino)
    BY <1>2, <1>3, <2>0, <2>1, <2>2, HomeFreeClaims
  <2>4. Ready(table, u, si)
    BY <1>2, <2>0, <2>1, HomeFreeReady
  <2> QED
    BY <2>1, <2>3, <2>4, FinishMaps
<1>6. ASSUME NEW ino \in Inodes, MapHomeHit(ino) PROVE FInv' /\ Kept
  BY <1>2, <1>6, HitMaps DEF MapHomeHit
<1>7. ASSUME NEW ino \in Inodes, MapCollide(ino) PROVE FInv' /\ Kept
  <2>0. PICK si : si = HashVal[ino]
    OBVIOUS
  <2>1. /\ ino \in MappedInodes /\ si \in Used(table) /\ table[si].ino # ino
        /\ walk' = [ino |-> ino, first |-> si, si |-> table[si].hash_next]
        /\ UNCHANGED <<table, oldest, given>>
    BY <1>2, <1>7, <2>0 DEF MapCollide, Used
  <2>2. table[si].hash_next \in Used(table)
    BY <1>3, <2>1 DEF HashRings
  <2>3. Used(table)' = Used(table)
    BY <2>1 DEF Used
  <2>4. {si} \in SUBSET Used(table)
        /\ \A v \in {si} : /\ table[v].ino # ino
                           /\ table[v].hash_next \in {si} \cup {table[si].hash_next}
    BY <2>1
  <2>5. Walked'
    BY <2>0, <2>1, <2>2, <2>3, <2>4 DEF Walked
  <2>6. Kept
    BY <2>1 DEF Kept
  <2> QED
    BY <1>1, <1>3, <2>1, <2>5, <2>6, TableKept
<1>8. CASE WalkOn
  <2>1. /\ walk \in [ino : MappedInodes, first : Slot, si : Slot]
        /\ walk' = [walk EXCEPT !.si = table[walk.si].hash_next]
        /\ table[walk.si].ino # walk.ino /\ UNCHANGED <<table, oldest, given>>
    BY <1>8 DEF WalkOn, FInv, IInv, TypeOK
  <2>2. /\ walk'.ino = walk.ino /\ walk'.first = walk.first
        /\ walk'.si = table[walk.si].hash_next
    BY <2>1
  <2>3. /\ walk.first = HashVal[walk.ino]
        /\ walk.first \in Used(table) /\ walk.si \in Used(table)
    BY <1>8 DEF WalkOn, FInv, Walked
  <2>4. PICK V \in SUBSET Used(table) :
           /\ walk.first \in V
           /\ \A v \in V : /\ table[v].ino # walk.ino
                           /\ table[v].hash_next \in V \cup {walk.si}
    BY <1>8 DEF WalkOn, FInv, Walked
  <2>5. PICK W : W = V \cup {walk.si}
    OBVIOUS
  <2>6. /\ W \in SUBSET Used(table) /\ walk.first \in W
        /\ \A v \in W : /\ table[v].ino # walk.ino
                        /\ table[v].hash_next \in W \cup {table[walk.si].hash_next}
    BY <2>1, <2>3, <2>4, <2>5
  <2>7. table[walk.si].hash_next \in Used(table)
    BY <1>3, <2>3 DEF HashRings
  <2>8. Used(table)' = Used(table)
    BY <2>1 DEF Used
  <2>9. Walked'
    BY <2>1, <2>2, <2>3, <2>6, <2>7, <2>8 DEF Walked
  <2>10. Kept
    BY <2>1 DEF Kept
  <2> QED
    BY <1>1, <1>3, <2>1, <2>9, <2>10, TableKept
<1>9. CASE WalkHit
  <2>1. walk \in [ino : MappedInodes, first : Slot, si : Slot]
    BY <1>9 DEF WalkHit, FInv, IInv, TypeOK
  <2> QED
    BY <1>9, <2>1, HitMaps DEF WalkHit
<1>10. CASE WalkMiss
  <2>0. PICK u, si, ino : /\ u = Reallocate(table, oldest, si, ino)
                          /\ si = walk.si /\ ino = walk.ino
    OBVIOUS
  <2>1. ino \in MappedInodes /\ si \in Slot
    BY <1>10, <2>0 DEF WalkMiss, FInv, IInv, TypeOK
  <2>2. si = HashVal[ino] /\ si \in Used(table) /\ Finish(u, oldest, ino)
    BY <1>10, <2>0 DEF WalkMiss, FInv, Walked
  <2>3. \A s \in Used(table) : table[s].ino # ino
    BY <1>10, <2>0, WalkMissNew
  <2>4. oldest \notin Used(table)
    BY <2>1, <2>3, OldestFree
  <2>5. Claimed(table, u, oldest, ino)
    BY <1>2, <1>3, <2>0, <2>1, <2>2, <2>3, <2>4, ReallocateClaims
  <2>6. Ready(table, u, oldest)
    BY <1>2, <2>0, <2>1, ReallocateReady
  <2> QED
    BY <1>2, <2>1, <2>2, <2>5, <2>6, FinishMaps
<1>11. CASE UNCHANGED vars
  <2>1. Walked'
    BY <1>11 DEF vars, FInv, Walked, Used
  <2>2. Kept
    BY <1>11 DEF vars, Kept
  <2> QED
    BY <1>1, <1>3, <1>11, <2>1, <2>2, TableKept DEF vars
<1> QED
  BY <1>4, <1>5, <1>6, <1>7, <1>8, <1>9, <1>10, <1>11 DEF Next, Call, Walk

(* The invariant says what the run short_inode_fits checks.                *)
LEMMA FInvImplies == FInv => HashInverse /\ Injective
<1> SUFFICES ASSUME FInv PROVE HashInverse /\ Injective
  OBVIOUS
<1>1. HashInverse
  BY DEF FInv, Hashed, HashRings, HashInverse, InUse, Used
<1>2. ASSUME NEW i \in Inodes, NEW j \in Inodes, given[i] = given[j], given[i] # NotGiven
      PROVE  i = j
  <2>0. SHORT_INODE_UNMAPPED \in Nat /\ Inodes \subseteq Nat /\ \A s \in Slot : s \in Nat
    BY UnmappedAssumption, InodesAssumption, MaxAssumption DEF Slot
  <2>1. \A k \in Inodes : k \in MappedInodes \/ k <= SHORT_INODE_UNMAPPED
    BY <2>0 DEF MappedInodes
  <2>2. \A k \in MappedInodes : given[k] # NotGiven =>
           \E s \in Used(table) : table[s].ino = k /\ given[k] = s + SHORT_INODE_UNMAPPED + 1
    BY DEF FInv, Told
  <2>3. \A k \in Inodes \ MappedInodes : given[k] # NotGiven => given[k] = k
    BY DEF FInv, Told
  <2>4. Used(table) \subseteq Slot
    BY DEF Used
  <2>5. CASE i \in MappedInodes /\ j \in MappedInodes
    <3>1. PICK s \in Used(table) :
             table[s].ino = i /\ given[i] = s + SHORT_INODE_UNMAPPED + 1
      BY <1>2, <2>2, <2>5
    <3>2. PICK r \in Used(table) :
             table[r].ino = j /\ given[j] = r + SHORT_INODE_UNMAPPED + 1
      BY <1>2, <2>2, <2>5
    <3>3. s \in Nat /\ r \in Nat
          /\ s + SHORT_INODE_UNMAPPED + 1 = r + SHORT_INODE_UNMAPPED + 1
      BY <1>2, <2>0, <2>4, <3>1, <3>2
    <3>4. s = r
      BY <2>0, <3>3
    <3> QED
      BY <3>1, <3>2, <3>4
  <2>6. ASSUME NEW k \in MappedInodes, NEW l \in Inodes \ MappedInodes,
               given[k] = given[l], given[k] # NotGiven
        PROVE  FALSE
    <3>1. PICK s \in Used(table) : given[k] = s + SHORT_INODE_UNMAPPED + 1
      BY <2>2, <2>6
    <3>2. given[l] = l /\ l <= SHORT_INODE_UNMAPPED
      BY <2>1, <2>3, <2>6
    <3>3. s \in Nat /\ l \in Nat /\ l = s + SHORT_INODE_UNMAPPED + 1
      BY <2>0, <2>4, <2>6, <3>1, <3>2
    <3> QED
      BY <2>0, <3>2, <3>3
  <2>7. CASE i \notin MappedInodes /\ j \notin MappedInodes
    BY <1>2, <2>3, <2>7
  <2> QED
    BY <1>2, <2>5, <2>6, <2>7
<1> QED
  BY <1>1, <1>2 DEF Injective

(* While the inodes fit the table its hash rings stay doubly linked, for   *)
(* every table size and every hash function: no walk leaves its ring.      *)
THEOREM HashRing == ASSUME Fits PROVE Spec => []HashInverse
<1>1. Init => FInv
  BY InitFInv
<1>2. FInv /\ [Next]_vars => FInv'
  BY NextFInv
<1>3. FInv => HashInverse
  BY FInvImplies
<1> QED
  BY <1>1, <1>2, <1>3, PTL DEF Spec

(* While the inodes fit the table, two files never appear to the program   *)
(* under one inode number.                                                 *)
THEOREM NumbersDiffer == ASSUME Fits PROVE Spec => []Injective
<1>1. Init => FInv
  BY InitFInv
<1>2. FInv /\ [Next]_vars => FInv'
  BY NextFInv
<1>3. FInv => Injective
  BY FInvImplies
<1> QED
  BY <1>1, <1>2, <1>3, PTL DEF Spec

(* While the inodes fit the table, a file keeps the number it was first    *)
(* given, whatever else is mapped in between.                              *)
THEOREM NumbersStay == ASSUME Fits PROVE Spec => Stable
<1>1. Init => FInv
  BY InitFInv
<1>2. FInv /\ [Next]_vars => FInv'
  BY NextFInv
<1>3. FInv /\ [Next]_vars =>
        [\A i \in Inodes : given[i] # NotGiven => given'[i] = given[i]]_given
  BY NextFInv DEF Kept
<1> QED
  BY <1>1, <1>2, <1>3, PTL DEF Spec, Stable

-----------------------------------------------------------------------------
(* The refinement of ShortInodeLru: the LRU ring as a list of the slots.   *)

(* f lists as many slots as there are, o first and each followed by its    *)
(* successor on the LRU ring of t.                                         *)
Listed(t, o, f) ==
    /\ f \in [1 .. SHORT_INODE_MAX -> Slot]
    /\ f[1] = o
    /\ \A n \in 1 .. SHORT_INODE_MAX : n > 1 => f[n] = NextOf(t, f[n - 1])

(* A set of numbers has a least element.                                   *)
LEMMA Least ==
    ASSUME NEW S \in SUBSET Nat, S # {}
    PROVE  \E x \in S : \A y \in S : x <= y
<1>1. IsWellFoundedOn(OpToRel(<, Nat), Nat)
  BY NatLessThanWellFounded
<1>2. PICK x \in S : \A y \in S : ~(<<y, x>> \in OpToRel(<, Nat))
  BY <1>1, WFMin
<1>3. \A y \in S : ~(y < x)
  BY <1>2 DEF OpToRel
<1> QED
  BY <1>3

(* There is such a list: else there would be a least length that none has. *)
LEMMA ListExists ==
    ASSUME NEW t \in Table, NEW o \in Slot
    PROVE  \E f : Listed(t, o, f)
<1> DEFINE Upto(m, f) == /\ f \in [1 .. m -> Slot] /\ f[1] = o
                         /\ \A n \in 1 .. m : n > 1 => f[n] = NextOf(t, f[n - 1])
           Bad == {m \in Nat : m >= 1 /\ ~ \E f : Upto(m, f)}
<1>0. \A s \in Slot : NextOf(t, s) \in Slot
  BY LinksTyped
<1>1. Bad = {}
  <2> SUFFICES ASSUME Bad # {} PROVE FALSE
    OBVIOUS
  <2>1. Bad \in SUBSET Nat
    OBVIOUS
  <2>2. PICK m \in Bad : \A k \in Bad : m <= k
    BY <2>1, Least
  <2>3. m \in Nat /\ m >= 1 /\ ~ \E f : Upto(m, f)
    BY <2>2
  <2>4. CASE m = 1
    <3>0. PICK f : f = [n \in 1 .. 1 |-> o]
      OBVIOUS
    <3>1. f \in [1 .. 1 -> Slot] /\ f[1] = o
      BY <3>0
    <3>2. Upto(1, f)
      BY <3>1
    <3> QED
      BY <2>3, <2>4, <3>2
  <2>5. CASE m > 1
    <3>0. m - 1 \in Nat /\ m - 1 >= 1 /\ ~(m <= m - 1)
      BY <2>3, <2>5
    <3>1. m - 1 \notin Bad
      <4> HIDE DEF Bad
      <4> QED
        BY <2>2, <3>0
    <3>2. PICK f : Upto(m - 1, f)
      BY <3>0, <3>1
    <3>3. PICK g : g = [n \in 1 .. m |-> IF n < m THEN f[n] ELSE NextOf(t, f[m - 1])]
      OBVIOUS
    <3>4. m - 1 \in 1 .. m - 1 /\ f[m - 1] \in Slot
      BY <3>0, <3>2
    <3>5. g \in [1 .. m -> Slot]
      BY <1>0, <2>3, <3>2, <3>3, <3>4
    <3>6. g[1] = o
      BY <2>3, <2>5, <3>2, <3>3
    <3>7. ASSUME NEW n \in 1 .. m, n > 1 PROVE g[n] = NextOf(t, g[n - 1])
      <4>1. n - 1 \in 1 .. m /\ n - 1 < m
        BY <2>3, <3>7
      <4>2. g[n - 1] = f[n - 1]
        BY <3>3, <4>1
      <4>3. CASE n < m
        BY <2>3, <3>2, <3>3, <3>7, <4>2, <4>3
      <4>4. CASE n = m
        BY <2>3, <3>3, <3>7, <4>2, <4>4
      <4> QED
        BY <2>3, <4>3, <4>4
    <3>8. Upto(m, g)
      BY <3>5, <3>6, <3>7
    <3> QED
      BY <2>3, <3>8
  <2> QED
    BY <2>3, <2>4, <2>5
<1>2. SHORT_INODE_MAX \in Nat /\ SHORT_INODE_MAX >= 1
  BY MaxAssumption
<1>3. PICK f : Upto(SHORT_INODE_MAX, f)
  BY <1>1, <1>2
<1> QED
  BY <1>3 DEF Listed

(* There is only one: two lists would differ at a least place.             *)
LEMMA ListUnique ==
    ASSUME NEW t, NEW o, NEW f, NEW g, Listed(t, o, f), Listed(t, o, g)
    PROVE  f = g
<1> DEFINE Bad == {n \in 1 .. SHORT_INODE_MAX : f[n] # g[n]}
<1>0. SHORT_INODE_MAX \in Nat /\ SHORT_INODE_MAX >= 2
  BY MaxAssumption
<1>1. Bad = {}
  <2> SUFFICES ASSUME Bad # {} PROVE FALSE
    OBVIOUS
  <2>1. Bad \in SUBSET Nat
    BY <1>0
  <2>2. PICK n \in Bad : \A k \in Bad : n <= k
    BY <2>1, Least
  <2>3. n \in 1 .. SHORT_INODE_MAX /\ f[n] # g[n] /\ n \in Nat
    BY <1>0, <2>2
  <2>4. n > 1
    BY <1>0, <2>3 DEF Listed
  <2>5. n - 1 \in 1 .. SHORT_INODE_MAX /\ n - 1 < n
    BY <1>0, <2>3, <2>4
  <2>6. f[n - 1] = g[n - 1]
    BY <2>2, <2>3, <2>5
  <2> QED
    BY <2>3, <2>4, <2>6 DEF Listed
<1>2. f = [n \in 1 .. SHORT_INODE_MAX |-> f[n]]
  BY DEF Listed
<1>3. g = [n \in 1 .. SHORT_INODE_MAX |-> g[n]]
  BY DEF Listed
<1> QED
  BY <1>1, <1>2, <1>3

(* The mapping reads that list off the ring.                               *)
Reading(f) ==
    [n \in 1 .. SHORT_INODE_MAX |-> IF n = 1 THEN oldest ELSE LruNext(f[n - 1])]

(* LruOrder is the list of table from short_inode_oldest on.               *)
LEMMA OrderListed ==
    ASSUME table \in Table, oldest \in Slot
    PROVE  Listed(table, oldest, LruOrder)
<1> DEFINE ring == CHOOSE f : f = Reading(f)
<1>0. SHORT_INODE_MAX \in Nat /\ SHORT_INODE_MAX >= 2
  BY MaxAssumption
<1>1. PICK f : Listed(table, oldest, f)
  BY ListExists
<1>2. f = Reading(f)
  <2>1. \A n \in 1 .. SHORT_INODE_MAX : f[n] = IF n = 1 THEN oldest ELSE LruNext(f[n - 1])
    BY <1>0, <1>1 DEF Listed, LruNext
  <2>2. f \in [1 .. SHORT_INODE_MAX -> Slot]
    BY <1>1 DEF Listed
  <2> QED
    BY <2>1, <2>2 DEF Reading
<1>3. ring = Reading(ring)
  BY <1>2
<1>4. LruOrder = ring
  BY DEF LruOrder, Reading
<1> HIDE DEF ring
<1>5. \A n \in 1 .. SHORT_INODE_MAX : ring[n] = IF n = 1 THEN oldest ELSE LruNext(ring[n - 1])
  BY <1>3 DEF Reading
<1> DEFINE Bad == {n \in 1 .. SHORT_INODE_MAX : ring[n] # f[n]}
<1>6. Bad = {}
  <2> SUFFICES ASSUME Bad # {} PROVE FALSE
    OBVIOUS
  <2>1. Bad \in SUBSET Nat
    BY <1>0
  <2>2. PICK n \in Bad : \A k \in Bad : n <= k
    BY <2>1, Least
  <2>3. n \in 1 .. SHORT_INODE_MAX /\ f[n] # ring[n] /\ n \in Nat
    BY <1>0, <2>2
  <2>4. n > 1
    BY <1>0, <1>1, <1>5, <2>3 DEF Listed
  <2>5. n - 1 \in 1 .. SHORT_INODE_MAX /\ n - 1 < n
    BY <1>0, <2>3, <2>4
  <2>6. f[n - 1] = ring[n - 1]
    BY <2>2, <2>3, <2>5
  <2> QED
    BY <1>1, <1>5, <2>3, <2>4, <2>6 DEF Listed, LruNext
<1>7. ring = f
  <2>1. ring = [n \in 1 .. SHORT_INODE_MAX |-> ring[n]]
    BY <1>3 DEF Reading
  <2>2. f = [n \in 1 .. SHORT_INODE_MAX |-> f[n]]
    BY <1>1 DEF Listed
  <2> QED
    BY <1>6, <2>1, <2>2
<1> QED
  BY <1>1, <1>4, <1>7

(* The table has SHORT_INODE_MAX slots.                                    *)
LEMMA SlotCount ==
    /\ IsFiniteSet(Slot) /\ Cardinality(Slot) = SHORT_INODE_MAX
    /\ \A m \in Nat : IsFiniteSet(1 .. m) /\ Cardinality(1 .. m) = m
<1>1. 0 \in Int /\ SHORT_INODE_MAX - 1 \in Int /\ ~(0 > SHORT_INODE_MAX - 1)
      /\ (SHORT_INODE_MAX - 1) - 0 + 1 = SHORT_INODE_MAX
  BY MaxAssumption
<1>2. IsFiniteSet(Slot) /\ Cardinality(Slot) = SHORT_INODE_MAX
  BY <1>1, FS_Interval DEF Slot
<1>3. ASSUME NEW m \in Nat PROVE IsFiniteSet(1 .. m) /\ Cardinality(1 .. m) = m
  <2>1. 1 \in Int /\ m \in Int /\ (IF 1 > m THEN 0 ELSE m - 1 + 1) = m
    OBVIOUS
  <2> QED
    BY <2>1, FS_Interval
<1> QED
  BY <1>2, <1>3

(* No slot is listed twice.  If one were, then, going back from both       *)
(* places, the first one listed would be; the slots before its second      *)
(* place would be closed under the links, and too few to be all.           *)
LEMMA ListInjective ==
    ASSUME NEW t \in Table, LinksInvert(t), OneRing(t), NEW o \in Slot, NEW f,
           Listed(t, o, f), NEW i \in 1 .. SHORT_INODE_MAX,
           NEW j \in 1 .. SHORT_INODE_MAX, i < j
    PROVE  f[i] # f[j]
<1> DEFINE M == SHORT_INODE_MAX
           Bad == {n \in 1 .. M : \E m \in 1 .. M : n < m /\ f[n] = f[m]}
<1>0. M \in Nat /\ M >= 2
  BY MaxAssumption
<1>1. /\ f \in [1 .. M -> Slot] /\ f[1] = o
      /\ \A n \in 1 .. M : n > 1 => f[n] = NextOf(t, f[n - 1])
  BY DEF Listed
<1> SUFFICES ASSUME f[i] = f[j] PROVE FALSE
  OBVIOUS
<1>2. i \in Bad /\ Bad \in SUBSET Nat
  BY <1>0
<1>3. PICK n \in Bad : \A k \in Bad : n <= k
  BY <1>2, Least
<1>4. PICK m \in 1 .. M : n < m /\ f[n] = f[m] /\ n \in 1 .. M
  BY <1>3
<1>5. n = 1
  <2> SUFFICES ASSUME n # 1 PROVE FALSE
    OBVIOUS
  <2>1. /\ n > 1 /\ m > 1 /\ n - 1 \in 1 .. M /\ m - 1 \in 1 .. M
        /\ n - 1 < m - 1 /\ ~(n <= n - 1)
    BY <1>0, <1>4
  <2>2. f[n] = NextOf(t, f[n - 1]) /\ f[m] = NextOf(t, f[m - 1])
    BY <1>1, <1>4, <2>1
  <2>3. f[n - 1] = f[m - 1]
    <3>1. f[n - 1] \in Slot /\ f[m - 1] \in Slot
      BY <1>1, <2>1
    <3> QED
      BY <1>4, <2>2, <3>1 DEF LinksInvert
  <2>4. n - 1 \in Bad
    BY <2>1, <2>3
  <2> HIDE DEF Bad
  <2> QED
    BY <1>3, <2>1, <2>4
<1>6. m - 1 \in Nat /\ 1 .. m - 1 \subseteq 1 .. M /\ 1 \in 1 .. m - 1 /\ m > 1
      /\ m - 1 < M /\ M \in Nat
  BY <1>0, <1>4, <1>5
<1>7. PICK S : S = {f[k] : k \in 1 .. m - 1}
  OBVIOUS
<1>8. S \in SUBSET Slot /\ S # {}
  BY <1>1, <1>6, <1>7
<1>9. ASSUME NEW s \in S PROVE NextOf(t, s) \in S
  <2>1. PICK k \in 1 .. m - 1 : s = f[k]
    BY <1>7
  <2>2. k + 1 \in 1 .. M /\ k + 1 > 1 /\ (k + 1) - 1 = k
    BY <1>4, <1>6, <2>1
  <2>3. NextOf(t, s) = f[k + 1]
    BY <1>1, <2>1, <2>2
  <2>4. CASE k + 1 \in 1 .. m - 1
    BY <1>7, <2>3, <2>4
  <2>5. CASE k + 1 \notin 1 .. m - 1
    <3>1. k + 1 = m
      BY <1>6, <2>1, <2>5
    <3> QED
      BY <1>4, <1>5, <1>6, <1>7, <2>3, <3>1
  <2> QED
    BY <2>4, <2>5
<1>10. S = Slot
  BY <1>8, <1>9 DEF OneRing
<1>11. PICK g : g = [k \in 1 .. m - 1 |-> f[k]]
  OBVIOUS
<1>12. g \in Surjection(1 .. m - 1, Slot)
  BY <1>1, <1>6, <1>7, <1>10, <1>11 DEF Surjection
<1>13. Cardinality(Slot) <= Cardinality(1 .. m - 1)
  BY <1>6, <1>12, SlotCount, FS_Surjection
<1>14. M <= m - 1
  BY <1>6, <1>13, SlotCount
<1> QED
  BY <1>6, <1>14

(* Every slot is listed, at one place, and the ring closes after the last. *)
LEMMA ListIsRing ==
    ASSUME NEW t \in Table, LinksInvert(t), OneRing(t), NEW o \in Slot, NEW f,
           Listed(t, o, f)
    PROVE  /\ \A i, j \in 1 .. SHORT_INODE_MAX : f[i] = f[j] => i = j
           /\ \A s \in Slot : \E i \in 1 .. SHORT_INODE_MAX : f[i] = s
           /\ NextOf(t, f[SHORT_INODE_MAX]) = o
<1> DEFINE M == SHORT_INODE_MAX
<1>0. M \in Nat /\ M >= 2 /\ M \in 1 .. M
  BY MaxAssumption
<1>1. /\ f \in [1 .. M -> Slot] /\ f[1] = o
      /\ \A n \in 1 .. M : n > 1 => f[n] = NextOf(t, f[n - 1])
  BY DEF Listed
<1>2. ASSUME NEW i \in 1 .. M, NEW j \in 1 .. M, f[i] = f[j] PROVE i = j
  <2>1. i < j \/ i = j \/ j < i
    BY <1>0
  <2> QED
    BY <1>2, <2>1, ListInjective
<1>3. f \in Injection(1 .. M, Slot)
  BY <1>1, <1>2 DEF Injection, IsInjective
<1>4. f \in Surjection(1 .. M, Slot)
  BY <1>0, <1>3, SlotCount, FS_Injection
<1>5. \A s \in Slot : \E i \in 1 .. M : f[i] = s
  BY <1>4 DEF Surjection
<1>6. NextOf(t, f[M]) = o
  <2>1. f[M] \in Slot /\ NextOf(t, f[M]) \in Slot
    BY <1>0, <1>1, LinksTyped
  <2>2. PICK k \in 1 .. M : f[k] = NextOf(t, f[M])
    BY <1>5, <2>1
  <2>3. CASE k = 1
    BY <1>1, <2>2, <2>3
  <2>4. CASE k # 1
    <3>1. k > 1 /\ k - 1 \in 1 .. M /\ k - 1 # M
      BY <1>0, <2>2, <2>4
    <3>2. NextOf(t, f[k - 1]) = NextOf(t, f[M]) /\ f[k - 1] \in Slot
      BY <1>1, <2>2, <3>1
    <3>3. f[k - 1] = f[M]
      BY <2>1, <3>2 DEF LinksInvert
    <3> QED
      BY <1>0, <1>2, <3>1, <3>3
  <2> QED
    BY <2>3, <2>4
<1> QED
  BY <1>2, <1>5, <1>6

(* The list f with what is at place p moved to its end.                    *)
ToEnd(f, p) ==
    [k \in 1 .. SHORT_INODE_MAX |->
        IF k < p THEN f[k] ELSE IF k < SHORT_INODE_MAX THEN f[k + 1] ELSE f[p]]

(* Where the last but one of that list comes from: it is the entry after   *)
(* which the tail of short_inode_map puts the one it moves.                *)
LEMMA LastButOne ==
    ASSUME NEW t \in Table, LinksInvert(t), OneRing(t), NEW o0 \in Slot, NEW f,
           Listed(t, o0, f), NEW p \in 1 .. SHORT_INODE_MAX, NEW o, NEW z,
           o = (IF p = 1 THEN NextOf(t, f[p]) ELSE o0),
           z = (IF o = NextOf(t, f[p]) THEN PrevOf(t, f[p]) ELSE PrevOf(t, o))
    PROVE  /\ o = IF p = 1 THEN f[2] ELSE f[1]
           /\ z = IF p = SHORT_INODE_MAX THEN f[SHORT_INODE_MAX - 1]
                                         ELSE f[SHORT_INODE_MAX]
<1> DEFINE M == SHORT_INODE_MAX
<1>0. M \in Nat /\ M >= 2 /\ p \in Nat /\ p >= 1 /\ p <= M
  BY MaxAssumption
<1>1. /\ f \in [1 .. M -> Slot] /\ f[1] = o0
      /\ \A n \in 1 .. M : n > 1 => f[n] = NextOf(t, f[n - 1])
  BY DEF Listed
<1>2. /\ \A i, j \in 1 .. M : f[i] = f[j] => i = j
      /\ NextOf(t, f[M]) = f[1]
  <2>1. /\ \A i, j \in 1 .. M : f[i] = f[j] => i = j
        /\ NextOf(t, f[M]) = o0
    BY ListIsRing
  <2> QED
    BY <1>1, <2>1
<1>3. \A n \in 1 .. M : n > 1 => PrevOf(t, f[n]) = f[n - 1]
  <2> SUFFICES ASSUME NEW n \in 1 .. M, n > 1 PROVE PrevOf(t, f[n]) = f[n - 1]
    OBVIOUS
  <2>1. n - 1 \in 1 .. M
    BY <1>0
  <2>2. f[n - 1] \in Slot /\ f[n] = NextOf(t, f[n - 1])
    BY <1>1, <2>1
  <2> QED
    BY <2>2 DEF LinksInvert
<1>4. PrevOf(t, f[1]) = f[M]
  <2>1. f[M] \in Slot
    BY <1>0, <1>1
  <2> QED
    BY <1>2, <2>1 DEF LinksInvert
<1>5. NextOf(t, f[p]) = IF p = M THEN f[1] ELSE f[p + 1]
  <2>1. CASE p = M
    BY <1>2, <2>1
  <2>2. CASE p # M
    <3>1. p + 1 \in 1 .. M /\ p + 1 > 1 /\ (p + 1) - 1 = p
      BY <1>0, <2>2
    <3> QED
      BY <1>1, <2>2, <3>1
  <2> QED
    BY <2>1, <2>2
<1>6. o = IF p = 1 THEN f[2] ELSE f[1]
  BY <1>0, <1>1, <1>5
<1>7. CASE p = M
  <2>1. p # 1 /\ p > 1 /\ o = f[1] /\ NextOf(t, f[p]) = f[1]
    BY <1>0, <1>5, <1>6, <1>7
  <2>2. z = PrevOf(t, f[M])
    BY <1>7, <2>1
  <2> QED
    BY <1>0, <1>3, <1>6, <1>7, <2>1, <2>2
<1>8. CASE p # M
  <2>1. NextOf(t, f[p]) = f[p + 1] /\ p + 1 \in 1 .. M /\ 1 \in 1 .. M
    BY <1>0, <1>5, <1>8
  <2>2. CASE p = 1
    <3>1. o = NextOf(t, f[p])
      BY <2>2
    <3> QED
      BY <1>4, <1>6, <1>8, <2>2, <3>1
  <2>3. CASE p # 1
    <3>1. p + 1 # 1
      BY <1>0
    <3>2. f[1] # f[p + 1]
      BY <1>2, <2>1, <3>1
    <3> QED
      BY <1>4, <1>6, <1>8, <2>1, <2>3, <3>2
  <2> QED
    BY <2>2, <2>3
<1> QED
  BY <1>6, <1>7, <1>8

(* Moving an entry to just before the oldest is moving it to the end of    *)
(* the list.                                                               *)
LEMMA MovedListed ==
    ASSUME NEW t \in Table, LinksInvert(t), OneRing(t), NEW o0 \in Slot, NEW f,
           Listed(t, o0, f), NEW p \in 1 .. SHORT_INODE_MAX, NEW o,
           o = (IF p = 1 THEN NextOf(t, f[p]) ELSE o0),
           NEW u, \A s \in Slot : NextOf(u, s) = Moved(t, o, f[p], s)
    PROVE  Listed(u, o, ToEnd(f, p))
<1> DEFINE M == SHORT_INODE_MAX
<1>0. M \in Nat /\ M >= 2 /\ p \in Nat /\ p >= 1 /\ p <= M
  BY MaxAssumption
<1>1. /\ f \in [1 .. M -> Slot] /\ f[1] = o0
      /\ \A n \in 1 .. M : n > 1 => f[n] = NextOf(t, f[n - 1])
  BY DEF Listed
<1>2. /\ \A i, j \in 1 .. M : f[i] = f[j] => i = j
      /\ NextOf(t, f[M]) = f[1]
  <2>1. /\ \A i, j \in 1 .. M : f[i] = f[j] => i = j
        /\ NextOf(t, f[M]) = o0
    BY ListIsRing
  <2> QED
    BY <1>1, <2>1
<1>3. PICK a, b, z, e : /\ e = f[p] /\ a = NextOf(t, e) /\ b = PrevOf(t, e)
                        /\ z = IF o = a THEN b ELSE PrevOf(t, o)
  OBVIOUS
<1>4. /\ o = IF p = 1 THEN f[2] ELSE f[1]
      /\ z = IF p = M THEN f[M - 1] ELSE f[M]
  BY <1>3, LastButOne
<1>5. \A s \in Slot : NextOf(u, s) = IF s = e THEN o ELSE IF s = z THEN e
                                     ELSE IF s = b THEN a ELSE NextOf(t, s)
  BY <1>3 DEF Moved
<1>6. PICK h : h = ToEnd(f, p)
  OBVIOUS
<1>7. /\ \A k \in 1 .. M : h[k] = IF k < p THEN f[k] ELSE IF k < M THEN f[k + 1] ELSE f[p]
      /\ DOMAIN h = 1 .. M /\ h = [k \in 1 .. M |-> h[k]]
  BY <1>6 DEF ToEnd
<1>8. h \in [1 .. M -> Slot]
  <2>1. ASSUME NEW k \in 1 .. M PROVE h[k] \in Slot
    <3>1. CASE k < p
      BY <1>1, <1>7, <3>1
    <3>2. CASE ~(k < p) /\ k < M
      <4>1. k + 1 \in 1 .. M
        BY <1>0, <3>2
      <4> QED
        BY <1>1, <1>7, <3>2, <4>1
    <3>3. CASE ~(k < p) /\ ~(k < M)
      BY <1>1, <1>7, <3>3
    <3> QED
      BY <3>1, <3>2, <3>3
  <2> QED
    BY <1>7, <2>1
<1>9. h[1] = o
  <2>1. 1 \in 1 .. M /\ 1 < M /\ 1 + 1 = 2 /\ (1 < p <=> p # 1)
    BY <1>0
  <2> QED
    BY <1>4, <1>7, <2>1
<1>10. ASSUME NEW n \in 1 .. M, n > 1 PROVE h[n] = NextOf(u, h[n - 1])
  <2>0. PICK k \in 1 .. M : /\ k = n - 1 /\ k < M /\ n = k + 1 /\ k \in Nat
                            /\ k + 1 \in 1 .. M /\ k + 1 <= M
    BY <1>0, <1>10
  <2>1. PICK q \in 1 .. M : /\ q = (IF k < p THEN k ELSE k + 1)
                            /\ q # p /\ h[k] = f[q]
    <3>1. CASE k < p
      BY <1>0, <1>7, <2>0, <3>1
    <3>2. CASE ~(k < p)
      <4>1. k + 1 # p
        BY <1>0, <2>0, <3>2
      <4> QED
        BY <1>7, <2>0, <3>2, <4>1
    <3> QED
      BY <3>1, <3>2
  <2>2. h[k] \in Slot /\ h[k] # e
    BY <1>1, <1>2, <1>3, <2>1
  <2>3. CASE k = M - 1
    <3>1. h[k] = z
      <4>1. k < p <=> p = M
        BY <1>0, <2>3
      <4>2. k + 1 = M
        BY <1>0, <2>3
      <4> QED
        BY <1>4, <2>1, <2>3, <4>1, <4>2
    <3>2. h[n] = e
      <4>1. n = M /\ ~(n < p) /\ ~(n < M)
        BY <1>0, <2>0, <2>3
      <4> QED
        BY <1>3, <1>7, <1>10, <4>1
    <3> QED
      BY <1>5, <2>0, <2>2, <3>1, <3>2
  <2>4. CASE k # M - 1
    <3>1. k < M - 1 /\ n < M /\ M - 1 \in 1 .. M /\ M \in 1 .. M
      BY <1>0, <2>0, <2>4
    <3>2. h[k] # z
      <4>1. CASE p = M
        <5>1. q # M - 1
          BY <1>0, <2>0, <2>1, <3>1, <4>1
        <5> QED
          BY <1>2, <1>4, <2>1, <3>1, <4>1, <5>1
      <4>2. CASE p # M
        <5>1. q # M
          BY <1>0, <2>0, <2>1, <3>1, <4>2
        <5> QED
          BY <1>2, <1>4, <2>1, <3>1, <4>2, <5>1
      <4> QED
        BY <4>1, <4>2
    <3>3. CASE n = p
      <4>1. /\ k < p /\ q = k /\ ~(n < p) /\ p > 1 /\ k = p - 1 /\ p # M
            /\ p + 1 \in 1 .. M /\ p + 1 > 1 /\ (p + 1) - 1 = p
        BY <1>0, <2>0, <2>1, <3>1, <3>3
      <4>2. h[k] = b
        <5>1. f[k] \in Slot /\ f[p] = NextOf(t, f[k])
          BY <1>1, <2>0, <4>1
        <5> QED
          BY <1>3, <2>1, <4>1, <5>1 DEF LinksInvert
      <4>3. h[n] = f[p + 1]
        BY <1>7, <1>10, <3>1, <3>3, <4>1
      <4>4. a = f[p + 1]
        BY <1>1, <1>3, <4>1
      <4> QED
        BY <1>5, <2>0, <2>2, <3>2, <4>2, <4>3, <4>4
    <3>4. CASE n # p
      <4>1. /\ q + 1 \in 1 .. M /\ q + 1 > 1 /\ (q + 1) - 1 = q /\ q + 1 # p
            /\ q + 1 = IF n < p THEN n ELSE n + 1
        <5>1. CASE k < p
          <6>0. q = k
            BY <2>1, <5>1
          <6>1. q + 1 = n /\ n < p
            BY <1>0, <2>0, <3>4, <5>1, <6>0
          <6> QED
            BY <1>0, <2>0, <3>1, <3>4, <6>0, <6>1
        <5>2. CASE ~(k < p)
          <6>1. q = k + 1 /\ q = n /\ ~(n < p)
            BY <1>0, <2>0, <2>1, <5>2
          <6> QED
            BY <1>0, <2>0, <3>1, <3>4, <6>1
        <5> QED
          BY <5>1, <5>2
      <4>2. h[n] = f[q + 1] /\ f[q + 1] = NextOf(t, f[q])
        BY <1>1, <1>7, <1>10, <3>1, <4>1
      <4>3. h[k] # b
        <5> SUFFICES ASSUME h[k] = b PROVE FALSE
          OBVIOUS
        <5>1. NextOf(t, b) = e
          BY <1>1, <1>3 DEF LinksInvert
        <5>2. f[q + 1] = f[p]
          BY <1>3, <2>1, <4>2, <5>1
        <5> QED
          BY <1>2, <4>1, <5>2
      <4> QED
        BY <1>5, <2>0, <2>1, <2>2, <3>2, <4>2, <4>3
    <3> QED
      BY <3>3, <3>4
  <2> QED
    BY <2>3, <2>4
<1>11. Listed(u, o, h)
  BY <1>8, <1>9, <1>10 DEF Listed
<1> QED
  BY <1>6, <1>11

(* The abstract move of a slot to the end of a sequence.                   *)
LEMMA ToEndSequence ==
    ASSUME NEW f \in [1 .. SHORT_INODE_MAX -> Slot], NEW p \in 1 .. SHORT_INODE_MAX
    PROVE  /\ Len(f) = SHORT_INODE_MAX
           /\ SubSeq(f, 1, p - 1) \o SubSeq(f, p + 1, SHORT_INODE_MAX) \o <<f[p]>>
                = ToEnd(f, p)
<1> DEFINE M == SHORT_INODE_MAX
<1>0. M \in Nat /\ M >= 2 /\ p \in Nat /\ p >= 1 /\ p <= M
  BY MaxAssumption
<1>1. f \in Seq(Slot) /\ Len(f) = M
  BY <1>0
<1>2. PICK x, y : x = SubSeq(f, 1, p - 1) /\ y = SubSeq(f, p + 1, M)
  OBVIOUS
<1>3. /\ x \in Seq(Slot) /\ Len(x) = p - 1
      /\ \A i \in 1 .. p - 1 : x[i] = f[i]
  BY <1>0, <1>1, <1>2
<1>4. /\ y \in Seq(Slot) /\ Len(y) = M - p
      /\ \A i \in 1 .. M - p : y[i] = f[p + i]
  BY <1>0, <1>1, <1>2
<1>5. PICK w : w = x \o y
  OBVIOUS
<1>6. /\ w \in Seq(Slot) /\ Len(w) = M - 1
      /\ \A i \in 1 .. M - 1 : w[i] = IF i < p THEN f[i] ELSE f[i + 1]
  <2>1. w \in Seq(Slot) /\ Len(w) = Len(x) + Len(y)
    <3>1. x \in Seq(Slot) /\ y \in Seq(Slot)
      BY <1>3, <1>4
    <3> QED
      BY <1>5, <3>1
  <2>2. Len(x) + Len(y) = M - 1
    BY <1>0, <1>3, <1>4
  <2>3. ASSUME NEW i \in 1 .. M - 1 PROVE w[i] = IF i < p THEN f[i] ELSE f[i + 1]
    <3>1. w[i] = IF i <= Len(x) THEN x[i] ELSE y[i - Len(x)]
      BY <1>3, <1>4, <1>5, <2>2
    <3>2. CASE i < p
      <4>1. i \in 1 .. p - 1 /\ i <= Len(x)
        BY <1>0, <1>3, <3>2
      <4> QED
        BY <1>3, <3>1, <3>2, <4>1
    <3>3. CASE ~(i < p)
      <4>1. PICK j \in 1 .. M - p : j = i - (p - 1) /\ p + j = i + 1 /\ ~(i <= p - 1)
        BY <1>0, <3>3
      <4>2. w[i] = y[j]
        BY <1>3, <3>1, <4>1
      <4> QED
        BY <1>4, <3>3, <4>1, <4>2
    <3> QED
      BY <3>2, <3>3
  <2> QED
    BY <2>1, <2>2, <2>3
<1>7. PICK v : v = w \o <<f[p]>>
  OBVIOUS
<1>8. /\ v \in Seq(Slot) /\ Len(v) = M
      /\ \A i \in 1 .. M : v[i] = IF i < M THEN w[i] ELSE f[p]
  BY <1>0, <1>6, <1>7
<1>9. v = [i \in 1 .. M |-> v[i]]
  BY <1>0, <1>8
<1>10. \A i \in 1 .. M : v[i] = IF i < p THEN f[i] ELSE IF i < M THEN f[i + 1] ELSE f[p]
  BY <1>0, <1>6, <1>8
<1>11. v = ToEnd(f, p)
  BY <1>9, <1>10 DEF ToEnd
<1> QED
  BY <1>1, <1>2, <1>5, <1>7, <1>11

-----------------------------------------------------------------------------
(* The slots in the order the mapping reads off the ring.                  *)
Ordered == Listed(table, oldest, LruOrder)

(* The invariant orders all slots.                                         *)
LEMMA FInvOrdered == FInv => Ordered
<1> SUFFICES ASSUME FInv PROVE Ordered
  OBVIOUS
<1>1. table \in Table /\ oldest \in Slot
  BY DEF FInv, IInv, TypeOK, Table
<1> QED
  BY <1>1, OrderListed DEF Ordered

(* The empty table is an initial state of the plain map.                   *)
LEMMA InitRefines == Init => Lru!Init
<1> SUFFICES ASSUME Init PROVE Lru!Init
  OBVIOUS
<1>1. FInv
  BY InitFInv
<1>2. table \in Table /\ oldest \in Slot /\ LinksInvert(table) /\ OneRing(table)
  BY <1>1 DEF FInv, IInv, TypeOK, Table, LruInverse, LinksInvert, LruNext, LruPrev
<1>3. Listed(table, oldest, LruOrder)
  BY <1>1, FInvOrdered DEF Ordered
<1>4. /\ LruOrder \in [1 .. SHORT_INODE_MAX -> Slot]
      /\ \A i, j \in 1 .. SHORT_INODE_MAX : LruOrder[i] = LruOrder[j] => i = j
  <2>1. PICK f : f = LruOrder
    OBVIOUS
  <2>2. Listed(table, oldest, f)
    BY <1>3, <2>1
  <2>3. \A i, j \in 1 .. SHORT_INODE_MAX : f[i] = f[j] => i = j
    BY <1>2, <2>2, ListIsRing
  <2> QED
    BY <2>1, <2>2, <2>3 DEF Listed
<1>5. LruOrder \in Lru!Injection(1 .. Cardinality(Slot), Slot)
  BY <1>4, SlotCount DEF Lru!Injection, Lru!IsInjective
<1>6. Owner = [s \in Slot |-> ZERO]
  BY DEF Init, Owner, InUse, IsUnused
<1>7. given = [i \in MappedInodes \cup (Inodes \ MappedInodes) |-> NotGiven]
  <2>1. MappedInodes \cup (Inodes \ MappedInodes) = Inodes
    BY DEF MappedInodes
  <2> QED
    BY <2>1 DEF Init
<1>8. Lru!Cardinality(Slot) = Cardinality(Slot)
  BY DEF Lru!Cardinality, Cardinality
<1> QED
  BY <1>5, <1>6, <1>7, <1>8 DEF Lru!Init

(* The common tail of a call makes the entry the most recently used slot,  *)
(* owned by the inode that was asked for.                                  *)
LEMMA FinishRefines ==
    ASSUME FInv, Ordered, Ordered', NEW t, NEW e \in Slot, NEW ino \in MappedInodes,
           Ready(table, t, e), Claimed(table, t, e, ino), Finish(t, e, ino)
    PROVE  Lru!Use(e, ino) /\ Owner' = [Owner EXCEPT ![e] = ino]
<1>0. PICK o, u : o = OldestWithout(t, oldest, e) /\ u = MoveToEnd(t, o, e)
  OBVIOUS
<1>1. table \in Table /\ t \in Table /\ oldest \in Slot /\ ~IsUnused(t[e].ino)
  BY DEF FInv, IInv, TypeOK, Table, Ready
<1>2. LinksInvert(table) /\ Suffix(table, oldest) /\ OneRing(table)
  BY DEF FInv, IInv, LruInverse, UnusedAreOldest, LinksInvert, Suffix, LruNext, LruPrev, InUse
<1>3. \A s \in Slot : /\ NextOf(t, s) = NextOf(table, s)
                      /\ PrevOf(t, s) = PrevOf(table, s)
                      /\ s # e => (IsUnused(t[s].ino) <=> IsUnused(table[s].ino))
  BY DEF Ready
<1>4. o \in Slot /\ u \in Table /\ \A s \in Slot : NextOf(u, s) = Moved(t, o, e, s)
  BY <1>0, <1>1, <1>2, <1>3, MoveToEndKeeps
<1>5. /\ table' = u /\ oldest' = o
      /\ given' = [given EXCEPT ![ino] = e + SHORT_INODE_UNMAPPED + 1]
  BY <1>0 DEF Finish
<1>6. OneRing(t) /\ LinksInvert(t)
  <2>1. OneRing(t)
    BY <1>2, <1>3 DEF OneRing
  <2>2. LinksInvert(t)
    BY <1>1, <1>2, <1>3, LinksTyped DEF LinksInvert
  <2> QED
    BY <2>1, <2>2
<1>7. PICK f, g : f = LruOrder /\ g = LruOrder'
  OBVIOUS
<1>8. f \in [1 .. SHORT_INODE_MAX -> Slot] /\ f[1] = oldest /\ Listed(t, oldest, f)
  <2>1. Listed(table, oldest, f)
    BY <1>7 DEF Ordered
  <2>2. \A n \in 1 .. SHORT_INODE_MAX : n > 1 => f[n - 1] \in Slot
    <3>1. \A n \in 1 .. SHORT_INODE_MAX : n > 1 => n - 1 \in 1 .. SHORT_INODE_MAX
      BY MaxAssumption
    <3> QED
      BY <2>1, <3>1 DEF Listed
  <2> QED
    BY <1>3, <2>1, <2>2 DEF Listed
<1>9. /\ \A i, j \in 1 .. SHORT_INODE_MAX : f[i] = f[j] => i = j
      /\ \A s \in Slot : \E i \in 1 .. SHORT_INODE_MAX : f[i] = s
  <2>1. Listed(t, oldest, f)
    BY <1>8
  <2>2. \A i, j \in 1 .. SHORT_INODE_MAX : f[i] = f[j] => i = j
    BY <1>1, <1>6, <2>1, ListIsRing
  <2>3. \A s \in Slot : \E i \in 1 .. SHORT_INODE_MAX : f[i] = s
    BY <1>1, <1>6, <2>1, ListIsRing
  <2> QED
    BY <2>2, <2>3
<1>10. PICK p \in 1 .. SHORT_INODE_MAX : f[p] = e
  BY <1>9
<1>11. o = IF p = 1 THEN NextOf(t, f[p]) ELSE oldest
  <2>1. 1 \in 1 .. SHORT_INODE_MAX
    BY MaxAssumption
  <2>2. e = oldest <=> p = 1
    BY <1>8, <1>9, <1>10, <2>1
  <2>3. NextOf(t, e) = t[e].lru_next
    BY <1>1 DEF NextOf, IsUnused
  <2> QED
    BY <1>0, <1>10, <2>2, <2>3 DEF OldestWithout
<1>12. Listed(u, o, ToEnd(f, p))
  BY <1>1, <1>4, <1>6, <1>8, <1>10, <1>11, MovedListed
<1>13. Listed(u, o, g)
  BY <1>5, <1>7 DEF Ordered, Listed, NextOf
<1>14. g = ToEnd(f, p)
  BY <1>12, <1>13, ListUnique
<1>15. /\ Len(f) = SHORT_INODE_MAX
       /\ g = SubSeq(f, 1, p - 1) \o SubSeq(f, p + 1, Len(f)) \o <<e>>
  BY <1>8, <1>10, <1>14, ToEndSequence
<1>16. given' = [given EXCEPT ![ino] = e + (SHORT_INODE_UNMAPPED + 1)]
  <2>1. e + SHORT_INODE_UNMAPPED + 1 = e + (SHORT_INODE_UNMAPPED + 1)
    BY MaxAssumption, UnmappedAssumption DEF Slot
  <2> QED
    BY <1>5, <2>1
<1>17. Lru!Use(e, ino)
  BY <1>7, <1>10, <1>15, <1>16 DEF Lru!Use
<1>18. SameHash(t, u)
  BY <1>0, <1>1, <1>4, MoveToEndHash
<1>19. Owner' = [Owner EXCEPT ![e] = ino]
  <2>1. Owner' = [s \in Slot |-> IF ~IsUnused(u[s].ino) THEN u[s].ino ELSE ZERO]
    BY <1>5 DEF Owner, InUse
  <2>2. Owner = [s \in Slot |-> IF ~IsUnused(table[s].ino) THEN table[s].ino ELSE ZERO]
    BY DEF Owner, InUse
  <2>3. ~IsUnused(u[e].ino) /\ u[e].ino = ino
    BY <1>1, <1>18 DEF SameHash, Claimed
  <2>4. ASSUME NEW s \in Slot, s # e
        PROVE  /\ IsUnused(u[s].ino) <=> IsUnused(table[s].ino)
               /\ ~IsUnused(table[s].ino) => u[s].ino = table[s].ino
    <3>1. IsUnused(u[s].ino) <=> IsUnused(table[s].ino)
      BY <1>3, <1>18, <2>4 DEF SameHash
    <3>2. ASSUME ~IsUnused(table[s].ino) PROVE u[s].ino = table[s].ino
      <4>1. s \in Used(table)
        BY <3>2 DEF Used
      <4>2. t[s].ino = table[s].ino
        BY <4>1 DEF Claimed
      <4> QED
        BY <1>18, <3>2, <4>2 DEF SameHash
    <3> QED
      BY <3>1, <3>2
  <2>5. \A s \in Slot : Owner'[s] = [Owner EXCEPT ![e] = ino][s]
    BY <2>1, <2>2, <2>3, <2>4
  <2> QED
    BY <2>1, <2>2, <2>5
<1> QED
  BY <1>17, <1>19

(* A call that finds its inode is a step of the plain map.                 *)
LEMMA HitRefines ==
    ASSUME FInv, Ordered, Ordered', NEW e \in Slot, NEW ino \in MappedInodes,
           table[e].ino = ino, Finish(table, e, ino)
    PROVE  Lru!Known(ino)
<1>1. table \in Table /\ ~IsUnused(ino)
  BY InodesAssumption, UnmappedAssumption
     DEF FInv, IInv, TypeOK, Table, IsUnused, MappedInodes, ZERO, SHORT_INODE_UNUSED
<1>2. Ready(table, table, e)
  BY <1>1 DEF Ready
<1>3. Claimed(table, table, e, ino)
  <2>1. e \in Used(table)
    BY <1>1 DEF Used
  <2> QED
    BY <1>1, <2>1 DEF Claimed, FInv
<1>4. Lru!Use(e, ino) /\ Owner' = [Owner EXCEPT ![e] = ino]
  BY <1>2, <1>3, FinishRefines
<1>5. Owner[e] = ino
  BY <1>1 DEF Owner, InUse
<1>6. Owner' = Owner
  BY <1>4, <1>5 DEF Owner
<1> QED
  BY <1>4, <1>5, <1>6 DEF Lru!Known

(* A call that gives a free entry to an inode without one is, too.         *)
LEMMA MissRefines ==
    ASSUME FInv, Ordered, Ordered', NEW t, NEW e \in Slot, NEW ino \in MappedInodes,
           Ready(table, t, e), Claimed(table, t, e, ino), Finish(t, e, ino),
           e \notin Used(table), \A s \in Used(table) : table[s].ino # ino
    PROVE  Lru!Unknown(ino)
<1>1. Lru!Use(e, ino) /\ Owner' = [Owner EXCEPT ![e] = ino]
  BY FinishRefines
<1>2. Owner[e] = ZERO
  BY DEF Owner, InUse, Used
<1>3. \A s \in Slot : Owner[s] # ino
  BY InodesAssumption, UnmappedAssumption DEF Owner, InUse, Used, MappedInodes, ZERO
<1> QED
  BY <1>1, <1>2, <1>3 DEF Lru!Unknown

(* Every step is a step of the plain map or leaves what it shows alone.    *)
LEMMA NextRefines ==
    ASSUME Fits, FInv, Ordered, Ordered', [Next]_vars
    PROVE  Lru!Next \/ UNCHANGED <<Owner, LruOrder, given>>
<1>2. table \in Table /\ oldest \in Slot /\ \A i \in MappedInodes : HashVal[i] \in Slot
  BY HashAssumption DEF FInv, IInv, TypeOK, Table
<1>3. Hashed(table) /\ Used(table) \subseteq Slot
  BY DEF FInv, Used
<1>4. ASSUME UNCHANGED <<table, oldest>> PROVE UNCHANGED <<Owner, LruOrder>>
  <2>1. Owner' = Owner
    BY <1>4 DEF Owner, InUse
  <2>2. PICK f, g : f = LruOrder /\ g = LruOrder'
    OBVIOUS
  <2>3. Listed(table, oldest, f) /\ Listed(table, oldest, g)
    BY <1>4, <2>2 DEF Ordered, Listed, NextOf
  <2>4. f = g
    BY <2>3, ListUnique
  <2> QED
    BY <2>1, <2>2, <2>4
<1>5. ASSUME NEW ino \in Inodes, MapUnmapped(ino) PROVE Lru!Next
  <2>1. ino \in Inodes \ MappedInodes /\ given' = [given EXCEPT ![ino] = ino]
        /\ UNCHANGED <<table, oldest>>
    BY <1>5 DEF MapUnmapped
  <2>2. Lru!Special(ino)
    BY <1>4, <2>1 DEF Lru!Special
  <2> QED
    BY <2>1, <2>2 DEF Lru!Next
<1>6. ASSUME NEW ino \in Inodes, MapHomeFree(ino) PROVE Lru!Next
  <2>0. PICK si, u : /\ si = HashVal[ino]
                     /\ u = HashJoin([LazyInit(table, si) EXCEPT ![si].ino = ino], si, si)
    OBVIOUS
  <2>1. ino \in MappedInodes /\ si \in Slot /\ si \notin Used(table) /\ Finish(u, si, ino)
    BY <1>2, <1>6, <2>0 DEF MapHomeFree, Used
  <2>2. \A s \in Used(table) : table[s].ino # ino
    BY <2>0, <2>1, HomeFreeNew
  <2>3. Claimed(table, u, si, ino)
    BY <1>2, <1>3, <2>0, <2>1, <2>2, HomeFreeClaims
  <2>4. Ready(table, u, si)
    BY <1>2, <2>0, <2>1, HomeFreeReady
  <2>5. Lru!Unknown(ino)
    BY <2>1, <2>2, <2>3, <2>4, MissRefines
  <2> QED
    BY <2>1, <2>5 DEF Lru!Next
<1>7. ASSUME NEW ino \in Inodes, MapHomeHit(ino) PROVE Lru!Next
  <2>1. ino \in MappedInodes /\ HashVal[ino] \in Slot
    BY <1>2, <1>7 DEF MapHomeHit
  <2>2. Lru!Known(ino)
    BY <1>7, <2>1, HitRefines DEF MapHomeHit
  <2> QED
    BY <2>1, <2>2 DEF Lru!Next
<1>8. ASSUME NEW ino \in Inodes, MapCollide(ino)
      PROVE  UNCHANGED <<Owner, LruOrder, given>>
  BY <1>4, <1>8 DEF MapCollide
<1>9. CASE WalkOn
  BY <1>4, <1>9 DEF WalkOn
<1>10. CASE WalkHit
  <2>1. walk \in [ino : MappedInodes, first : Slot, si : Slot]
    BY <1>10 DEF WalkHit, FInv, IInv, TypeOK
  <2>2. Lru!Known(walk.ino)
    BY <1>10, <2>1, HitRefines DEF WalkHit
  <2> QED
    BY <2>1, <2>2 DEF Lru!Next
<1>11. CASE WalkMiss
  <2>0. PICK u, si, ino : /\ u = Reallocate(table, oldest, si, ino)
                          /\ si = walk.si /\ ino = walk.ino
    OBVIOUS
  <2>1. ino \in MappedInodes /\ si \in Slot
    BY <1>11, <2>0 DEF WalkMiss, FInv, IInv, TypeOK
  <2>2. si = HashVal[ino] /\ si \in Used(table) /\ Finish(u, oldest, ino)
    BY <1>11, <2>0 DEF WalkMiss, FInv, Walked
  <2>3. \A s \in Used(table) : table[s].ino # ino
    BY <1>11, <2>0, WalkMissNew
  <2>4. oldest \notin Used(table)
    BY <2>1, <2>3, OldestFree
  <2>5. Claimed(table, u, oldest, ino)
    BY <1>2, <1>3, <2>0, <2>1, <2>2, <2>3, <2>4, ReallocateClaims
  <2>6. Ready(table, u, oldest)
    BY <1>2, <2>0, <2>1, ReallocateReady
  <2>7. Lru!Unknown(ino)
    BY <1>2, <2>1, <2>2, <2>3, <2>4, <2>5, <2>6, MissRefines
  <2> QED
    BY <2>1, <2>7 DEF Lru!Next
<1>12. CASE UNCHANGED vars
  BY <1>4, <1>12 DEF vars
<1> QED
  BY <1>5, <1>6, <1>7, <1>8, <1>9, <1>10, <1>11, <1>12 DEF Next, Call, Walk

(* While the inodes fit the table, the hash rings and the LRU ring of      *)
(* short_inode_map implement a plain map whose entries are reallocated in  *)
(* the order of their last use, for every table size and hash function.    *)
THEOREM ImplementsLru == ASSUME Fits PROVE Spec => LruSpec
<1>1. Init => FInv
  BY InitFInv
<1>2. FInv /\ [Next]_vars => FInv'
  BY NextFInv
<1>3. FInv => Ordered
  BY FInvOrdered
<1>4. Init => Lru!Init
  BY InitRefines
<1>5. FInv /\ Ordered /\ Ordered' /\ [Next]_vars => [Lru!Next]_(Lru!vars)
  BY NextRefines DEF Lru!vars
<1> QED
  BY <1>1, <1>2, <1>3, <1>4, <1>5, PTL DEF Spec, LruSpec, Lru!Spec
=============================================================================
