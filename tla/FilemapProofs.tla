--------------------------- MODULE FilemapProofs ---------------------------
(***************************************************************************)
(* Proofs about Filemap, for all map files, working directories, names and *)
(* sizes of buffers.                                                       *)
(***************************************************************************)
EXTENDS Filemap, SequenceTheorems, WellFoundedInduction, NaturalsInduction,
        TLAPS

(* A rule that filemap_parse accepted: both paths are text, absolute, and  *)
(* end alike.                                                              *)
IsRule(r) ==
    /\ r.from \in Text /\ r.to \in Text /\ r.from # <<>> /\ r.to # <<>>
    /\ (Last(r.from) = Slash) = (Last(r.to) = Slash)

(* The variables have their types, and as long as a name is worked on it   *)
(* has not been refused.                                                   *)
Types ==
    /\ dst_size \in Nat /\ dst_size >= 2 /\ map \in Maps /\ line \in Nat \ {0}
    /\ cwd \in Text /\ name \in Text /\ s \in Text /\ dst \in Text
Rules ==
    /\ Len(filemap) \in Nat /\ filemap = [i \in 1 .. Len(filemap) |-> filemap[i]]
    /\ \A i \in 1 .. Len(filemap) : IsRule(filemap[i])
BufferInv ==
    /\ Types /\ Rules /\ WithinBuffer
    /\ pc \in {"parse", "start", "fatal"} => dst = <<>>
    /\ pc \in {"parse", "start", "fatal", "loop", "map"} => ret = "ok"

(* The two characters normalise_path looks for, and no character is NUL.   *)
LEMMA Chars ==
    /\ Slash \in Char /\ Dot \in Char /\ "NUL" \notin Char
    /\ Slash # Dot /\ Slash # "NUL" /\ Dot # "NUL"
BY DEF Char, Slash, Dot

(* What is cut from a text is a text, and how long it is.                  *)
LEMMA CutText ==
    ASSUME NEW t \in Text, NEW m \in 1 .. Len(t) + 1, NEW n \in 0 .. Len(t)
    PROVE  SubSeq(t, m, n) \in Text
           /\ Len(SubSeq(t, m, n)) = IF m <= n THEN n - m + 1 ELSE 0
<1>1. SubSeq(t, m, n) \in Seq(Char)
  BY SubSeqProperties DEF Text
<1> QED
  BY <1>1, SubSeqProperties DEF Text

(* Skipping within what is left leaves text.                               *)
LEMMA SkipText ==
    ASSUME s \in Text, NEW n \in 0 .. Len(s)
    PROVE  Skip(n) \in Text
<1>1. Len(s) \in Nat /\ n + 1 \in 1 .. Len(s) + 1 /\ Len(s) \in 0 .. Len(s)
  BY DEF Text
<1> QED
  BY <1>1, CutText DEF Skip

(* A character that is not the NUL lies within the name.                   *)
LEMMA Within ==
    ASSUME NEW t \in Text, NEW i \in Nat, At(t, i) # "NUL"
    PROVE  i \in 1 .. Len(t) /\ At(t, i) = t[i]
BY DEF At, Text

(* A set of numbers has a least element.                                   *)
LEMMA Least ==
    ASSUME NEW S \in SUBSET Nat, S # {}
    PROVE  \E x \in S : \A y \in S : x <= y
<1>1. IsWellFoundedOn(OpToRel(<, Nat), Nat)
  BY NatLessThanWellFounded
<1>2. PICK x \in S : \A y \in S : ~(<<y, x>> \in OpToRel(<, Nat))
  BY <1>1, WFMin
<1>3. \A y \in S : ~(y < x)
  BY <1>2 DEF OpToRel
<1> QED
  BY <1>3

(* A set of numbers up to a bound has a greatest element.                  *)
LEMMA Greatest ==
    ASSUME NEW m \in Nat, NEW S \in SUBSET (0 .. m), S # {}
    PROVE  \E x \in S : \A y \in S : y <= x
<1> DEFINE T == {m - x : x \in S}
<1>1. T \in SUBSET Nat /\ T # {}
  <2>1. \A x \in S : m - x \in Nat
    OBVIOUS
  <2>2. PICK x \in S : TRUE
    OBVIOUS
  <2>3. m - x \in T
    BY <2>2
  <2> QED
    BY <2>1, <2>3
<1>2. PICK t \in T : \A u \in T : t <= u
  BY <1>1, Least
<1>3. PICK x \in S : t = m - x
  BY <1>2
<1>4. \A y \in S : m - y \in T
  OBVIOUS
<1>5. \A y \in S : m - x <= m - y
  BY <1>2, <1>3, <1>4
<1> QED
  BY <1>5

(* The last component is erased by going back, never forward.              *)
LEMMA EraseShortens ==
    ASSUME dst \in Text, dst # <<>>
    PROVE  EraseName \in Text /\ Len(EraseName) < Len(dst)
<1>1. Len(dst) \in Nat /\ Len(dst) > 0
  BY EmptySeq DEF Text
<1>2. PICK ends : ends = {i \in 0 .. Len(dst) - 1 : i = 0 \/ dst[i] = Slash}
  OBVIOUS
<1>3. 0 \in ends /\ ends \in SUBSET (0 .. Len(dst) - 1) /\ Len(dst) - 1 \in Nat
  BY <1>1, <1>2
<1>4. \E i \in ends : \A j \in ends : j <= i
  BY <1>3, Greatest
<1>5. PICK k : k = CHOOSE i \in ends : \A j \in ends : j <= i
  OBVIOUS
<1>6. k \in ends
  BY <1>4, <1>5
<1>7. k \in 0 .. Len(dst) - 1
  BY <1>3, <1>6
<1>8. EraseName = SubSeq(dst, 1, k)
  BY <1>2, <1>5 DEF EraseName
<1>9. SubSeq(dst, 1, k) \in Text /\ Len(SubSeq(dst, 1, k)) = IF 1 <= k THEN k - 1 + 1 ELSE 0
  <2>1. 1 \in 1 .. Len(dst) + 1 /\ k \in 0 .. Len(dst)
    BY <1>1, <1>7
  <2> QED
    BY <2>1, CutText
<1> QED
  BY <1>1, <1>7, <1>8, <1>9

(* A component is a part of what is left, one character at least.          *)
LEMMA ComponentFits ==
    ASSUME s \in Text, s # <<>>
    PROVE  Component \in Text /\ Len(Component) \in 0 .. Len(s)
<1>1. Len(s) \in Nat /\ DOMAIN s = 1 .. Len(s)
  BY DEF Text
<1>2. PICK slashes : slashes = {i \in DOMAIN s : s[i] = Slash}
  OBVIOUS
<1>3. CASE slashes = {}
  BY <1>1, <1>2, <1>3 DEF Component
<1>4. CASE slashes # {}
  <2>1. slashes \in SUBSET Nat /\ slashes \subseteq 1 .. Len(s)
    BY <1>1, <1>2
  <2>2. \E i \in slashes : \A j \in slashes : i <= j
    BY <1>4, <2>1, Least
  <2>3. PICK k : k = CHOOSE i \in slashes : \A j \in slashes : i <= j
    OBVIOUS
  <2>4. k \in slashes
    BY <2>2, <2>3
  <2>5. k \in 1 .. Len(s)
    BY <2>1, <2>4
  <2>6. Component = SubSeq(s, 1, k)
    BY <1>2, <1>4, <2>3 DEF Component
  <2>7. SubSeq(s, 1, k) \in Text /\ Len(SubSeq(s, 1, k)) = IF 1 <= k THEN k - 1 + 1 ELSE 0
    <3>1. 1 \in 1 .. Len(s) + 1 /\ k \in 0 .. Len(s)
      BY <1>1, <2>5
    <3> QED
      BY <3>1, CutText
  <2> QED
    BY <1>1, <2>5, <2>6, <2>7
<1> QED
  BY <1>3, <1>4

(* A buffer in use: the name in it leaves room for the NUL.                *)
Room == Len(dst) < dst_size

(* While a name is worked on it has room.                                  *)
LEMMA RoomInside ==
    ASSUME BufferInv, pc \in {"parse", "start", "fatal", "loop", "map"}
    PROVE  Room
<1>1. pc # "used" /\ ret = "ok"
  BY DEF BufferInv
<1> QED
  BY <1>1 DEF BufferInv, WithinBuffer, Room

(* Going on with the name in the buffer changes neither rules nor call.    *)
LEMMA GoesOn ==
    ASSUME BufferInv, UNCHANGED <<parsed, call>>, dst' \in Text, s' \in Text,
           \/ pc' \in {"loop", "map", "normal", "used"} /\ ret' = ret /\ ret = "ok" /\ Room'
           \/ pc' = "used" /\ ret' # "ok" /\ Len(dst') <= dst_size
    PROVE  BufferInv'
<1>1. Types' /\ Rules' /\ dst_size' = dst_size
  BY DEF BufferInv, Types, Rules, parsed, call
<1>2. Len(dst') \in Nat /\ dst_size \in Nat
  BY <1>1 DEF Types, Text, BufferInv
<1>3. WithinBuffer'
  BY <1>1, <1>2 DEF WithinBuffer, Room
<1> QED
  BY <1>1, <1>3 DEF BufferInv

(* filemap_parse keeps the invariant: what it takes are rules.             *)
LEMMA ParseStep ==
    ASSUME BufferInv, Parse
    PROVE  BufferInv'
<1>0. Types /\ Rules /\ pc = "parse" /\ dst = <<>> /\ ret = "ok" /\ Room
  BY RoomInside DEF BufferInv, Parse, ParseLine, ParseBad, ParseDone
<1>1. /\ dst' = dst /\ ret' = ret /\ s' = s /\ map' = map
      /\ cwd' = cwd /\ name' = name /\ dst_size' = dst_size
  BY DEF Parse, ParseLine, ParseBad, ParseDone, parsed, call
<1>2. line' \in Nat \ {0} /\ pc' \in {"parse", "fatal", "start"}
  BY <1>0 DEF Parse, ParseLine, ParseBad, ParseDone, Types, parsed
<1>3. Types'
  BY <1>0, <1>1, <1>2 DEF Types
<1>4. WithinBuffer'
  <2>1. Len(dst) < dst_size /\ Len(dst) <= dst_size
    BY <1>0 DEF Room, Types, Text
  <2> QED
    BY <1>1, <2>1 DEF WithinBuffer
<1>5. Rules'
  <2>1. CASE filemap' = filemap
    BY <1>0, <2>1 DEF Rules
  <2>2. CASE filemap' = <<>>
    BY <2>2 DEF Rules
  <2>3. CASE ParseLine /\ filemap' = Append(filemap, map[line]) /\ map[line].kind # "blank"
    <3>1. line \in DOMAIN map /\ GoodRule(map[line])
      BY <1>0, <2>3, MapAssumption DEF ParseLine, Types
    <3>2. PICK r : r = map[line]
      OBVIOUS
    <3>3. r.from \in Text /\ r.to \in Text
      BY <1>0, <3>1, <3>2, MapAssumption DEF GoodRule, Types
    <3>4. r.from # <<>> /\ r.to # <<>>
      <4>1. At(r.from, 1) # "NUL" /\ At(r.to, 1) # "NUL"
        BY <3>1, <3>2 DEF GoodRule, Slash
      <4>2. 1 \in 1 .. Len(r.from) /\ 1 \in 1 .. Len(r.to)
        BY <3>3, <4>1, Within
      <4> QED
        BY <4>2
    <3>5. IsRule(r)
      BY <3>1, <3>2, <3>3, <3>4 DEF IsRule, GoodRule
    <3>6. PICK n \in Nat : n = Len(filemap) /\ filemap \in Seq({filemap[i] : i \in 1 .. n})
      <4>1. Len(filemap) \in Nat
        BY <1>0 DEF Rules
      <4>2. filemap \in [1 .. Len(filemap) -> {filemap[i] : i \in 1 .. Len(filemap)}]
        BY <1>0 DEF Rules
      <4>3. PICK S : S = {filemap[i] : i \in 1 .. Len(filemap)}
        OBVIOUS
      <4>4. filemap \in Seq(S)
        BY <4>1, <4>2, <4>3
      <4> QED
        BY <4>1, <4>3, <4>4
    <3>7. /\ Len(Append(filemap, r)) = n + 1
          /\ DOMAIN Append(filemap, r) = 1 .. n + 1
          /\ \A i \in 1 .. n : Append(filemap, r)[i] = filemap[i]
          /\ Append(filemap, r)[n + 1] = r
      BY <3>6
    <3>8. \A i \in 1 .. n + 1 : IsRule(Append(filemap, r)[i])
      <4>1. SUFFICES ASSUME NEW i \in 1 .. n + 1 PROVE IsRule(Append(filemap, r)[i])
        OBVIOUS
      <4>2. CASE i = n + 1
        BY <3>5, <3>7, <4>2
      <4>3. CASE i \in 1 .. n
        BY <1>0, <3>6, <3>7, <4>3 DEF Rules
      <4> QED
        BY <3>6, <4>2, <4>3
    <3> QED
      BY <2>3, <3>2, <3>6, <3>7, <3>8 DEF Rules
  <2> QED
    BY <2>1, <2>2, <2>3 DEF Parse, ParseLine, ParseBad, ParseDone, parsed
<1> QED
  BY <1>0, <1>1, <1>2, <1>3, <1>4, <1>5 DEF BufferInv

(* normalise_path keeps it: where it starts.                               *)
LEMMA StartStep ==
    ASSUME BufferInv, StartAbsolute \/ StartPlain \/ StartRelative \/ StartTooLong
    PROVE  BufferInv'
<1>0. /\ Types /\ pc = "start" /\ ret = "ok" /\ dst_size \in Nat /\ dst_size >= 2
      /\ cwd \in Text /\ name \in Text /\ s \in Text /\ Len(cwd) \in Nat
  BY DEF BufferInv, Types, Text, StartAbsolute, StartPlain, StartRelative, StartTooLong
<1>1. Slash \in Char /\ Dot \in Char
  BY Chars
<1>2. CASE StartAbsolute
  <2>1. /\ pc' = "loop" /\ ret' = ret /\ dst' = <<Slash>> /\ s' = Tail(name)
        /\ UNCHANGED <<parsed, call>> /\ dst_size' = dst_size
    BY <1>2 DEF StartAbsolute, call
  <2>2. name # <<>>
    <3>1. At(name, 1) # "NUL"
      BY <1>2 DEF StartAbsolute, Slash
    <3> QED
      BY <1>0, <3>1, Within
  <2>3. s' \in Text /\ dst' \in Text /\ Len(dst') = 1
    BY <1>0, <1>1, <2>1, <2>2 DEF Text
  <2> QED
    BY <1>0, <2>1, <2>3, GoesOn DEF Room
<1>3. CASE StartPlain
  <2>1. /\ pc' = "loop" /\ ret' = ret /\ dst' = <<>> /\ s' = name
        /\ UNCHANGED <<parsed, call>> /\ dst_size' = dst_size
    BY <1>3 DEF StartPlain, call
  <2>2. dst' \in Text /\ Len(dst') = 0
    BY <2>1 DEF Text
  <2> QED
    BY <1>0, <2>1, <2>2, GoesOn DEF Room
<1>4. CASE StartRelative
  <2>1. /\ pc' = "loop" /\ ret' = ret /\ dst' = Append(cwd, Slash) /\ s' = name
        /\ UNCHANGED <<parsed, call>> /\ dst_size' = dst_size
        /\ Len(cwd) + 2 < dst_size
    BY <1>4 DEF StartRelative, call
  <2>2. dst' \in Text /\ Len(dst') = Len(cwd) + 1
    BY <1>0, <1>1, <2>1 DEF Text
  <2> QED
    BY <1>0, <2>1, <2>2, GoesOn DEF Room
<1>5. CASE StartTooLong
  <2>1. /\ pc' = "used" /\ ret' \in {"ERANGE", "ENAMETOOLONG"} /\ s' = s
        /\ UNCHANGED <<parsed, call>>
        /\ dst' = IF Len(cwd) >= dst_size THEN <<>> ELSE cwd
    BY <1>5 DEF StartTooLong, Fail
  <2>2. dst' \in Text /\ Len(dst') <= dst_size
    <3>1. CASE Len(cwd) >= dst_size
      <4>1. dst' = <<>>
        BY <2>1, <3>1
      <4>2. dst' \in Text /\ Len(dst') = 0
        BY <4>1 DEF Text
      <4> QED
        BY <1>0, <4>2
    <3>2. CASE ~(Len(cwd) >= dst_size)
      <4>1. dst' = cwd
        BY <2>1, <3>2
      <4> QED
        BY <1>0, <3>2, <4>1
    <3> QED
      BY <3>1, <3>2
  <2>3. ret' # "ok"
    BY <2>1
  <2> QED
    BY <1>0, <2>1, <2>2, <2>3, GoesOn
<1> QED
  BY <1>2, <1>3, <1>4, <1>5

(* The loop over the components.                                           *)
LEMMA LoopStep ==
    ASSUME BufferInv, SkipSlash \/ SkipDot \/ KeepUp \/ GoUp \/ CopyName
    PROVE  BufferInv'
<1>0. /\ pc = "loop" /\ ret = "ok" /\ dst_size \in Nat /\ dst_size >= 2
      /\ s \in Text /\ Len(s) \in Nat /\ dst \in Text /\ Len(dst) \in Nat
  BY DEF BufferInv, Types, Text, SkipSlash, SkipDot, KeepUp, GoUp, CopyName
<1>1. Room
  BY <1>0, RoomInside
<1>2. Slash \in Char /\ Dot \in Char /\ Slash # "NUL" /\ Dot # "NUL"
  BY Chars
<1>3. \A i \in Nat : At(s, i) # "NUL" => i \in 0 .. Len(s)
  BY <1>0, Within
<1>4. s # <<>> => 1 \in 0 .. Len(s)
  BY <1>0, EmptySeq DEF Text
<1>5. CASE SkipSlash
  <2>1. /\ pc' = pc /\ ret' = ret /\ dst' = dst /\ s' = Skip(1)
        /\ UNCHANGED <<parsed, call>> /\ dst_size' = dst_size
    BY <1>5 DEF SkipSlash, call
  <2>2. 1 \in 0 .. Len(s)
    BY <1>2, <1>3, <1>5 DEF SkipSlash
  <2> QED
    BY <1>0, <1>1, <2>1, <2>2, SkipText, GoesOn DEF Room
<1>6. CASE SkipDot
  <2>1. PICK n \in {1, 2} : n = IF At(s, 2) = Slash THEN 2 ELSE 1
    OBVIOUS
  <2>2. /\ pc' = pc /\ ret' = ret /\ dst' = dst /\ s' = Skip(n) /\ s # <<>>
        /\ UNCHANGED <<parsed, call>> /\ dst_size' = dst_size
    BY <1>6, <2>1 DEF SkipDot, call
  <2>3. n \in 0 .. Len(s)
    BY <1>2, <1>3, <1>4, <2>1, <2>2
  <2> QED
    BY <1>0, <1>1, <2>2, <2>3, SkipText, GoesOn DEF Room
<1>7. ASSUME IsDotDot, s # <<>>
      PROVE  \A n : n = (IF At(s, 3) = Slash THEN 3 ELSE 2) => n \in 0 .. Len(s)
  <2>1. 2 \in 0 .. Len(s)
    BY <1>2, <1>3, <1>7 DEF IsDotDot
  <2> QED
    BY <1>2, <1>3, <2>1
<1>8. CASE KeepUp
  <2>1. CASE Len(dst) + 3 >= dst_size
    <3>1. /\ pc' = "used" /\ ret' = "ENAMETOOLONG" /\ s' = s /\ dst' = dst
          /\ UNCHANGED <<parsed, call>>
      BY <1>8, <2>1 DEF KeepUp, Fail
    <3>2. Len(dst') <= dst_size /\ ret' # "ok"
      BY <1>0, <1>1, <3>1 DEF Room
    <3> QED
      BY <1>0, <3>1, <3>2, GoesOn
  <2>2. CASE ~(Len(dst) + 3 >= dst_size)
    <3>1. PICK n : n = IF At(s, 3) = Slash THEN 3 ELSE 2
      OBVIOUS
    <3>2. PICK up : up = IF At(s, 3) = Slash THEN <<Dot, Dot, Slash>> ELSE <<Dot, Dot>>
      OBVIOUS
    <3>3. /\ pc' = pc /\ ret' = ret /\ dst' = dst \o up /\ s' = Skip(n)
          /\ UNCHANGED <<parsed, call>> /\ dst_size' = dst_size
      BY <1>8, <2>2, <3>1, <3>2 DEF KeepUp, call
    <3>4. n \in 0 .. Len(s)
      BY <1>7, <1>8, <3>1 DEF KeepUp
    <3>5. up \in Seq(Char) /\ Len(up) \in {2, 3}
      <4>1. <<Dot, Dot, Slash>> \in Seq(Char) /\ <<Dot, Dot>> \in Seq(Char)
        BY <1>2
      <4> QED
        BY <3>2, <4>1
    <3>6. dst' \in Text /\ Len(dst') = Len(dst) + Len(up)
      BY <1>0, <3>3, <3>5, ConcatProperties DEF Text
    <3>7. Room'
      <4>1. PICK d \in Nat : d = Len(dst)
        BY <1>0
      <4>2. ~(d + 3 >= dst_size) /\ dst_size \in Nat
        BY <1>0, <2>2, <4>1
      <4>3. d + 2 < dst_size /\ d + 3 < dst_size
        BY <4>2
      <4>4. Len(dst') = d + 2 \/ Len(dst') = d + 3
        BY <3>5, <3>6, <4>1
      <4> QED
        BY <3>3, <4>3, <4>4 DEF Room
    <3> QED
      BY <1>0, <3>3, <3>4, <3>6, <3>7, SkipText, GoesOn
  <2> QED
    BY <2>1, <2>2
<1>9. CASE GoUp
  <2>1. PICK n : n = IF At(s, 3) = Slash THEN 3 ELSE 2
    OBVIOUS
  <2>2. /\ pc' = pc /\ ret' = ret /\ s' = Skip(n) /\ dst' \in {dst, EraseName}
        /\ UNCHANGED <<parsed, call>> /\ dst_size' = dst_size /\ dst # <<>>
    BY <1>9, <2>1 DEF GoUp, call
  <2>3. n \in 0 .. Len(s)
    BY <1>7, <1>9, <2>1 DEF GoUp
  <2>4. EraseName \in Text /\ Len(EraseName) < Len(dst) /\ Len(EraseName) \in Nat
    BY <1>0, <2>2, EraseShortens DEF Text
  <2>5. dst' \in Text /\ Room'
    BY <1>0, <1>1, <2>2, <2>4 DEF Room
  <2> QED
    BY <1>0, <2>2, <2>3, <2>5, SkipText, GoesOn
<1>10. CASE CopyName
  <2>1. Component \in Text /\ Len(Component) \in 0 .. Len(s)
    BY <1>0, <1>10, ComponentFits DEF CopyName
  <2>2. PICK new : new = dst \o Component
    OBVIOUS
  <2>3. new \in Text /\ Len(new) \in Nat
    BY <1>0, <2>1, <2>2, ConcatProperties DEF Text
  <2>4. CASE Len(new) >= dst_size
    <3>1. /\ pc' = "used" /\ ret' = "ENAMETOOLONG" /\ s' = s
          /\ dst' = SubSeq(new, 1, dst_size) /\ UNCHANGED <<parsed, call>>
      BY <1>10, <2>2, <2>4 DEF CopyName, Fail
    <3>2. 1 \in 1 .. Len(new) + 1 /\ dst_size \in 0 .. Len(new)
      BY <1>0, <2>3, <2>4
    <3>3. dst' \in Text /\ Len(dst') = IF 1 <= dst_size THEN dst_size - 1 + 1 ELSE 0
      BY <2>3, <3>1, <3>2, CutText
    <3>4. Len(dst') <= dst_size /\ ret' # "ok"
      BY <1>0, <3>1, <3>3
    <3> QED
      BY <1>0, <3>1, <3>3, <3>4, GoesOn
  <2>5. CASE ~(Len(new) >= dst_size)
    <3>1. /\ pc' = pc /\ ret' = ret /\ dst' = new /\ s' = Skip(Len(Component))
          /\ UNCHANGED <<parsed, call>> /\ dst_size' = dst_size
      BY <1>10, <2>2, <2>5 DEF CopyName, call
    <3>2. Room'
      BY <1>0, <2>3, <2>5, <3>1 DEF Room
    <3> QED
      BY <1>0, <2>1, <2>3, <3>1, <3>2, SkipText, GoesOn
  <2> QED
    BY <2>4, <2>5
<1> QED
  BY <1>5, <1>6, <1>8, <1>9, <1>10

(* The end of normalise_path, and a name without a rule.                   *)
LEMMA DoneStep ==
    ASSUME BufferInv, NormaliseDone \/ MapNone
    PROVE  BufferInv'
<1>0. /\ pc \in {"loop", "map"} /\ ret = "ok" /\ dst_size \in Nat /\ dst_size >= 2
      /\ s \in Text /\ dst \in Text /\ Len(dst) \in Nat
  BY DEF BufferInv, Types, Text, NormaliseDone, MapNone
<1>1. Room
  BY <1>0, RoomInside
<1>2. /\ pc' \in {"map", "normal", "used"} /\ ret' = ret /\ s' = s
      /\ UNCHANGED <<parsed, call>> /\ dst_size' = dst_size
      /\ dst' \in {dst, <<Dot>>} \/ (dst # <<>> /\ dst' = Front(dst))
  BY DEF NormaliseDone, MapNone, call
<1>3. dst' \in Text /\ Room'
  <2>1. CASE dst' = dst
    BY <1>0, <1>1, <1>2, <2>1 DEF Room
  <2>2. CASE dst' = <<Dot>>
    <3>1. <<Dot>> \in Text /\ Len(<<Dot>>) = 1
      <4>1. Dot \in Char
        BY Chars
      <4> QED
        BY <4>1 DEF Text
    <3> QED
      BY <1>0, <1>2, <2>2, <3>1 DEF Room
  <2>3. CASE dst # <<>> /\ dst' = Front(dst)
    <3>1. Len(dst) > 0 /\ 1 \in 1 .. Len(dst) + 1 /\ Len(dst) - 1 \in 0 .. Len(dst)
      BY <1>0, <2>3, EmptySeq DEF Text
    <3>2. PICK k : k = Len(dst) - 1
      OBVIOUS
    <3>3. dst' = SubSeq(dst, 1, k)
      BY <2>3, <3>2 DEF Front
    <3>4. dst' \in Text /\ Len(dst') = IF 1 <= k THEN k - 1 + 1 ELSE 0
      BY <1>0, <3>1, <3>2, <3>3, CutText
    <3> QED
      BY <1>0, <1>1, <1>2, <3>1, <3>2, <3>4 DEF Room
  <2> QED
    BY <1>2, <2>1, <2>2, <2>3
<1> QED
  BY <1>0, <1>2, <1>3, GoesOn

(* A rule: one for a directory looks at the room if it makes the name      *)
(* longer, one for a file puts its target in place of the name.            *)
LEMMA MapStep ==
    ASSUME BufferInv, MapRule
    PROVE  BufferInv'
<1>0. /\ pc = "map" /\ ret = "ok" /\ dst_size \in Nat /\ dst_size >= 2
      /\ s \in Text /\ dst \in Text /\ Len(dst) \in Nat /\ Rules /\ Types
  BY DEF BufferInv, Types, Text, MapRule
<1>1. Room
  BY <1>0, RoomInside
<1>2. DOMAIN filemap = 1 .. Len(filemap)
  BY <1>0 DEF Rules
<1>3. PICK k : k = CHOOSE i \in Matching : \A j \in Matching : i <= j
  OBVIOUS
<1>4. k \in Matching /\ k \in DOMAIN filemap
  <2>1. Matching \subseteq DOMAIN filemap /\ Matching # {}
    BY DEF Matching, MapRule
  <2>2. Matching \in SUBSET Nat
    BY <1>2, <2>1
  <2>3. \E i \in Matching : \A j \in Matching : i <= j
    BY <2>1, <2>2, Least
  <2>4. k \in Matching
    BY <1>3, <2>3
  <2> QED
    BY <2>1, <2>4
<1>5. PICK rule : rule = filemap[k]
  OBVIOUS
<1>6. IsRule(rule) /\ Matches(rule.from)
  BY <1>0, <1>2, <1>4, <1>5 DEF Rules, Matching
<1>7. /\ rule.from \in Text /\ rule.to \in Text
      /\ Len(rule.from) \in Nat /\ Len(rule.to) \in Nat /\ Len(rule.from) <= Len(dst)
  <2>1. /\ rule.from \in Text /\ rule.to \in Text
        /\ Len(rule.from) \in Nat /\ Len(rule.to) \in Nat
    BY <1>6 DEF IsRule, Text
  <2>2. rule.from = dst \/ Len(rule.from) <= Len(dst)
    BY <1>6 DEF Matches, IsPrefix
  <2> QED
    BY <1>0, <2>1, <2>2
<1>8. PICK tail : tail = SubSeq(dst, Len(rule.from) + 1, Len(dst))
  OBVIOUS
<1>9. tail \in Text /\ Len(tail) = Len(dst) - Len(rule.from)
  <2>1. Len(rule.from) + 1 \in 1 .. Len(dst) + 1 /\ Len(dst) \in 0 .. Len(dst)
    BY <1>0, <1>7
  <2>2. tail \in Text /\ Len(tail) = IF Len(rule.from) + 1 <= Len(dst)
                                   THEN Len(dst) - (Len(rule.from) + 1) + 1 ELSE 0
    BY <1>0, <1>8, <2>1, CutText
  <2>3. PICK d \in Nat, f \in Nat : d = Len(dst) /\ f = Len(rule.from)
    BY <1>0, <1>7
  <2>4. f <= d /\ Len(tail) = IF f + 1 <= d THEN d - (f + 1) + 1 ELSE 0
    BY <1>7, <2>2, <2>3
  <2>5. Len(tail) = d - f
    BY <2>4
  <2> QED
    BY <2>2, <2>3, <2>5
<1>10. PICK new : new = rule.to \o tail
  OBVIOUS
<1>11. new \in Text /\ Len(new) = Len(rule.to) + Len(tail)
  BY <1>7, <1>9, <1>10, ConcatProperties DEF Text
<1>12. PICK long \in BOOLEAN : long <=>
          Len(rule.to) > Len(rule.from) /\ Len(new) + 1 > dst_size
  OBVIOUS
<1>13. IF Last(rule.from) = Slash /\ long
       THEN Fail("ENAMETOOLONG") /\ dst' = dst
       ELSE pc' = "used" /\ dst' = new /\ UNCHANGED <<parsed, call, s, ret>>
  BY <1>3, <1>5, <1>8, <1>10, <1>12 DEF MapRule
<1>14. CASE Last(rule.from) = Slash /\ long
  <2>1. /\ pc' = "used" /\ ret' = "ENAMETOOLONG" /\ s' = s /\ dst' = dst
        /\ UNCHANGED <<parsed, call>>
    BY <1>13, <1>14 DEF Fail
  <2>2. Len(dst') <= dst_size /\ ret' # "ok"
    BY <1>0, <1>1, <2>1 DEF Room
  <2> QED
    BY <1>0, <2>1, <2>2, GoesOn
<1>15. CASE Last(rule.from) = Slash /\ ~long
  <2>1. /\ pc' = "used" /\ ret' = ret /\ s' = s /\ dst' = new
        /\ UNCHANGED <<parsed, call>> /\ dst_size' = dst_size
    BY <1>13, <1>15 DEF call
  <2>2. Len(new) < dst_size
    <3>0. PICK d \in Nat, f \in Nat, t \in Nat :
             d = Len(dst) /\ f = Len(rule.from) /\ t = Len(rule.to)
      BY <1>0, <1>7
    <3>1. Len(new) = t + (d - f) /\ d < dst_size /\ dst_size \in Nat
      BY <1>0, <1>1, <1>9, <1>11, <3>0 DEF Room
    <3>2. CASE Len(rule.to) > Len(rule.from)
      <4>1. ~(t + (d - f) + 1 > dst_size)
        BY <1>12, <1>15, <3>1, <3>2
      <4>2. t + (d - f) < dst_size
        BY <3>1, <4>1
      <4> QED
        BY <3>1, <4>2
    <3>3. CASE ~(Len(rule.to) > Len(rule.from))
      <4>1. ~(t > f)
        BY <3>0, <3>3
      <4>2. t + (d - f) < dst_size
        BY <3>1, <4>1
      <4> QED
        BY <3>1, <4>2
    <3> QED
      BY <3>2, <3>3
  <2>3. Room'
    BY <2>1, <2>2 DEF Room
  <2> QED
    BY <1>0, <1>11, <2>1, <2>3, GoesOn
<1>16. CASE Last(rule.from) # Slash
  <2>1. /\ pc' = "used" /\ ret' = ret /\ s' = s /\ dst' = new
        /\ UNCHANGED <<parsed, call>>
    BY <1>13, <1>16
  <2>2. rule.from = dst
    BY <1>6, <1>16 DEF Matches
  <2>3. new = rule.to
    <3>1. Len(tail) = 0
      BY <1>0, <1>9, <2>2
    <3>2. tail = <<>>
      BY <1>9, <3>1, EmptySeq DEF Text
    <3> QED
      BY <1>7, <1>10, <3>2, ConcatEmptySeq DEF Text
  <2>4. Last(new) # Slash
    BY <1>6, <1>16, <2>3 DEF IsRule
  <2>5. filemap' = filemap /\ Types' /\ Rules'
    BY <1>0, <1>11, <2>1 DEF Types, Rules, parsed, call
  <2>6. WithinBuffer'
    BY <1>4, <1>5, <2>1, <2>3, <2>4, <2>5 DEF WithinBuffer
  <2> QED
    BY <2>1, <2>5, <2>6 DEF BufferInv
<1> QED
  BY <1>14, <1>15, <1>16

(* The next call starts with an empty buffer.                              *)
LEMMA NextCallStep ==
    ASSUME BufferInv, NextCall
    PROVE  BufferInv'
<1>1. /\ pc' = "start" /\ s' = <<>> /\ dst' = <<>> /\ ret' = "ok"
      /\ cwd' \in Text /\ name' \in Text /\ dst_size' = dst_size
      /\ UNCHANGED parsed
  BY NameAssumption, CwdAssumption DEF NextCall
<1>2. <<>> \in Text /\ Len(<<>>) = 0
  BY DEF Text
<1>3. Types' /\ Rules'
  BY <1>1, <1>2 DEF BufferInv, Types, Rules, parsed
<1>4. WithinBuffer'
  BY <1>1, <1>2 DEF BufferInv, Types, WithinBuffer
<1> QED
  BY <1>1, <1>3, <1>4 DEF BufferInv

(* The invariant of the buffer holds in every state.                       *)
LEMMA BufferAlways == Spec => []BufferInv
<1>1. Init => BufferInv
  <2> SUFFICES ASSUME Init PROVE BufferInv
    OBVIOUS
  <2>1. <<>> \in Text /\ Len(<<>>) = 0
    BY DEF Text
  <2>2. Types
    BY <2>1, NameAssumption, CwdAssumption, SizeAssumption DEF Init, Types
  <2>3. Rules
    BY DEF Init, Rules
  <2>4. WithinBuffer
    BY <2>1, <2>2 DEF Init, Types, WithinBuffer
  <2> QED
    BY <2>2, <2>3, <2>4 DEF Init, BufferInv
<1>2. BufferInv /\ [Next]_vars => BufferInv'
  <2> SUFFICES ASSUME BufferInv, [Next]_vars PROVE BufferInv'
    OBVIOUS
  <2>1. CASE UNCHANGED vars
    BY <2>1 DEF vars, BufferInv, Types, Rules, WithinBuffer
  <2>2. CASE Normalise
    BY <2>2, StartStep, LoopStep, DoneStep DEF Normalise
  <2> QED
    BY <2>1, <2>2, ParseStep, DoneStep, MapStep, NextCallStep DEF Next, Ended
<1> QED
  BY <1>1, <1>2, PTL DEF Spec

(* Nothing is written beyond the buffer of any caller, whatever the names, *)
(* the working directory and the rules, and a name that was not refused    *)
(* leaves room for its NUL, but for the target of a rule for one file      *)
(* (normalise_path and filemap_map, ibcs/filemap.c).                       *)
THEOREM BufferKept == Spec => []WithinBuffer
<1>1. BufferInv => WithinBuffer
  BY DEF BufferInv
<1> QED
  BY <1>1, BufferAlways, PTL
-----------------------------------------------------------------------------
(* f is defined from a by recursion over the numbers up to l, by steps g.  *)
Steps(g, l, V) == g \in [(1 .. l) \X V -> V]
Solves(f, g, l, a, V) ==
    /\ f \in [0 .. l -> V] /\ f[0] = a
    /\ \A k \in 1 .. l : f[k] = g[<<k, f[k - 1]>>]

(* There is a function defined by such a recursion.                        *)
LEMMA Recursion ==
    ASSUME NEW V, NEW a \in V, NEW l \in Nat, NEW g, Steps(g, l, V)
    PROVE  \E f : Solves(f, g, l, a, V)
<1> DEFINE Upto(m, f) == /\ f \in [0 .. m -> V] /\ f[0] = a
                         /\ \A k \in 1 .. m : f[k] = g[<<k, f[k - 1]>>]
           Bad == {m \in Nat : m <= l /\ ~ \E f : Upto(m, f)}
<1>0. g \in [(1 .. l) \X V -> V]
  BY DEF Steps
<1>1. Bad = {}
  <2> SUFFICES ASSUME Bad # {} PROVE FALSE
    OBVIOUS
  <2>1. Bad \in SUBSET Nat
    OBVIOUS
  <2>2. PICK m \in Bad : \A k \in Bad : m <= k
    BY <2>1, Least
  <2>3. m \in Nat /\ m <= l /\ ~ \E f : Upto(m, f)
    BY <2>2
  <2>4. CASE m = 0
    <3>0. PICK f : f = [k \in 0 .. 0 |-> a]
      OBVIOUS
    <3>1. f \in [0 .. 0 -> V] /\ f[0] = a
      BY <3>0
    <3>2. Upto(0, f)
      BY <3>1
    <3> QED
      BY <2>3, <2>4, <3>2
  <2>5. CASE m > 0
    <3>0. m - 1 \in Nat /\ m - 1 <= l /\ ~(m <= m - 1)
      BY <2>3, <2>5
    <3>1. m - 1 \notin Bad
      <4> HIDE DEF Bad
      <4> QED
        BY <2>2, <3>0
    <3>2. PICK f : Upto(m - 1, f)
      BY <3>0, <3>1
    <3>3. PICK h : h = [k \in 0 .. m |-> IF k < m THEN f[k] ELSE g[<<m, f[m - 1]>>]]
      OBVIOUS
    <3>4. m - 1 \in 0 .. m - 1 /\ f[m - 1] \in V /\ m \in 1 .. l
      BY <2>3, <2>5, <3>0, <3>2
    <3>5. h \in [0 .. m -> V]
      <4>1. g[<<m, f[m - 1]>>] \in V
        BY <1>0, <3>4
      <4>2. \A k \in 0 .. m : k < m => f[k] \in V
        BY <2>3, <3>2
      <4> QED
        BY <3>3, <4>1, <4>2
    <3>6. h[0] = a
      BY <2>3, <2>5, <3>2, <3>3
    <3>7. ASSUME NEW k \in 1 .. m PROVE h[k] = g[<<k, h[k - 1]>>]
      <4>1. k - 1 \in 0 .. m /\ k - 1 < m /\ k \in 0 .. m
        BY <2>3, <3>7
      <4>2. h[k - 1] = f[k - 1]
        BY <3>3, <4>1
      <4>3. CASE k < m
        <5>1. k \in 1 .. m - 1
          BY <2>3, <4>3
        <5>2. f[k] = g[<<k, f[k - 1]>>]
          BY <3>2, <5>1
        <5> QED
          BY <3>3, <4>1, <4>2, <4>3, <5>2
      <4>4. CASE k = m
        BY <2>3, <3>3, <4>1, <4>2, <4>4
      <4> QED
        BY <2>3, <4>3, <4>4
    <3>8. Upto(m, h)
      BY <3>5, <3>6, <3>7
    <3> QED
      BY <2>3, <3>8
  <2> QED
    BY <2>3, <2>4, <2>5
<1>2. l \notin Bad
  BY <1>1
<1>3. PICK f : Upto(l, f)
  BY <1>2
<1> QED
  BY <1>3 DEF Solves

-----------------------------------------------------------------------------
(* Components: what is between slashes, and those that a normal name has.  *)
Part(c) == c \in Text /\ \A i \in 1 .. Len(c) : c[i] # Slash
Plain(c) == Part(c) /\ c # <<>> /\ c # <<Dot>>

(* A list of such components; from the root there is no way up.            *)
Tidy(root, comps) ==
    /\ comps \in Seq(Text)
    /\ \A i \in 1 .. Len(comps) : Plain(comps[i]) /\ (root => comps[i] # Up)

(* The special components are different from each other.                   *)
LEMMA Specials ==
    /\ <<>> \in Text /\ <<Dot>> \in Text /\ Up \in Text /\ <<Slash>> \in Text
    /\ Len(<<>>) = 0 /\ Len(<<Dot>>) = 1 /\ Len(Up) = 2 /\ Len(<<Slash>>) = 1
    /\ <<Dot>>[1] = Dot /\ Up[1] = Dot /\ Up[2] = Dot /\ <<Slash>>[1] = Slash
    /\ Up # <<>> /\ Up # <<Dot>> /\ <<Dot>> # <<>>
<1>1. Slash \in Char /\ Dot \in Char
  BY Chars
<1>2. <<>> \in Text /\ <<Dot>> \in Text /\ Up \in Text /\ <<Slash>> \in Text
  BY <1>1 DEF Text, Up
<1>3. /\ Len(<<>>) = 0 /\ Len(<<Dot>>) = 1 /\ Len(Up) = 2 /\ Len(<<Slash>>) = 1
      /\ <<Dot>>[1] = Dot /\ Up[1] = Dot /\ Up[2] = Dot /\ <<Slash>>[1] = Slash
  BY DEF Up
<1> QED
  BY <1>2, <1>3

(* A text of the length and the characters of another is that text.        *)
LEMMA SameText ==
    ASSUME NEW x \in Text, NEW y \in Text, Len(x) = Len(y),
           \A i \in 1 .. Len(x) : x[i] = y[i]
    PROVE  x = y
BY SeqEqual DEF Text

(* The components "." and ".." are known by their characters.              *)
LEMMA KnownParts ==
    ASSUME NEW c \in Text
    PROVE  /\ Len(c) = 0 <=> c = <<>>
           /\ c = <<Dot>> <=> Len(c) = 1 /\ c[1] = Dot
           /\ c = Up <=> Len(c) = 2 /\ c[1] = Dot /\ c[2] = Dot
<1>1. Len(c) = 0 <=> c = <<>>
  BY EmptySeq DEF Text
<1>2. ASSUME Len(c) = 1, c[1] = Dot PROVE c = <<Dot>>
  BY <1>2, Specials, SameText
<1>3. ASSUME Len(c) = 2, c[1] = Dot, c[2] = Dot PROVE c = Up
  <2>1. \A i \in 1 .. 2 : i = 1 \/ i = 2
    OBVIOUS
  <2> QED
    BY <1>3, <2>1, Specials, SameText
<1> QED
  BY <1>1, <1>2, <1>3, Specials

(* What Step does, case by case.                                           *)
LEMMA StepValue ==
    ASSUME NEW root \in BOOLEAN, NEW comps, NEW c
    PROVE  /\ c \in {<<>>, <<Dot>>} => Step(root, comps, c) = comps
           /\ c = Up /\ comps # <<>> /\ Last(comps) # Up =>
                 Step(root, comps, c) = Front(comps)
           /\ c = Up /\ comps = <<>> /\ root => Step(root, comps, c) = comps
           /\ c = Up /\ comps = <<>> /\ ~root => Step(root, comps, c) = Append(comps, c)
           /\ c = Up /\ comps # <<>> /\ Last(comps) = Up =>
                 Step(root, comps, c) = Append(comps, c)
           /\ c \notin {<<>>, <<Dot>>, Up} => Step(root, comps, c) = Append(comps, c)
<1>1. Up # <<>> /\ Up # <<Dot>>
  BY Specials
<1> QED
  BY <1>1 DEF Step

(* The front of a list and its last element.                               *)
LEMMA FrontLast ==
    ASSUME NEW T, NEW q \in Seq(T), q # <<>>
    PROVE  /\ Front(q) \in Seq(T) /\ Last(q) \in T /\ Last(q) = q[Len(q)]
           /\ Len(q) \in Nat /\ Len(q) > 0 /\ Len(Front(q)) = Len(q) - 1
           /\ \A i \in 1 .. Len(q) - 1 : Front(q)[i] = q[i]
           /\ q = Append(Front(q), Last(q))
<1>1. Len(q) \in Nat /\ Len(q) > 0
  BY EmptySeq
<1>2. PICK f, x : f = SubSeq(q, 1, Len(q) - 1) /\ x = q[Len(q)]
  OBVIOUS
<1>3. x \in T /\ \A i \in 1 .. Len(q) - 1 : q[i] \in T
  BY <1>1, <1>2
<1>4. f \in Seq(T) /\ Len(f) = Len(q) - 1 /\ \A i \in 1 .. Len(q) - 1 : f[i] = q[i]
  <2>1. 1 \in Int /\ Len(q) - 1 \in Int
    BY <1>1
  <2>2. /\ SubSeq(q, 1, Len(q) - 1) \in Seq(T)
        /\ Len(SubSeq(q, 1, Len(q) - 1)) = IF 1 <= Len(q) - 1 THEN Len(q) - 1 - 1 + 1 ELSE 0
        /\ \A i \in 1 .. Len(q) - 1 - 1 + 1 : SubSeq(q, 1, Len(q) - 1)[i] = q[1 + i - 1]
    BY <1>3, <2>1, SubSeqProperties
  <2>3. Len(f) = Len(q) - 1
    <3>1. \A m \in Nat : m > 0 => (IF 1 <= m - 1 THEN m - 1 - 1 + 1 ELSE 0) = m - 1
      OBVIOUS
    <3> QED
      BY <1>1, <1>2, <2>2, <3>1
  <2>4. \A i \in 1 .. Len(q) - 1 : f[i] = q[i]
    BY <1>1, <1>2, <2>2
  <2> QED
    BY <1>2, <2>2, <2>3, <2>4
<1>5. q = Append(f, x)
  <2>1. /\ Append(f, x) \in Seq(T) /\ Len(Append(f, x)) = Len(q)
        /\ \A i \in 1 .. Len(q) : Append(f, x)[i] = IF i = Len(q) THEN x ELSE f[i]
    BY <1>1, <1>3, <1>4, AppendProperties
  <2>2. \A i \in 1 .. Len(q) : Append(f, x)[i] = q[i]
    BY <1>1, <1>2, <1>4, <2>1
  <2> QED
    BY <2>1, <2>2, SeqEqual
<1> QED
  BY <1>1, <1>2, <1>3, <1>4, <1>5 DEF Front, Last

(* An element more.                                                        *)
LEMMA OneMore ==
    ASSUME NEW T, NEW q \in Seq(T), NEW x \in T
    PROVE  /\ Append(q, x) \in Seq(T) /\ Append(q, x) # <<>>
           /\ Len(q) \in Nat /\ Len(Append(q, x)) = Len(q) + 1
           /\ \A i \in 1 .. Len(q) : Append(q, x)[i] = q[i]
           /\ Append(q, x)[Len(q) + 1] = x
           /\ Last(Append(q, x)) = x /\ Front(Append(q, x)) = q
<1>1. /\ Append(q, x) \in Seq(T) /\ Append(q, x) # <<>>
      /\ Len(q) \in Nat /\ Len(Append(q, x)) = Len(q) + 1
      /\ \A i \in 1 .. Len(q) : Append(q, x)[i] = q[i]
      /\ Append(q, x)[Len(q) + 1] = x
  BY AppendProperties
<1>2. Last(Append(q, x)) = x
  BY <1>1 DEF Last
<1>3. PICK f : f = Front(Append(q, x))
  OBVIOUS
<1>4. /\ f \in Seq(T) /\ Len(f) = (Len(q) + 1) - 1
      /\ \A i \in 1 .. (Len(q) + 1) - 1 : f[i] = Append(q, x)[i]
  BY <1>1, <1>3, FrontLast
<1>5. (Len(q) + 1) - 1 = Len(q)
  BY <1>1
<1>6. f = q
  BY <1>1, <1>4, <1>5, SeqEqual
<1> QED
  BY <1>1, <1>2, <1>3, <1>6

(* Step keeps a list of texts, and a tidy one tidy.                        *)
LEMMA StepTyped ==
    ASSUME NEW root \in BOOLEAN, NEW comps \in Seq(Text), NEW c \in Text
    PROVE  Step(root, comps, c) \in Seq(Text)
<1>1. Append(comps, c) \in Seq(Text)
  BY OneMore
<1>2. comps # <<>> => Front(comps) \in Seq(Text)
  BY FrontLast
<1> QED
  BY <1>1, <1>2, StepValue

(* With a plain component a tidy list stays tidy, and without its last.    *)
LEMMA TidyParts ==
    ASSUME NEW root \in BOOLEAN, NEW comps, Tidy(root, comps)
    PROVE  /\ \A c : Plain(c) /\ (root => c # Up) => Tidy(root, Append(comps, c))
           /\ comps # <<>> => /\ Tidy(root, Front(comps))
                              /\ Plain(Last(comps)) /\ (root => Last(comps) # Up)
<1>1. comps \in Seq(Text) /\ Len(comps) \in Nat
  BY DEF Tidy
<1>2. ASSUME NEW c, Plain(c), root => c # Up PROVE Tidy(root, Append(comps, c))
  <2>1. c \in Text
    BY <1>2 DEF Plain, Part
  <2>2. /\ Append(comps, c) \in Seq(Text) /\ Len(Append(comps, c)) = Len(comps) + 1
        /\ \A i \in 1 .. Len(comps) : Append(comps, c)[i] = comps[i]
        /\ Append(comps, c)[Len(comps) + 1] = c
    BY <1>1, <2>1, OneMore
  <2>3. \A i \in 1 .. Len(comps) + 1 : i \in 1 .. Len(comps) \/ i = Len(comps) + 1
    BY <1>1
  <2> QED
    BY <1>2, <2>2, <2>3 DEF Tidy
<1>3. ASSUME comps # <<>>
      PROVE  Tidy(root, Front(comps)) /\ Plain(Last(comps)) /\ (root => Last(comps) # Up)
  <2>1. /\ Front(comps) \in Seq(Text) /\ Last(comps) = comps[Len(comps)]
        /\ Len(comps) > 0 /\ Len(Front(comps)) = Len(comps) - 1
        /\ \A i \in 1 .. Len(comps) - 1 : Front(comps)[i] = comps[i]
    BY <1>1, <1>3, FrontLast
  <2>2. Len(comps) \in 1 .. Len(comps) /\ \A i \in 1 .. Len(comps) - 1 : i \in 1 .. Len(comps)
    BY <1>1, <2>1
  <2> QED
    BY <2>1, <2>2 DEF Tidy
<1> QED
  BY <1>2, <1>3

(* Step keeps a list tidy.                                                 *)
LEMMA StepTidy ==
    ASSUME NEW root \in BOOLEAN, NEW comps, Tidy(root, comps), NEW c, Part(c)
    PROVE  Tidy(root, Step(root, comps, c))
<1>1. CASE c \in {<<>>, <<Dot>>}
  BY <1>1, StepValue
<1>2. CASE c = Up /\ comps # <<>> /\ Last(comps) # Up
  BY <1>2, StepValue, TidyParts
<1>3. CASE c = Up /\ comps = <<>> /\ root
  BY <1>3, StepValue
<1>4. CASE c = Up /\ comps = <<>> /\ ~root
  <2>1. Plain(c) /\ (root => c # Up)
    BY <1>4, Specials DEF Plain
  <2>2. Step(root, comps, c) = Append(comps, c)
    BY <1>4, Specials DEF Step
  <2> QED
    BY <2>1, <2>2, TidyParts
<1>5. CASE c = Up /\ comps # <<>> /\ Last(comps) = Up
  <2>1. Plain(c) /\ (root => c # Up)
    BY <1>5, Specials, TidyParts DEF Plain
  <2>2. Step(root, comps, c) = Append(comps, c)
    BY <1>5, StepValue
  <2> QED
    BY <2>1, <2>2, TidyParts
<1>6. CASE c \notin {<<>>, <<Dot>>, Up}
  <2>1. Plain(c) /\ (root => c # Up)
    BY <1>6 DEF Plain
  <2>2. Step(root, comps, c) = Append(comps, c)
    BY <1>6, StepValue
  <2> QED
    BY <2>1, <2>2, TidyParts
<1> QED
  BY <1>1, <1>2, <1>3, <1>4, <1>5, <1>6

-----------------------------------------------------------------------------
(* What has been read of a text: a list of components and a part of one.   *)
Read == [comps : Seq(Text), part : Text]
Blank == [comps |-> <<>>, part |-> <<>>]

(* Reading a character keeps that type.                                    *)
LEMMA ReadOnTyped ==
    ASSUME NEW n \in Text, NEW k \in 1 .. Len(n), NEW p \in Read
    PROVE  /\ ReadOn(n, k, p) \in Read
           /\ n[k] = Slash => /\ ReadOn(n, k, p).comps = Step(Rooted(n), p.comps, p.part)
                              /\ ReadOn(n, k, p).part = <<>>
           /\ n[k] # Slash => /\ ReadOn(n, k, p).comps = p.comps
                              /\ ReadOn(n, k, p).part = Append(p.part, n[k])
<1>1. n[k] \in Char /\ p.comps \in Seq(Text) /\ p.part \in Text
  BY DEF Text, Read
<1>2. Step(Rooted(n), p.comps, p.part) \in Seq(Text)
  <2>1. Rooted(n) \in BOOLEAN
    BY DEF Rooted
  <2> QED
    BY <1>1, <2>1, StepTyped
<1>3. Append(p.part, n[k]) \in Text
  BY <1>1, OneMore DEF Text
<1>4. CASE n[k] = Slash
  BY <1>2, <1>4, Specials DEF ReadOn, Read
<1>5. CASE n[k] # Slash
  BY <1>1, <1>3, <1>5 DEF ReadOn, Read
<1> QED
  BY <1>4, <1>5

(* The function by which Reading reads a text character by character.      *)
ReadBody(n, f) ==
    [k \in 0 .. Len(n) |-> IF k = 0 THEN Blank ELSE ReadOn(n, k, f[k - 1])]

(* The recursion of Reading is well defined.                               *)
LEMMA ReadingIs ==
    ASSUME NEW n \in Text
    PROVE  /\ Reading(n) \in [0 .. Len(n) -> Read]
           /\ Reading(n)[0] = Blank
           /\ \A k \in 1 .. Len(n) : Reading(n)[k] = ReadOn(n, k, Reading(n)[k - 1])
<1> DEFINE r == CHOOSE f : f = ReadBody(n, f)
<1>0. Len(n) \in Nat
  BY DEF Text
<1>1. Blank \in Read
  BY Specials DEF Blank, Read
<1>2. PICK g : g = [x \in (1 .. Len(n)) \X Read |-> ReadOn(n, x[1], x[2])]
  OBVIOUS
<1>3. g \in [(1 .. Len(n)) \X Read -> Read]
  BY <1>2, ReadOnTyped
<1>4. PICK f : /\ f \in [0 .. Len(n) -> Read] /\ f[0] = Blank
               /\ \A k \in 1 .. Len(n) : f[k] = g[<<k, f[k - 1]>>]
  <2>1. Steps(g, Len(n), Read)
    BY <1>3 DEF Steps
  <2>2. \E f : Solves(f, g, Len(n), Blank, Read)
    BY <1>0, <1>1, <2>1, Recursion
  <2> QED
    BY <2>2 DEF Solves
<1>5. \A k \in 1 .. Len(n) : k - 1 \in 0 .. Len(n) /\ k # 0 /\ k \in 0 .. Len(n)
  BY <1>0
<1>6. \A k \in 1 .. Len(n) : f[k] = ReadOn(n, k, f[k - 1])
  BY <1>2, <1>4, <1>5
<1>7. f = ReadBody(n, f)
  <2>1. \A k \in 0 .. Len(n) : k # 0 => k \in 1 .. Len(n)
    BY <1>0
  <2>2. \A k \in 0 .. Len(n) : f[k] = IF k = 0 THEN Blank ELSE ReadOn(n, k, f[k - 1])
    BY <1>4, <1>6, <2>1
  <2> QED
    BY <1>4, <2>2 DEF ReadBody
<1>8. r = ReadBody(n, r)
  BY <1>7
<1>9. Reading(n) = r
  BY DEF Reading, ReadBody, Blank
<1> HIDE DEF r
<1>10. r[0] = Blank /\ \A k \in 1 .. Len(n) : r[k] = ReadOn(n, k, r[k - 1])
  <2>1. 0 \in 0 .. Len(n)
    BY <1>0
  <2> QED
    BY <1>5, <1>8, <2>1 DEF ReadBody
<1> DEFINE Bad == {k \in 0 .. Len(n) : r[k] \notin Read}
<1>11. Bad = {}
  <2> SUFFICES ASSUME Bad # {} PROVE FALSE
    OBVIOUS
  <2>1. Bad \in SUBSET Nat
    BY <1>0
  <2>2. PICK k \in Bad : \A j \in Bad : k <= j
    BY <2>1, Least
  <2>3. k \in 0 .. Len(n) /\ r[k] \notin Read /\ k # 0
    BY <1>1, <1>10, <2>2
  <2>4. k \in 1 .. Len(n) /\ k - 1 \in 0 .. Len(n) /\ ~(k <= k - 1)
    BY <1>0, <2>3
  <2>5. r[k - 1] \in Read
    BY <2>2, <2>4
  <2> QED
    BY <1>10, <2>3, <2>4, <2>5, ReadOnTyped
<1>12. r \in [0 .. Len(n) -> Read]
  <2>1. r = [k \in 0 .. Len(n) |-> r[k]]
    BY <1>8 DEF ReadBody
  <2> QED
    BY <1>11, <2>1
<1> QED
  BY <1>9, <1>10, <1>12

(* What has been read is tidy up to the last slash.                        *)
LEMMA ReadingTidy ==
    ASSUME NEW n \in Text, NEW i \in 0 .. Len(n)
    PROVE  Tidy(Rooted(n), Reading(n)[i].comps) /\ Part(Reading(n)[i].part)
<1> DEFINE Good(k) == Tidy(Rooted(n), Reading(n)[k].comps) /\ Part(Reading(n)[k].part)
           Bad == {k \in 0 .. Len(n) : ~Good(k)}
<1>0. Len(n) \in Nat /\ Rooted(n) \in BOOLEAN
  BY DEF Text, Rooted
<1>1. /\ Reading(n) \in [0 .. Len(n) -> Read] /\ Reading(n)[0] = Blank
      /\ \A k \in 1 .. Len(n) : Reading(n)[k] = ReadOn(n, k, Reading(n)[k - 1])
  BY ReadingIs
<1>2. Good(0)
  <2>1. Tidy(Rooted(n), <<>>) /\ Part(<<>>)
    BY Specials DEF Tidy, Part
  <2> QED
    BY <1>1, <2>1 DEF Blank
<1>3. ASSUME NEW k \in 1 .. Len(n), Good(k - 1) PROVE Good(k)
  <2>1. PICK p \in Read : p = Reading(n)[k - 1] /\ Reading(n)[k] = ReadOn(n, k, p)
    <3>1. k - 1 \in 0 .. Len(n)
      BY <1>0
    <3> QED
      BY <1>1, <3>1
  <2>2. Tidy(Rooted(n), p.comps) /\ Part(p.part)
    BY <1>3, <2>1
  <2>3. CASE n[k] = Slash
    <3>1. ReadOn(n, k, p).comps = Step(Rooted(n), p.comps, p.part) /\ ReadOn(n, k, p).part = <<>>
      BY <2>3, ReadOnTyped
    <3>2. Tidy(Rooted(n), Step(Rooted(n), p.comps, p.part))
      BY <1>0, <2>2, StepTidy
    <3> QED
      BY <2>1, <3>1, <3>2, Specials DEF Part
  <2>4. CASE n[k] # Slash
    <3>1. /\ ReadOn(n, k, p).comps = p.comps
          /\ ReadOn(n, k, p).part = Append(p.part, n[k])
      BY <2>4, ReadOnTyped
    <3>2. n[k] \in Char /\ p.part \in Seq(Char)
      BY <2>2 DEF Text, Part
    <3>3. PICK c : c = Append(p.part, n[k])
      OBVIOUS
    <3>4. /\ c \in Seq(Char) /\ Len(c) = Len(p.part) + 1 /\ Len(p.part) \in Nat
          /\ \A j \in 1 .. Len(p.part) : c[j] = p.part[j]
          /\ c[Len(p.part) + 1] = n[k]
      BY <3>2, <3>3, OneMore
    <3>5. \A j \in 1 .. Len(p.part) + 1 : j \in 1 .. Len(p.part) \/ j = Len(p.part) + 1
      BY <3>4
    <3>6. Part(c)
      BY <2>2, <2>4, <3>4, <3>5 DEF Part, Text
    <3> QED
      BY <2>1, <2>2, <3>1, <3>3, <3>6
  <2> QED
    BY <2>3, <2>4
<1> HIDE DEF Good
<1>4. Bad = {}
  <2> SUFFICES ASSUME Bad # {} PROVE FALSE
    OBVIOUS
  <2>1. Bad \in SUBSET Nat
    BY <1>0
  <2>2. PICK k \in Bad : \A j \in Bad : k <= j
    BY <2>1, Least
  <2>3. k \in 0 .. Len(n) /\ ~Good(k) /\ k # 0
    BY <1>2, <2>2
  <2>4. k \in 1 .. Len(n) /\ k - 1 \in 0 .. Len(n) /\ ~(k <= k - 1)
    BY <1>0, <2>3
  <2>5. Good(k - 1)
    BY <2>2, <2>4
  <2> QED
    BY <1>3, <2>3, <2>4, <2>5
<1>5. Good(i)
  BY <1>4
<1> QED
  BY <1>5 DEF Good

(* A part of a text.                                                       *)
LEMMA Cut ==
    ASSUME NEW T, NEW q \in Seq(T), NEW i \in 0 .. Len(q), NEW j \in i .. Len(q)
    PROVE  /\ SubSeq(q, i + 1, j) \in Seq(T) /\ Len(SubSeq(q, i + 1, j)) = j - i
           /\ \A k \in 1 .. j - i : SubSeq(q, i + 1, j)[k] = q[i + k]
<1>0. Len(q) \in Nat /\ i \in Nat /\ j \in Nat /\ i <= j /\ j <= Len(q)
  OBVIOUS
<1>1. i + 1 \in Int /\ j \in Int /\ \A k \in i + 1 .. j : q[k] \in T
  BY <1>0
<1>2. PICK c : c = SubSeq(q, i + 1, j)
  OBVIOUS
<1>3. /\ c \in Seq(T) /\ Len(c) = IF i + 1 <= j THEN j - (i + 1) + 1 ELSE 0
      /\ \A k \in 1 .. j - (i + 1) + 1 : c[k] = q[i + 1 + k - 1]
  BY <1>1, <1>2, SubSeqProperties
<1>4. (IF i + 1 <= j THEN j - (i + 1) + 1 ELSE 0) = j - i
  BY <1>0
<1>5. \A k \in 1 .. j - i : k \in 1 .. j - (i + 1) + 1 /\ i + 1 + k - 1 = i + k
  BY <1>0
<1> QED
  BY <1>2, <1>3, <1>4, <1>5

(* Reading on from a slash through characters that are none.               *)
LEMMA ReadRun ==
    ASSUME NEW n \in Text, NEW k \in 0 .. Len(n), NEW e \in k .. Len(n),
           Reading(n)[k].part = <<>>, \A i \in k + 1 .. e : n[i] # Slash
    PROVE  /\ Reading(n)[e].comps = Reading(n)[k].comps
           /\ Reading(n)[e].part = SubSeq(n, k + 1, e)
<1> DEFINE Good(i) == /\ Reading(n)[i].comps = Reading(n)[k].comps
                      /\ Reading(n)[i].part = SubSeq(n, k + 1, i)
           Bad == {i \in k .. e : ~Good(i)}
<1>0. Len(n) \in Nat /\ k \in Nat /\ e \in Nat /\ k <= e /\ e <= Len(n) /\ n \in Seq(Char)
  BY DEF Text
<1>1. /\ Reading(n) \in [0 .. Len(n) -> Read]
      /\ \A i \in 1 .. Len(n) : Reading(n)[i] = ReadOn(n, i, Reading(n)[i - 1])
  BY ReadingIs
<1>2. Good(k)
  <2>1. PICK c : c = SubSeq(n, k + 1, k)
    OBVIOUS
  <2>2. c \in Text /\ Len(c) = k - k
    <3>1. k \in k .. Len(n)
      BY <1>0
    <3> QED
      BY <1>0, <2>1, <3>1, Cut DEF Text
  <2>3. Len(c) = 0
    BY <1>0, <2>2
  <2>4. c = <<>>
    BY <2>2, <2>3, KnownParts
  <2> QED
    BY <2>1, <2>4
<1>3. ASSUME NEW i \in k + 1 .. e, Good(i - 1) PROVE Good(i)
  <2>0. /\ i \in 1 .. Len(n) /\ i - 1 \in 0 .. Len(n) /\ i \in k .. Len(n)
        /\ i - 1 \in k .. Len(n) /\ i \in Nat /\ k + 1 <= i
    BY <1>0
  <2>1. PICK p \in Read : p = Reading(n)[i - 1] /\ Reading(n)[i] = ReadOn(n, i, p)
    BY <1>1, <2>0
  <2>2. p.comps = Reading(n)[k].comps /\ p.part = SubSeq(n, k + 1, i - 1)
    BY <1>3, <2>1
  <2>3. ReadOn(n, i, p).comps = p.comps /\ ReadOn(n, i, p).part = Append(p.part, n[i])
    <3>1. n[i] # Slash
      BY <1>3
    <3> QED
      BY <2>0, <3>1, ReadOnTyped
  <2>4. PICK b, c, d : /\ b = SubSeq(n, k + 1, i - 1) /\ c = SubSeq(n, k + 1, i)
                       /\ d = Append(b, n[i])
    OBVIOUS
  <2>5. b \in Seq(Char) /\ Len(b) = i - 1 - k /\ \A j \in 1 .. i - 1 - k : b[j] = n[k + j]
    BY <1>0, <2>0, <2>4, Cut
  <2>6. c \in Seq(Char) /\ Len(c) = i - k /\ \A j \in 1 .. i - k : c[j] = n[k + j]
    BY <1>0, <2>0, <2>4, Cut
  <2>7. /\ d \in Seq(Char) /\ Len(d) = Len(b) + 1
        /\ \A j \in 1 .. Len(b) : d[j] = b[j]
        /\ d[Len(b) + 1] = n[i]
    <3>1. n[i] \in Char
      BY <1>0, <2>0
    <3> QED
      BY <2>4, <2>5, <3>1, OneMore
  <2>8. d = c
    <3>1. Len(d) = i - k /\ Len(c) = i - k
      BY <1>0, <2>0, <2>5, <2>6, <2>7
    <3>2. ASSUME NEW j \in 1 .. i - k PROVE d[j] = c[j]
      <4>1. CASE j = i - k
        <5>1. j = Len(b) + 1 /\ k + j = i
          BY <1>0, <2>0, <2>5, <4>1
        <5> QED
          BY <2>6, <2>7, <5>1
      <4>2. CASE j # i - k
        <5>1. j \in 1 .. i - 1 - k
          BY <1>0, <2>0, <4>2
        <5> QED
          BY <2>5, <2>6, <2>7, <5>1
      <4> QED
        BY <4>1, <4>2
    <3> QED
      BY <2>6, <2>7, <3>1, <3>2, SeqEqual
  <2> QED
    BY <2>1, <2>2, <2>3, <2>4, <2>8
<1> HIDE DEF Good
<1>4. Bad = {}
  <2> SUFFICES ASSUME Bad # {} PROVE FALSE
    OBVIOUS
  <2>1. Bad \in SUBSET Nat
    BY <1>0
  <2>2. PICK i \in Bad : \A j \in Bad : i <= j
    BY <2>1, Least
  <2>3. i \in k .. e /\ ~Good(i) /\ i # k
    BY <1>2, <2>2
  <2>4. i \in k + 1 .. e /\ i - 1 \in k .. e /\ ~(i <= i - 1)
    BY <1>0, <2>3
  <2>5. Good(i - 1)
    BY <2>2, <2>4
  <2> QED
    BY <1>3, <2>3, <2>4, <2>5
<1>5. Good(e)
  BY <1>0, <1>4
<1> QED
  BY <1>5 DEF Good

(* Reading a whole component, to its slash or to the end of the text.      *)
LEMMA ReadComponent ==
    ASSUME NEW n \in Text, NEW k \in 0 .. Len(n), NEW e \in k .. Len(n),
           Reading(n)[k].part = <<>>, \A i \in k + 1 .. e : n[i] # Slash,
           NEW x, x = SubSeq(n, k + 1, e), NEW c, c = Reading(n)[k].comps
    PROVE  /\ Part(x)
           /\ e = Len(n) => Meaning(n) = Step(Rooted(n), c, x)
           /\ e < Len(n) /\ n[e + 1] = Slash =>
                 /\ e + 1 \in 0 .. Len(n)
                 /\ Reading(n)[e + 1].comps = Step(Rooted(n), c, x)
                 /\ Reading(n)[e + 1].part = <<>>
<1>0. Len(n) \in Nat /\ k \in Nat /\ e \in 0 .. Len(n) /\ e \in Nat
  BY DEF Text
<1>1. Reading(n)[e].comps = c /\ Reading(n)[e].part = x
  BY ReadRun
<1>2. Part(x)
  BY <1>0, <1>1, ReadingTidy
<1>3. ASSUME e = Len(n) PROVE Meaning(n) = Step(Rooted(n), c, x)
  BY <1>1, <1>3 DEF Meaning
<1>4. ASSUME e < Len(n), n[e + 1] = Slash
      PROVE  /\ e + 1 \in 0 .. Len(n)
             /\ Reading(n)[e + 1].comps = Step(Rooted(n), c, x)
             /\ Reading(n)[e + 1].part = <<>>
  <2>1. e + 1 \in 1 .. Len(n) /\ (e + 1) - 1 = e /\ e + 1 \in 0 .. Len(n)
    BY <1>0, <1>4
  <2>2. Reading(n)[e] \in Read /\ Reading(n)[e + 1] = ReadOn(n, e + 1, Reading(n)[e])
    BY <1>0, <2>1, ReadingIs
  <2>3. PICK p \in Read, j \in 1 .. Len(n) : p = Reading(n)[e] /\ j = e + 1
    BY <2>1, <2>2
  <2>4. /\ ReadOn(n, j, p).comps = Step(Rooted(n), p.comps, p.part)
        /\ ReadOn(n, j, p).part = <<>>
    BY <1>4, <2>3, ReadOnTyped
  <2> QED
    BY <1>1, <2>1, <2>2, <2>3, <2>4
<1> QED
  BY <1>2, <1>3, <1>4

-----------------------------------------------------------------------------
(* Putting texts together.                                                 *)
LEMMA Glue ==
    ASSUME NEW x \in Text, NEW y \in Text
    PROVE  /\ x \o y \in Text /\ Len(x \o y) = Len(x) + Len(y)
           /\ Len(x) \in Nat /\ Len(y) \in Nat
           /\ \A i \in 1 .. Len(x) : (x \o y)[i] = x[i]
           /\ \A i \in 1 .. Len(y) : (x \o y)[Len(x) + i] = y[i]
<1>0. Len(x) \in Nat /\ Len(y) \in Nat /\ x \in Seq(Char) /\ y \in Seq(Char)
  BY DEF Text
<1>1. PICK z : z = x \o y
  OBVIOUS
<1>2. /\ z \in Seq(Char) /\ Len(z) = Len(x) + Len(y)
      /\ \A i \in 1 .. Len(x) + Len(y) :
            z[i] = IF i <= Len(x) THEN x[i] ELSE y[i - Len(x)]
  BY <1>0, <1>1, ConcatProperties
<1>3. \A i \in 1 .. Len(x) : i \in 1 .. Len(x) + Len(y) /\ i <= Len(x)
  BY <1>0
<1>4. \A i \in 1 .. Len(y) : /\ Len(x) + i \in 1 .. Len(x) + Len(y)
                             /\ ~(Len(x) + i <= Len(x)) /\ (Len(x) + i) - Len(x) = i
  BY <1>0
<1>5. \A i \in 1 .. Len(x) : z[i] = x[i]
  BY <1>2, <1>3
<1>6. \A i \in 1 .. Len(y) : z[Len(x) + i] = y[i]
  BY <1>2, <1>4
<1> QED
  BY <1>0, <1>1, <1>2, <1>5, <1>6 DEF Text

(* Putting three texts together, in either order.                          *)
LEMMA Glue3 ==
    ASSUME NEW x \in Text, NEW y \in Text, NEW z \in Text
    PROVE  (x \o y) \o z = x \o (y \o z)
BY ConcatAssociative DEF Text

(* The function by which Joined joins components.                          *)
Base(root) == IF root THEN <<Slash>> ELSE <<>>
JoinBody(root, comps, f) ==
    [k \in 0 .. Len(comps) |->
        IF k = 0 THEN Base(root) ELSE f[k - 1] \o comps[k] \o <<Slash>>]
Joining(root, comps) == CHOOSE f : f = JoinBody(root, comps, f)

(* The recursion of Joined is well defined.                                *)
LEMMA JoiningIs ==
    ASSUME NEW root \in BOOLEAN, NEW comps \in Seq(Text)
    PROVE  /\ Joining(root, comps) \in [0 .. Len(comps) -> Text]
           /\ Joining(root, comps)[0] = Base(root)
           /\ \A k \in 1 .. Len(comps) : Joining(root, comps)[k] =
                 Joining(root, comps)[k - 1] \o comps[k] \o <<Slash>>
           /\ Joined(root, comps) = Joining(root, comps)[Len(comps)]
           /\ Len(comps) \in Nat
<1>0. PICK l \in Nat : l = Len(comps)
  OBVIOUS
<1>1. Base(root) \in Text
  BY Specials DEF Base
<1>2. \A k \in 1 .. l, t \in Text : t \o comps[k] \o <<Slash>> \in Text
  <2>1. \A k \in 1 .. l : comps[k] \in Text
    BY <1>0
  <2>2. <<Slash>> \in Text
    BY Specials
  <2>3. \A t \in Text, u \in Text : t \o u \in Text
    BY Glue
  <2> QED
    BY <2>1, <2>2, <2>3
<1>3. PICK g : g = [x \in (1 .. l) \X Text |-> x[2] \o comps[x[1]] \o <<Slash>>]
  OBVIOUS
<1>4. Steps(g, l, Text)
  BY <1>2, <1>3 DEF Steps
<1>5. PICK f : /\ f \in [0 .. l -> Text] /\ f[0] = Base(root)
               /\ \A k \in 1 .. l : f[k] = g[<<k, f[k - 1]>>]
  <2>1. \E f : Solves(f, g, l, Base(root), Text)
    BY <1>1, <1>4, Recursion
  <2> QED
    BY <2>1 DEF Solves
<1>6. \A k \in 1 .. l : k - 1 \in 0 .. l /\ k # 0 /\ k \in 0 .. l
  BY <1>0
<1>7. \A k \in 1 .. l : f[k] = f[k - 1] \o comps[k] \o <<Slash>>
  BY <1>3, <1>5, <1>6
<1>8. f = JoinBody(root, comps, f)
  <2>1. \A k \in 0 .. l : k # 0 => k \in 1 .. l
    BY <1>0
  <2>2. \A k \in 0 .. l :
           f[k] = IF k = 0 THEN Base(root) ELSE f[k - 1] \o comps[k] \o <<Slash>>
    BY <1>5, <1>7, <2>1
  <2> QED
    BY <1>0, <1>5, <2>2 DEF JoinBody
<1>9. PICK r : r = Joining(root, comps)
  OBVIOUS
<1>10. r = JoinBody(root, comps, r)
  BY <1>8, <1>9 DEF Joining
<1>11. Joined(root, comps) = r[l]
  BY <1>0, <1>9 DEF Joined, Joining, JoinBody, Base
<1>12. r[0] = Base(root) /\ \A k \in 1 .. l : r[k] = r[k - 1] \o comps[k] \o <<Slash>>
  <2>1. 0 \in 0 .. l
    BY <1>0
  <2> QED
    BY <1>0, <1>6, <1>10, <2>1 DEF JoinBody
<1> DEFINE Bad == {k \in 0 .. l : r[k] \notin Text}
<1>13. Bad = {}
  <2> SUFFICES ASSUME Bad # {} PROVE FALSE
    OBVIOUS
  <2>1. Bad \in SUBSET Nat
    BY <1>0
  <2>2. PICK k \in Bad : \A j \in Bad : k <= j
    BY <2>1, Least
  <2>3. k \in 0 .. l /\ r[k] \notin Text /\ k # 0
    BY <1>1, <1>12, <2>2
  <2>4. k \in 1 .. l /\ k - 1 \in 0 .. l /\ ~(k <= k - 1)
    BY <1>0, <2>3
  <2>5. r[k - 1] \in Text
    BY <2>2, <2>4
  <2> QED
    BY <1>2, <1>12, <2>3, <2>4, <2>5
<1>14. r \in [0 .. l -> Text]
  <2>1. r = [k \in 0 .. l |-> r[k]]
    BY <1>0, <1>10 DEF JoinBody
  <2> QED
    BY <1>13, <2>1
<1> QED
  BY <1>0, <1>9, <1>11, <1>12, <1>14

(* Joining the first components does not depend on the ones after them.    *)
LEMMA JoinedMore ==
    ASSUME NEW root \in BOOLEAN, NEW comps \in Seq(Text), NEW x \in Text
    PROVE  Joined(root, Append(comps, x)) = Joined(root, comps) \o x \o <<Slash>>
<1>1. PICK more : more = Append(comps, x)
  OBVIOUS
<1>2. PICK l \in Nat : l = Len(comps)
  OBVIOUS
<1>3. /\ more \in Seq(Text) /\ Len(more) = l + 1 /\ more[l + 1] = x
      /\ \A k \in 1 .. l : more[k] = comps[k]
  BY <1>1, <1>2, OneMore
<1>4. PICK f, g : f = Joining(root, comps) /\ g = Joining(root, more)
  OBVIOUS
<1>5. /\ f[0] = Base(root) /\ Joined(root, comps) = f[l]
      /\ \A k \in 1 .. l : f[k] = f[k - 1] \o comps[k] \o <<Slash>>
  BY <1>2, <1>4, JoiningIs
<1>6. /\ g[0] = Base(root) /\ Joined(root, more) = g[l + 1]
      /\ \A k \in 1 .. l + 1 : g[k] = g[k - 1] \o more[k] \o <<Slash>>
  BY <1>3, <1>4, JoiningIs
<1> DEFINE Bad == {k \in 0 .. l : f[k] # g[k]}
<1>7. Bad = {}
  <2> SUFFICES ASSUME Bad # {} PROVE FALSE
    OBVIOUS
  <2>1. Bad \in SUBSET Nat
    BY <1>2
  <2>2. PICK k \in Bad : \A j \in Bad : k <= j
    BY <2>1, Least
  <2>3. k \in 0 .. l /\ f[k] # g[k] /\ k # 0
    BY <1>5, <1>6, <2>2
  <2>4. k \in 1 .. l /\ k \in 1 .. l + 1 /\ k - 1 \in 0 .. l /\ ~(k <= k - 1)
    BY <1>2, <2>3
  <2>5. f[k - 1] = g[k - 1]
    BY <2>2, <2>4
  <2> QED
    BY <1>3, <1>5, <1>6, <2>3, <2>4, <2>5
<1>8. l \in 0 .. l /\ l + 1 \in 1 .. l + 1 /\ (l + 1) - 1 = l
  BY <1>2
<1>9. g[l + 1] = g[l] \o x \o <<Slash>> /\ g[l] = f[l]
  BY <1>3, <1>6, <1>7, <1>8
<1> QED
  BY <1>1, <1>5, <1>6, <1>9

(* The empty list.                                                         *)
LEMMA JoinedNone ==
    ASSUME NEW root \in BOOLEAN
    PROVE  Joined(root, <<>>) = Base(root) /\ <<>> \in Seq(Text)
<1>1. PICK none : none = <<>>
  OBVIOUS
<1>2. none \in Seq(Text) /\ Len(none) = 0
  BY <1>1, EmptySeq
<1>3. PICK f : f = Joining(root, none)
  OBVIOUS
<1>4. Joined(root, none) = f[Len(none)] /\ f[0] = Base(root)
  BY <1>2, <1>3, JoiningIs
<1> QED
  BY <1>1, <1>2, <1>4

(* A joined list is a text, and its last component the end of that text.   *)
LEMMA JoinedText ==
    ASSUME NEW root \in BOOLEAN, NEW comps \in Seq(Text)
    PROVE  Joined(root, comps) \in Text
<1>1. PICK f : f = Joining(root, comps)
  OBVIOUS
<1>2. /\ f \in [0 .. Len(comps) -> Text] /\ Joined(root, comps) = f[Len(comps)]
      /\ Len(comps) \in Nat
  BY <1>1, JoiningIs
<1>3. Len(comps) \in 0 .. Len(comps)
  BY <1>2
<1> QED
  BY <1>2, <1>3

(* The characters of a joined list from those of all but the last.         *)
LEMMA JoinedShape ==
    ASSUME NEW root \in BOOLEAN, NEW comps, Tidy(root, comps), comps # <<>>,
           NEW d, d = Joined(root, comps), NEW b, b = Joined(root, Front(comps)),
           NEW x, x = Last(comps)
    PROVE  /\ d \in Text /\ b \in Text /\ x \in Text /\ Plain(x)
           /\ Len(b) \in Nat /\ Len(x) \in Nat /\ Len(x) > 0
           /\ Len(d) = Len(b) + Len(x) + 1
           /\ d = b \o x \o <<Slash>>
           /\ \A i \in 1 .. Len(b) : d[i] = b[i]
           /\ \A i \in 1 .. Len(x) : d[Len(b) + i] = x[i]
           /\ d[Len(b) + Len(x) + 1] = Slash
<1>1. comps \in Seq(Text)
  BY DEF Tidy
<1>2. Front(comps) \in Seq(Text) /\ x \in Text /\ comps = Append(Front(comps), x)
  BY <1>1, FrontLast
<1>3. Plain(x)
  BY TidyParts
<1>4. b \in Text /\ d = b \o x \o <<Slash>>
  <2>1. Joined(root, Append(Front(comps), x)) = Joined(root, Front(comps)) \o x \o <<Slash>>
    BY <1>2, JoinedMore
  <2> QED
    BY <1>2, <2>1, JoinedText
<1>5. Len(x) \in Nat /\ Len(x) > 0 /\ Len(b) \in Nat
  BY <1>2, <1>3, <1>4, KnownParts DEF Plain, Text
<1>6. PICK y : y = b \o x
  OBVIOUS
<1>7. /\ y \in Text /\ Len(y) = Len(b) + Len(x)
      /\ \A i \in 1 .. Len(b) : y[i] = b[i]
      /\ \A i \in 1 .. Len(x) : y[Len(b) + i] = x[i]
  BY <1>2, <1>4, <1>6, Glue
<1>8. /\ <<Slash>> \in Text /\ Len(<<Slash>>) = 1 /\ <<Slash>>[1] = Slash /\ d = y \o <<Slash>>
  BY <1>4, <1>6, Specials
<1>14. PICK z : z = <<Slash>>
  OBVIOUS
<1>15. z \in Text /\ Len(z) = 1 /\ z[1] = Slash /\ d = y \o z
  BY <1>8, <1>14
<1>9. /\ d \in Text /\ Len(d) = Len(y) + 1
      /\ \A i \in 1 .. Len(y) : d[i] = y[i]
      /\ d[Len(y) + 1] = Slash
  <2>0. y \in Text
    BY <1>7
  <2>1. /\ y \o z \in Text /\ Len(y \o z) = Len(y) + Len(z)
        /\ \A i \in 1 .. Len(y) : (y \o z)[i] = y[i]
        /\ \A i \in 1 .. Len(z) : (y \o z)[Len(y) + i] = z[i]
    BY <1>15, <2>0, Glue
  <2>2. 1 \in 1 .. Len(z)
    BY <1>15
  <2> QED
    BY <1>15, <2>1, <2>2
<1>10. /\ \A i \in 1 .. Len(b) : i \in 1 .. Len(y)
       /\ \A i \in 1 .. Len(x) : Len(b) + i \in 1 .. Len(y)
  BY <1>5, <1>7
<1>11. \A i \in 1 .. Len(b) : d[i] = b[i]
  BY <1>7, <1>9, <1>10
<1>12. \A i \in 1 .. Len(x) : d[Len(b) + i] = x[i]
  BY <1>7, <1>9, <1>10
<1>13. Len(d) = Len(b) + Len(x) + 1 /\ d[Len(b) + Len(x) + 1] = Slash
  BY <1>7, <1>9
<1> QED
  BY <1>2, <1>3, <1>4, <1>5, <1>9, <1>11, <1>12, <1>13

(* A joined list is empty or ends in a slash.                              *)
LEMMA JoinedEnd ==
    ASSUME NEW root \in BOOLEAN, NEW comps, Tidy(root, comps),
           NEW d, d = Joined(root, comps)
    PROVE  /\ d \in Text /\ Len(d) \in Nat
           /\ Len(d) = 0 \/ d[Len(d)] = Slash
           /\ d = <<>> <=> comps = <<>> /\ ~root
           /\ Len(d) = 1 => comps = <<>> /\ root
           /\ comps = <<>> => d = Base(root)
<1>1. comps \in Seq(Text)
  BY DEF Tidy
<1>2. CASE comps = <<>> /\ root
  <2>1. d = <<Slash>> /\ d = Base(root)
    BY <1>2, JoinedNone DEF Base
  <2>2. d \in Text /\ Len(d) = 1 /\ d[1] = Slash
    BY <2>1, Specials
  <2>3. d # <<>>
    BY <2>2, KnownParts
  <2> QED
    BY <1>2, <2>1, <2>2, <2>3
<1>3. CASE comps = <<>> /\ ~root
  <2>1. d = <<>>
    BY <1>3, JoinedNone DEF Base
  <2> QED
    BY <1>3, <2>1, Specials DEF Base
<1>4. CASE comps # <<>>
  <2>1. PICK b, x : b = Joined(root, Front(comps)) /\ x = Last(comps)
    OBVIOUS
  <2>2. /\ d \in Text /\ Len(b) \in Nat /\ Len(x) \in Nat /\ Len(x) > 0
        /\ Len(d) = Len(b) + Len(x) + 1 /\ d[Len(b) + Len(x) + 1] = Slash
    BY <1>4, <2>1, JoinedShape
  <2>3. Len(d) \in Nat /\ Len(d) > 1
    BY <2>2
  <2> QED
    BY <1>4, <2>2, <2>3, KnownParts
<1> QED
  BY <1>2, <1>3, <1>4

-----------------------------------------------------------------------------
(* The buffer while a name is read.                                        *)

(* Looking for ".." at the end of the buffer finds the last component.     *)
LEMMA EndsInUpJoined ==
    ASSUME NEW root \in BOOLEAN, NEW comps, Tidy(root, comps), comps # <<>>,
           dst = Joined(root, comps)
    PROVE  EndsInUp <=> Last(comps) = Up
<1>1. PICK b, x : b = Joined(root, Front(comps)) /\ x = Last(comps)
  OBVIOUS
<1>2. /\ dst \in Text /\ b \in Text /\ x \in Text /\ Plain(x)
      /\ Len(b) \in Nat /\ Len(x) \in Nat /\ Len(x) > 0
      /\ Len(dst) = Len(b) + Len(x) + 1
      /\ \A i \in 1 .. Len(b) : dst[i] = b[i]
      /\ \A i \in 1 .. Len(x) : dst[Len(b) + i] = x[i]
  BY <1>1, JoinedShape
<1>3. Len(b) = 0 \/ b[Len(b)] = Slash
  BY <1>1, TidyParts, JoinedEnd
<1>4. PICK l \in Nat, m \in Nat : l = Len(b) /\ m = Len(x) /\ m > 0 /\ Len(dst) = l + m + 1
  BY <1>2
<1>5. \A i \in 1 .. m : dst[l + i] = x[i]
  BY <1>2, <1>4
<1>6. DOMAIN dst = 1 .. l + m + 1 /\ \A i \in 1 .. m : x[i] \in Char /\ x[i] # Slash
  BY <1>2, <1>4 DEF Text, Plain, Part
<1>7. EndsInUp <=> /\ l + m + 1 >= 3 /\ dst[l + m] = Dot /\ dst[l + m - 1] = Dot
                   /\ At(dst, l + m - 2) \in {Slash, "NUL"}
  <2>1. /\ (l + m + 1) - 1 = l + m /\ (l + m + 1) - 2 = l + m - 1
        /\ (l + m + 1) - 3 = l + m - 2
    BY <1>4
  <2> QED
    BY <1>4, <2>1 DEF EndsInUp
<1>8. dst[l + m] = x[m]
  BY <1>4, <1>5
<1>9. ASSUME x = Up PROVE EndsInUp
  <2>1. m = 2 /\ x[1] = Dot /\ x[2] = Dot
    BY <1>4, <1>9, Specials
  <2>2. l + m + 1 >= 3 /\ l + m - 1 = l + 1 /\ l + m - 2 = l
    BY <1>4, <2>1
  <2>3. dst[l + m] = Dot /\ dst[l + m - 1] = Dot
    <3>1. 1 \in 1 .. m
      BY <2>1
    <3> QED
      BY <1>5, <1>8, <2>1, <2>2, <3>1
  <2>4. At(dst, l) \in {Slash, "NUL"}
    <3>1. CASE l = 0
      <4>1. l \notin DOMAIN dst
        BY <1>6, <3>1
      <4> QED
        BY <4>1 DEF At
    <3>2. CASE l # 0
      <4>1. l \in 1 .. l /\ l \in DOMAIN dst
        BY <1>4, <1>6, <3>2
      <4>2. dst[l] = Slash
        BY <1>2, <1>3, <1>4, <3>2, <4>1
      <4> QED
        BY <4>1, <4>2 DEF At
    <3> QED
      BY <3>1, <3>2
  <2> QED
    BY <1>7, <2>2, <2>3, <2>4
<1>10. ASSUME EndsInUp PROVE x = Up
  <2>1. x[m] = Dot
    BY <1>7, <1>8, <1>10
  <2>2. m # 1
    <3>1. m = 1 => x = <<Dot>>
      BY <1>2, <1>4, <2>1, KnownParts
    <3> QED
      BY <1>2, <3>1 DEF Plain
  <2>3. m - 1 \in 1 .. m /\ l + (m - 1) = l + m - 1
    BY <1>4, <2>2
  <2>4. x[m - 1] = Dot
    BY <1>5, <1>7, <1>10, <2>3
  <2>5. CASE m = 2
    <3>1. m - 1 = 1
      BY <2>5
    <3>2. Len(x) = 2 /\ x[2] = Dot /\ x[1] = Dot
      BY <1>4, <2>1, <2>4, <2>5, <3>1
    <3>3. x \in Text
      BY <1>2 DEF Plain, Part
    <3> QED
      BY <3>2, <3>3, KnownParts
  <2>6. CASE m # 2
    <3>1. m - 2 \in 1 .. m /\ l + (m - 2) = l + m - 2 /\ l + m - 2 \in 1 .. l + m + 1
      BY <1>4, <2>2, <2>6
    <3>2. dst[l + m - 2] = x[m - 2] /\ x[m - 2] \in Char /\ x[m - 2] # Slash
      BY <1>5, <1>6, <3>1
    <3>3. At(dst, l + m - 2) = x[m - 2]
      BY <1>6, <3>1, <3>2 DEF At
    <3> QED
      BY <1>7, <1>10, <3>2, <3>3, Chars
  <2> QED
    BY <2>5, <2>6
<1> QED
  BY <1>1, <1>9, <1>10

(* Erasing back to a slash erases the last component.                      *)
LEMMA EraseJoined ==
    ASSUME NEW root \in BOOLEAN, NEW comps, Tidy(root, comps), comps # <<>>,
           dst = Joined(root, comps)
    PROVE  EraseName = Joined(root, Front(comps))
<1>1. PICK b, x : b = Joined(root, Front(comps)) /\ x = Last(comps)
  OBVIOUS
<1>2. /\ dst \in Text /\ b \in Text /\ x \in Text /\ Plain(x)
      /\ Len(b) \in Nat /\ Len(x) \in Nat /\ Len(x) > 0
      /\ Len(dst) = Len(b) + Len(x) + 1
      /\ \A i \in 1 .. Len(b) : dst[i] = b[i]
      /\ \A i \in 1 .. Len(x) : dst[Len(b) + i] = x[i]
  BY <1>1, JoinedShape
<1>3. Len(b) = 0 \/ b[Len(b)] = Slash
  BY <1>1, TidyParts, JoinedEnd
<1>4. PICK l \in Nat, m \in Nat : l = Len(b) /\ m = Len(x) /\ m > 0 /\ Len(dst) = l + m + 1
  BY <1>2
<1>5. PICK ends : ends = {i \in 0 .. Len(dst) - 1 : i = 0 \/ dst[i] = Slash}
  OBVIOUS
<1>6. l \in ends
  <2>1. l \in 0 .. Len(dst) - 1 /\ (l # 0 => l \in 1 .. l)
    BY <1>4
  <2> QED
    BY <1>2, <1>3, <1>4, <1>5, <2>1
<1>7. ASSUME NEW j \in ends PROVE j <= l
  <2> SUFFICES ASSUME ~(j <= l) PROVE FALSE
    OBVIOUS
  <2>1. j \in 0 .. l + m /\ j # 0 /\ dst[j] = Slash
    BY <1>4, <1>5, <1>7
  <2>2. PICK i \in 1 .. m : j = l + i
    <3>1. j - l \in 1 .. m /\ j = l + (j - l)
      BY <1>4, <2>1
    <3> QED
      BY <3>1
  <2>3. dst[l + i] = x[i] /\ x[i] # Slash
    BY <1>2, <1>4 DEF Plain, Part
  <2> QED
    BY <2>1, <2>2, <2>3
<1>8. PICK k : k = CHOOSE i \in ends : \A j \in ends : j <= i
  OBVIOUS
<1>9. k \in ends /\ \A j \in ends : j <= k
  BY <1>6, <1>7, <1>8
<1>10. k = l
  <2>1. k <= l /\ l <= k
    BY <1>6, <1>7, <1>9
  <2>2. k \in Int
    BY <1>4, <1>5, <1>9
  <2> QED
    BY <1>4, <2>1, <2>2
<1>11. EraseName = SubSeq(dst, 1, l)
  BY <1>5, <1>8, <1>10 DEF EraseName
<1>12. PICK c : c = SubSeq(dst, 0 + 1, l)
  OBVIOUS
<1>13. c \in Text /\ Len(c) = l - 0 /\ \A i \in 1 .. l - 0 : c[i] = dst[0 + i]
  <2>1. 0 \in 0 .. Len(dst) /\ l \in 0 .. Len(dst) /\ dst \in Seq(Char)
    BY <1>2, <1>4 DEF Text
  <2> QED
    BY <1>12, <2>1, Cut DEF Text
<1>14. c = b
  <2>1. Len(c) = Len(b) /\ \A i \in 1 .. Len(b) : i \in 1 .. l - 0 /\ 0 + i = i
    BY <1>4, <1>13
  <2>2. \A i \in 1 .. Len(b) : c[i] = b[i]
    BY <1>2, <1>13, <2>1
  <2> QED
    BY <1>2, <1>13, <2>1, <2>2, SameText
<1> QED
  BY <1>1, <1>11, <1>12, <1>14
(* What ".." does to the buffer is what Step does to the components.       *)
LEMMA UpJoined ==
    ASSUME NEW root \in BOOLEAN, NEW comps, Tidy(root, comps),
           dst = Joined(root, comps)
    PROVE  /\ dst = <<>> \/ EndsInUp => Step(root, comps, Up) = Append(comps, Up)
           /\ dst # <<>> /\ ~EndsInUp /\ Len(dst) # 1 =>
                 EraseName = Joined(root, Step(root, comps, Up))
           /\ dst # <<>> /\ ~EndsInUp /\ Len(dst) = 1 =>
                 dst = Joined(root, Step(root, comps, Up))
<1>1. /\ dst \in Text /\ Len(dst) \in Nat
      /\ dst = <<>> <=> comps = <<>> /\ ~root
      /\ Len(dst) = 1 => comps = <<>> /\ root
      /\ comps = <<>> => dst = Base(root)
  BY JoinedEnd
<1>2. CASE comps = <<>> /\ root
  <2>1. dst # <<>> /\ Len(dst) = 1
    BY <1>1, <1>2, Specials DEF Base
  <2>2. ~EndsInUp
    BY <2>1 DEF EndsInUp
  <2>3. Step(root, comps, Up) = comps
    BY <1>2, StepValue
  <2> QED
    BY <2>1, <2>2, <2>3
<1>3. CASE comps = <<>> /\ ~root
  <2>1. dst = <<>>
    BY <1>1, <1>3
  <2>2. Step(root, comps, Up) = Append(comps, Up)
    BY <1>3, StepValue
  <2> QED
    BY <2>1, <2>2
<1>4. CASE comps # <<>>
  <2>1. dst # <<>> /\ Len(dst) # 1
    BY <1>1, <1>4
  <2>2. EndsInUp <=> Last(comps) = Up
    BY <1>4, EndsInUpJoined
  <2>3. EraseName = Joined(root, Front(comps))
    BY <1>4, EraseJoined
  <2>4. /\ Last(comps) = Up => Step(root, comps, Up) = Append(comps, Up)
        /\ Last(comps) # Up => Step(root, comps, Up) = Front(comps)
    BY <1>4, StepValue
  <2> QED
    BY <2>1, <2>2, <2>3, <2>4
<1> QED
  BY <1>2, <1>3, <1>4

(* What is left of a text behind its first characters.                     *)
After(n, k) == SubSeq(n, k + 1, Len(n))

(* What is left, by its characters.                                        *)
LEMMA AfterShape ==
    ASSUME NEW n \in Text, NEW k \in 0 .. Len(n)
    PROVE  /\ After(n, k) \in Text /\ Len(n) \in Nat /\ Len(After(n, k)) = Len(n) - k
           /\ \A i \in 1 .. Len(n) - k : After(n, k)[i] = n[k + i]
<1>1. Len(n) \in k .. Len(n) /\ Len(n) \in Nat
  BY DEF Text
<1> QED
  BY <1>1, Cut DEF Text, After

(* Cutting twice from the front.                                           *)
LEMMA AfterAfter ==
    ASSUME NEW n \in Text, NEW k \in 0 .. Len(n), NEW m \in 0 .. Len(n) - k
    PROVE  After(After(n, k), m) = After(n, k + m)
<1>1. PICK l, r : l \in Nat /\ l = Len(n) /\ r = After(n, k)
  BY AfterShape
<1>2. k \in 0 .. l /\ m \in 0 .. l - k /\ k + m \in 0 .. l
  BY <1>1
<1>3. r \in Text /\ Len(r) = l - k /\ \A i \in 1 .. l - k : r[i] = n[k + i]
  BY <1>1, <1>2, AfterShape
<1>4. PICK u, v : u = After(r, m) /\ v = After(n, k + m)
  OBVIOUS
<1>5. /\ u \in Text /\ Len(u) = (l - k) - m
      /\ \A i \in 1 .. (l - k) - m : u[i] = r[m + i]
  <2>1. m \in 0 .. Len(r)
    BY <1>2, <1>3
  <2> QED
    BY <1>3, <1>4, <2>1, AfterShape
<1>6. /\ v \in Text /\ Len(v) = l - (k + m)
      /\ \A i \in 1 .. l - (k + m) : v[i] = n[(k + m) + i]
  BY <1>1, <1>2, <1>4, AfterShape
<1>7. (l - k) - m = l - (k + m)
  BY <1>1, <1>2
<1>8. ASSUME NEW i \in 1 .. (l - k) - m PROVE u[i] = v[i]
  <2>1. m + i \in 1 .. l - k /\ k + (m + i) = (k + m) + i
    BY <1>1, <1>2
  <2>2. u[i] = r[m + i] /\ v[i] = n[(k + m) + i]
    BY <1>5, <1>6, <1>7
  <2> QED
    BY <1>3, <2>1, <2>2
<1>9. u = v
  BY <1>5, <1>6, <1>7, <1>8, SameText
<1> QED
  BY <1>1, <1>4, <1>9

(* The start of what is left.                                              *)
LEMMA AfterStart ==
    ASSUME NEW n \in Text, NEW k \in 0 .. Len(n), NEW m \in 0 .. Len(n) - k
    PROVE  SubSeq(After(n, k), 1, m) = SubSeq(n, k + 1, k + m)
<1>1. PICK l, r : l \in Nat /\ l = Len(n) /\ r = After(n, k)
  BY AfterShape
<1>2. k \in 0 .. l /\ m \in 0 .. l - k /\ k + m \in k .. l /\ (k + m) - k = m
  BY <1>1
<1>3. r \in Text /\ Len(r) = l - k /\ \A i \in 1 .. l - k : r[i] = n[k + i]
  BY <1>1, <1>2, AfterShape
<1>4. PICK w, z : w = SubSeq(r, 1, m) /\ z = SubSeq(n, k + 1, k + m)
  OBVIOUS
<1>5. w \in Text /\ Len(w) = m /\ \A i \in 1 .. m : w[i] = r[i]
  <2>1. r \in Seq(Char) /\ m \in 0 .. Len(r)
    BY <1>2, <1>3 DEF Text
  <2> QED
    BY <1>4, <2>1 DEF Text
<1>6. z \in Text /\ Len(z) = m /\ \A i \in 1 .. m : z[i] = n[k + i]
  BY <1>1, <1>2, <1>4, Cut DEF Text
<1>7. ASSUME NEW i \in 1 .. m PROVE w[i] = z[i]
  <2>1. i \in 1 .. l - k
    BY <1>1, <1>2
  <2> QED
    BY <1>3, <1>5, <1>6, <2>1
<1>8. w = z
  BY <1>5, <1>6, <1>7, SameText
<1> QED
  BY <1>1, <1>4, <1>8

(* Where the loop of normalise_path is: the components in the buffer are   *)
(* those of what has been read, up to a slash or, at the end, with or      *)
(* without one.                                                            *)
Settled(root, comps, d) ==
    \/ d = Joined(root, comps)
    \/ comps # <<>> /\ d \o <<Slash>> = Joined(root, comps)
InLoop(n, rest, d) ==
    \E k \in 0 .. Len(n) :
        /\ rest = After(n, k)
        /\ \/ Reading(n)[k].part = <<>> /\ d = Joined(Rooted(n), Reading(n)[k].comps)
           \/ k = Len(n) /\ Settled(Rooted(n), Meaning(n), d)

(* The loop goes on by a component: by one that ends in a slash, or by the *)
(* last one.                                                               *)
LEMMA Advance ==
    ASSUME NEW n \in Text, NEW k \in 0 .. Len(n), Reading(n)[k].part = <<>>,
           NEW m \in 0 .. Len(n) - k, NEW d,
           \A i \in 1 .. m : After(n, k)[i] # Slash,
           NEW C, C = Step(Rooted(n), Reading(n)[k].comps, SubSeq(After(n, k), 1, m))
    PROVE  /\ m = Len(n) - k /\ Settled(Rooted(n), C, d) =>
                 InLoop(n, After(After(n, k), m), d)
           /\ m < Len(n) - k /\ After(n, k)[m + 1] = Slash /\ d = Joined(Rooted(n), C) =>
                 InLoop(n, After(After(n, k), m + 1), d)
<1>1. PICK l \in Nat : l = Len(n) /\ k \in 0 .. l /\ m \in 0 .. l - k
  BY AfterShape
<1>2. PICK e : e = k + m
  OBVIOUS
<1>3. e \in k .. l /\ e \in 0 .. l /\ m \in Nat
  BY <1>1, <1>2
<1>4. \A i \in 1 .. l - k : After(n, k)[i] = n[k + i]
  BY <1>1, AfterShape
<1>5. ASSUME NEW i \in k + 1 .. e PROVE n[i] # Slash
  <2>1. i - k \in 1 .. m /\ i - k \in 1 .. l - k /\ k + (i - k) = i
    BY <1>1, <1>2, <1>3
  <2> QED
    BY <1>4, <2>1
<1>6. PICK x : x = SubSeq(n, k + 1, e) /\ C = Step(Rooted(n), Reading(n)[k].comps, x)
  BY <1>1, <1>2, AfterStart
<1>7. /\ e = l => Meaning(n) = C
      /\ e < l /\ n[e + 1] = Slash =>
            /\ e + 1 \in 0 .. l
            /\ Reading(n)[e + 1].comps = C
            /\ Reading(n)[e + 1].part = <<>>
  <2>1. e \in k .. Len(n) /\ l = Len(n)
    BY <1>1, <1>3
  <2> QED
    BY <1>5, <1>6, <2>1, ReadComponent
<1>8. ASSUME m = Len(n) - k, Settled(Rooted(n), C, d)
      PROVE  InLoop(n, After(After(n, k), m), d)
  <2>1. e = l /\ After(After(n, k), m) = After(n, e)
    BY <1>1, <1>2, <1>8, AfterAfter
  <2>2. Settled(Rooted(n), Meaning(n), d)
    BY <1>7, <1>8, <2>1
  <2> QED
    BY <1>1, <1>3, <2>1, <2>2 DEF InLoop
<1>9. ASSUME m < Len(n) - k, After(n, k)[m + 1] = Slash, d = Joined(Rooted(n), C)
      PROVE  InLoop(n, After(After(n, k), m + 1), d)
  <2>1. e < l /\ m + 1 \in 1 .. l - k /\ m + 1 \in 0 .. l - k /\ k + (m + 1) = e + 1
    BY <1>1, <1>2, <1>3, <1>9
  <2>2. n[e + 1] = Slash
    BY <1>4, <1>9, <2>1
  <2>3. After(After(n, k), m + 1) = After(n, e + 1)
    BY <1>1, <2>1, AfterAfter
  <2>4. /\ e + 1 \in 0 .. l /\ Reading(n)[e + 1].part = <<>>
        /\ d = Joined(Rooted(n), Reading(n)[e + 1].comps)
    BY <1>7, <1>9, <2>1, <2>2
  <2> QED
    BY <1>1, <2>3, <2>4 DEF InLoop
<1> QED
  BY <1>8, <1>9

(* A component ends at a slash or at the end of the text.                  *)
LEMMA EndOfPart ==
    ASSUME s \in Text, NEW m \in 0 .. Len(s)
    PROVE  /\ At(s, m + 1) = Slash => m < Len(s) /\ s[m + 1] = Slash
           /\ At(s, m + 1) = "NUL" => m = Len(s)
<1>1. PICK l \in Nat : l = Len(s) /\ DOMAIN s = 1 .. l
  BY DEF Text
<1>2. m \in Nat /\ m <= l
  BY <1>1
<1>3. CASE m = l
  <2>1. m + 1 \notin DOMAIN s
    BY <1>1, <1>2, <1>3
  <2> QED
    BY <1>1, <1>3, <2>1, Chars DEF At
<1>4. CASE m < l
  <2>1. m + 1 \in DOMAIN s
    BY <1>1, <1>2, <1>4
  <2>2. At(s, m + 1) = s[m + 1] /\ s[m + 1] \in Char
    BY <2>1 DEF At, Text
  <2> QED
    BY <1>1, <1>4, <2>2, Chars
<1> QED
  BY <1>1, <1>2, <1>3, <1>4

(* The next component, with the slash that ends it.                        *)
LEMMA ComponentIs ==
    ASSUME s \in Text, s # <<>>
    PROVE  \E m \in 0 .. Len(s) :
              /\ \A i \in 1 .. m : s[i] # Slash
              /\ \/ m = Len(s) /\ Component = SubSeq(s, 1, m) /\ Len(Component) = m
                 \/ /\ m < Len(s) /\ s[m + 1] = Slash
                    /\ Component = SubSeq(s, 1, m) \o <<Slash>> /\ Len(Component) = m + 1
<1>1. PICK l \in Nat : l = Len(s) /\ DOMAIN s = 1 .. l /\ s \in Seq(Char)
  BY DEF Text
<1>2. PICK slashes : slashes = {i \in DOMAIN s : s[i] = Slash}
  OBVIOUS
<1>3. CASE slashes = {}
  <2>1. Component = s
    BY <1>2, <1>3 DEF Component
  <2>2. \A i \in 1 .. l : s[i] # Slash
    BY <1>1, <1>2, <1>3
  <2>3. SubSeq(s, 1, l) = s
    <3>1. /\ SubSeq(s, 1, l) \in Text /\ Len(SubSeq(s, 1, l)) = l
          /\ \A i \in 1 .. l : SubSeq(s, 1, l)[i] = s[i]
      BY <1>1 DEF Text
    <3> QED
      BY <1>1, <3>1, SameText
  <2> QED
    BY <1>1, <2>1, <2>2, <2>3
<1>4. CASE slashes # {}
  <2>1. slashes \in SUBSET Nat
    BY <1>1, <1>2
  <2>2. \E i \in slashes : \A j \in slashes : i <= j
    BY <1>4, <2>1, Least
  <2>3. PICK k : k = CHOOSE i \in slashes : \A j \in slashes : i <= j
    OBVIOUS
  <2>4. k \in slashes /\ \A j \in slashes : k <= j
    BY <2>2, <2>3
  <2>5. k \in 1 .. l /\ s[k] = Slash /\ \A i \in 1 .. l : s[i] = Slash => k <= i
    BY <1>1, <1>2, <2>4
  <2>6. Component = SubSeq(s, 1, k)
    BY <1>2, <1>4, <2>3 DEF Component
  <2>7. PICK m \in Nat : m = k - 1 /\ m < l /\ k = m + 1 /\ m \in 0 .. l
    BY <1>1, <2>5
  <2>8. \A i \in 1 .. m : s[i] # Slash
    BY <1>1, <2>5, <2>7
  <2>9. PICK x : x = SubSeq(s, 1, m)
    OBVIOUS
  <2>10. x \in Text /\ Len(x) = m /\ \A i \in 1 .. m : x[i] = s[i]
    BY <1>1, <2>7, <2>9 DEF Text
  <2>11. PICK y : y = SubSeq(s, 1, k)
    OBVIOUS
  <2>12. y \in Text /\ Len(y) = m + 1 /\ \A i \in 1 .. m + 1 : y[i] = s[i]
    BY <1>1, <2>5, <2>7, <2>11 DEF Text
  <2>13. PICK z : z = x \o <<Slash>>
    OBVIOUS
  <2>14. /\ z \in Text /\ Len(z) = m + 1
         /\ \A i \in 1 .. m : z[i] = x[i]
         /\ z[m + 1] = Slash
    <3>1. <<Slash>> \in Text /\ Len(<<Slash>>) = 1 /\ <<Slash>>[1] = Slash /\ 1 \in 1 .. 1
      BY Specials
    <3> QED
      BY <2>10, <2>13, <3>1, Glue
  <2>15. ASSUME NEW i \in 1 .. m + 1 PROVE y[i] = z[i]
    <3>1. CASE i = m + 1
      BY <2>5, <2>7, <2>12, <2>14, <3>1
    <3>2. CASE i \in 1 .. m
      BY <2>10, <2>12, <2>14, <3>2
    <3> QED
      BY <2>7, <3>1, <3>2
  <2>16. y = z
    BY <2>12, <2>14, <2>15, SameText
  <2>17. s[m + 1] = Slash /\ Component = SubSeq(s, 1, m) \o <<Slash>> /\ Len(Component) = m + 1
    BY <2>5, <2>6, <2>7, <2>9, <2>11, <2>12, <2>13, <2>16
  <2> QED
    BY <1>1, <2>7, <2>8, <2>17
<1> QED
  BY <1>3, <1>4

(* A buffer with a component more.                                         *)
LEMMA MoreSettled ==
    ASSUME NEW root \in BOOLEAN, NEW comps \in Seq(Text), NEW x \in Text, NEW d,
           d = Joined(root, comps)
    PROVE  /\ d \o (x \o <<Slash>>) = Joined(root, Append(comps, x))
           /\ Settled(root, Append(comps, x), d \o x)
<1>1. d \in Text /\ <<Slash>> \in Text
  BY JoinedText, Specials
<1>2. Joined(root, Append(comps, x)) = (d \o x) \o <<Slash>>
  BY JoinedMore
<1>3. (d \o x) \o <<Slash>> = d \o (x \o <<Slash>>)
  BY <1>1, Glue3
<1>4. Append(comps, x) # <<>>
  BY OneMore
<1> QED
  BY <1>2, <1>3, <1>4 DEF Settled

(* The component ".." with a slash.                                        *)
LEMMA UpSlash == Up \o <<Slash>> = <<Dot, Dot, Slash>>
<1>1. Dot \in Char /\ Slash \in Char
  BY Chars
<1>2. PICK u : u = <<Dot, Dot, Slash>>
  OBVIOUS
<1>3. u \in Text /\ Len(u) = 3 /\ u[1] = Dot /\ u[2] = Dot /\ u[3] = Slash
  <2>1. u \in Text
    BY <1>1, <1>2 DEF Text
  <2>2. Len(u) = 3 /\ u[1] = Dot /\ u[2] = Dot /\ u[3] = Slash
    BY <1>2
  <2> QED
    BY <2>1, <2>2
<1>4. PICK v : v = Up \o <<Slash>>
  OBVIOUS
<1>5. v \in Text /\ Len(v) = 3 /\ v[1] = Dot /\ v[2] = Dot /\ v[3] = Slash
  <2>1. PICK x, y : x = Up /\ y = <<Slash>>
    OBVIOUS
  <2>2. x \in Text /\ Len(x) = 2 /\ x[1] = Dot /\ x[2] = Dot
    BY <2>1, Specials
  <2>3. y \in Text /\ Len(y) = 1 /\ y[1] = Slash
    BY <2>1, Specials
  <2>4. 1 \in 1 .. 2 /\ 2 \in 1 .. 2 /\ 1 \in 1 .. 1 /\ 2 + 1 = 3
    OBVIOUS
  <2>5. /\ v \in Text /\ Len(v) = Len(x) + Len(y)
        /\ \A i \in 1 .. Len(x) : v[i] = x[i]
        /\ \A i \in 1 .. Len(y) : v[Len(x) + i] = y[i]
    <3>1. v = x \o y /\ x \in Text /\ y \in Text
      BY <1>4, <2>1, <2>2, <2>3
    <3> QED
      BY <3>1, Glue
  <2>6. v[1] = Dot /\ v[2] = Dot /\ Len(v) = 3
    BY <2>2, <2>3, <2>4, <2>5
  <2>7. v[3] = Slash
    BY <2>2, <2>3, <2>4, <2>5
  <2> QED
    BY <2>5, <2>6, <2>7
<1>6. \A i \in 1 .. 3 : u[i] = v[i]
  BY <1>3, <1>5
<1> QED
  BY <1>2, <1>3, <1>4, <1>5, <1>6, SameText

(* A component that is not special is one more.                            *)
LEMMA StepPlain ==
    ASSUME NEW root \in BOOLEAN, NEW comps, NEW c, c # <<>>, c # <<Dot>>, c # Up
    PROVE  Step(root, comps, c) = Append(comps, c)
<1>1. c \notin {<<>>, <<Dot>>, Up}
  OBVIOUS
<1> QED
  BY <1>1, StepValue

(* Every step of the loop goes on by a component.                          *)
LEMMA LoopReads ==
    ASSUME NEW n \in Text, s \in Text, InLoop(n, s, dst), pc' = "loop",
           SkipSlash \/ SkipDot \/ KeepUp \/ GoUp \/ CopyName
    PROVE  InLoop(n, s', dst')
<1>0. DOMAIN s = 1 .. Len(s)
  BY DEF Text
<1>1. s # <<>> /\ pc' # "used"
  <2>1. s = <<>> => At(s, 1) = "NUL"
    BY DEF At
  <2> QED
    BY <2>1, Chars DEF SkipSlash, SkipDot, KeepUp, GoUp, CopyName
<1>2. PICK k \in 0 .. Len(n) :
        /\ s = After(n, k)
        /\ \/ Reading(n)[k].part = <<>> /\ dst = Joined(Rooted(n), Reading(n)[k].comps)
           \/ k = Len(n) /\ Settled(Rooted(n), Meaning(n), dst)
  BY DEF InLoop
<1>3. PICK l \in Nat : l = Len(s) /\ l = Len(n) - k /\ l > 0
  <2>1. Len(s) = Len(n) - k /\ Len(s) \in Nat
    BY <1>2, AfterShape DEF Text
  <2> QED
    BY <1>1, <2>1, KnownParts
<1>4. k # Len(n)
  BY <1>3
<1>5. PICK R \in BOOLEAN, c \in Seq(Text) :
        R = Rooted(n) /\ c = Reading(n)[k].comps /\ Tidy(R, c)
  <2>1. Rooted(n) \in BOOLEAN
    BY DEF Rooted
  <2>2. Tidy(Rooted(n), Reading(n)[k].comps)
    BY ReadingTidy
  <2> QED
    BY <2>1, <2>2 DEF Tidy
<1>6. Reading(n)[k].part = <<>> /\ dst = Joined(R, c)
  BY <1>2, <1>4, <1>5
<1>7. dst \in Text
  BY <1>6, JoinedText
<1>8. \A i : Skip(i) = After(s, i)
  BY DEF Skip, After
<1>9. ASSUME NEW m \in 0 .. l, \A i \in 1 .. m : s[i] # Slash,
             NEW C, C = Step(R, c, SubSeq(s, 1, m)), NEW d
      PROVE  /\ m = l /\ Settled(R, C, d) => InLoop(n, Skip(m), d)
             /\ m < l /\ s[m + 1] = Slash /\ d = Joined(R, C) => InLoop(n, Skip(m + 1), d)
  <2>1. m \in 0 .. Len(n) - k /\ Reading(n)[k].part = <<>>
    BY <1>3, <1>6
  <2>2. C = Step(Rooted(n), Reading(n)[k].comps, SubSeq(After(n, k), 1, m))
    BY <1>2, <1>5, <1>9
  <2>3. /\ m = Len(n) - k /\ Settled(Rooted(n), C, d) =>
              InLoop(n, After(After(n, k), m), d)
        /\ m < Len(n) - k /\ After(n, k)[m + 1] = Slash /\ d = Joined(Rooted(n), C) =>
              InLoop(n, After(After(n, k), m + 1), d)
    BY <1>2, <1>9, <2>1, <2>2, Advance
  <2> QED
    BY <1>2, <1>3, <1>5, <1>8, <2>3
<1>10. ASSUME NEW m \in 0 .. l
       PROVE  /\ At(s, m + 1) = Slash => m < l /\ s[m + 1] = Slash
              /\ At(s, m + 1) = "NUL" => m = l
  BY <1>3, EndOfPart
<1>11. ASSUME NEW m \in 0 .. l
       PROVE  /\ SubSeq(s, 1, m) \in Text /\ Len(SubSeq(s, 1, m)) = m
              /\ \A i \in 1 .. m : SubSeq(s, 1, m)[i] = s[i]
  <2>1. s \in Seq(Char) /\ m \in 0 .. Len(s)
    BY <1>3 DEF Text
  <2> QED
    BY <2>1 DEF Text
<1>12. CASE SkipSlash
  <2>1. 0 \in 0 .. l /\ 0 + 1 = 1 /\ At(s, 0 + 1) = Slash /\ (\A i \in 1 .. 0 : s[i] # Slash)
    BY <1>3, <1>12 DEF SkipSlash
  <2>2. SubSeq(s, 1, 0) = <<>>
    BY <1>11, <2>1, KnownParts
  <2>3. c = Step(R, c, SubSeq(s, 1, 0))
    BY <2>2, StepValue
  <2>4. 0 < l /\ s[0 + 1] = Slash
    BY <1>10, <2>1
  <2>5. InLoop(n, Skip(0 + 1), dst)
    BY <1>6, <1>9, <2>1, <2>3, <2>4
  <2> QED
    BY <1>12, <2>1, <2>5 DEF SkipSlash
<1>13. CASE SkipDot
  <2>1. s[1] = Dot /\ At(s, 2) \in {Slash, "NUL"} /\ dst' = dst
        /\ s' = Skip(IF At(s, 2) = Slash THEN 2 ELSE 1)
    BY <1>13 DEF SkipDot, IsDot
  <2>2. 1 \in 0 .. l /\ 1 + 1 = 2 /\ (\A i \in 1 .. 1 : s[i] # Slash)
    BY <1>3, <2>1, Chars
  <2>3. SubSeq(s, 1, 1) = <<Dot>>
    <3>1. PICK x \in Text : /\ x = SubSeq(s, 1, 1) /\ Len(x) = 1
                            /\ \A i \in 1 .. 1 : x[i] = s[i]
      BY <1>11, <2>2
    <3>2. x[1] = Dot
      BY <2>1, <3>1
    <3> QED
      BY <3>1, <3>2, KnownParts
  <2>4. c = Step(R, c, SubSeq(s, 1, 1)) /\ Settled(R, c, dst)
    BY <1>6, <2>3, StepValue DEF Settled
  <2>5. CASE At(s, 2) = Slash
    <3>1. 1 < l /\ s[1 + 1] = Slash /\ s' = Skip(1 + 1)
      BY <1>10, <2>1, <2>2, <2>5
    <3> QED
      BY <1>6, <1>9, <2>1, <2>2, <2>4, <3>1
  <2>6. CASE At(s, 2) = "NUL"
    <3>1. 1 = l /\ s' = Skip(1)
      BY <1>10, <2>1, <2>2, <2>6, Chars
    <3> QED
      BY <1>6, <1>9, <2>1, <2>2, <2>4, <3>1
  <2> QED
    BY <2>1, <2>5, <2>6
<1>14. ASSUME IsDotDot
       PROVE  /\ 2 \in 0 .. l /\ (\A i \in 1 .. 2 : s[i] # Slash)
              /\ SubSeq(s, 1, 2) = Up
              /\ \/ At(s, 3) = Slash /\ 2 < l /\ s[2 + 1] = Slash
                 \/ At(s, 3) # Slash /\ 2 = l
  <2>1. s[1] = Dot /\ At(s, 1 + 1) = Dot /\ At(s, 2 + 1) \in {Slash, "NUL"} /\ 1 \in 0 .. l
    BY <1>3, <1>14 DEF IsDotDot
  <2>2. 2 \in 1 .. l /\ s[2] = Dot
    <3>1. At(s, 2) # "NUL"
      BY <2>1, Chars
    <3>2. 2 \in 1 .. Len(s) /\ At(s, 2) = s[2]
      BY <3>1, Within
    <3> QED
      BY <1>3, <2>1, <3>2
  <2>3. 2 \in 0 .. l /\ (\A i \in 1 .. 2 : s[i] # Slash)
    BY <2>1, <2>2, Chars
  <2>4. SubSeq(s, 1, 2) = Up
    <3>1. PICK x \in Text : /\ x = SubSeq(s, 1, 2) /\ Len(x) = 2
                            /\ \A i \in 1 .. 2 : x[i] = s[i]
      BY <1>11, <2>3
    <3>2. x[1] = Dot /\ x[2] = Dot
      BY <2>1, <2>2, <3>1
    <3> QED
      BY <3>1, <3>2, KnownParts
  <2>5. /\ At(s, 2 + 1) = Slash => 2 < l /\ s[2 + 1] = Slash
        /\ At(s, 2 + 1) = "NUL" => 2 = l
    BY <1>10, <2>3
  <2> QED
    BY <2>1, <2>3, <2>4, <2>5, Chars
<1>15. CASE KeepUp
  <2>1. /\ IsDotDot /\ (dst = <<>> \/ EndsInUp)
        /\ dst' = dst \o (IF At(s, 3) = Slash THEN <<Dot, Dot, Slash>> ELSE <<Dot, Dot>>)
        /\ s' = Skip(IF At(s, 3) = Slash THEN 3 ELSE 2)
    BY <1>1, <1>15 DEF KeepUp, Fail
  <2>2. PICK C : C = Append(c, Up) /\ C = Step(R, c, SubSeq(s, 1, 2))
    BY <1>5, <1>6, <1>14, <2>1, UpJoined
  <2>3. Joined(R, C) = dst \o (Up \o <<Slash>>) /\ Settled(R, C, dst \o Up)
    <3>1. Up \in Text
      BY Specials
    <3>2. /\ dst \o (Up \o <<Slash>>) = Joined(R, Append(c, Up))
          /\ Settled(R, Append(c, Up), dst \o Up)
      BY <1>6, <3>1, MoreSettled, Zenon
    <3> QED
      BY <2>2, <3>2, Zenon
  <2>4. Up \o <<Slash>> = <<Dot, Dot, Slash>>
    BY UpSlash
  <2>5. CASE At(s, 3) = Slash
    <3>1. dst' = dst \o <<Dot, Dot, Slash>>
      BY <2>1, <2>5, Zenon
    <3>2. dst' = Joined(R, C)
      BY <2>3, <2>4, <3>1, Zenon
    <3>3. s' = Skip(2 + 1)
      BY <2>1, <2>5
    <3> QED
      BY <1>9, <1>14, <2>1, <2>2, <2>5, <3>2, <3>3
  <2>6. CASE At(s, 3) # Slash
    <3>1. Settled(R, C, dst') /\ s' = Skip(2)
      BY <2>1, <2>3, <2>6 DEF Up
    <3> QED
      BY <1>9, <1>14, <2>1, <2>2, <2>6, <3>1
  <2> QED
    BY <2>5, <2>6
<1>16. CASE GoUp
  <2>1. /\ IsDotDot /\ dst # <<>> /\ ~EndsInUp
        /\ dst' = IF Len(dst) # 1 THEN EraseName ELSE dst
        /\ s' = Skip(IF At(s, 3) = Slash THEN 3 ELSE 2)
    BY <1>16 DEF GoUp
  <2>2. PICK C : C = Step(R, c, Up) /\ C = Step(R, c, SubSeq(s, 1, 2))
    BY <1>14, <2>1
  <2>3. dst' = Joined(R, C)
    BY <1>5, <1>6, <2>1, <2>2, UpJoined
  <2>4. Settled(R, C, dst')
    BY <2>3 DEF Settled
  <2>5. CASE At(s, 3) = Slash
    <3>1. s' = Skip(2 + 1)
      BY <2>1, <2>5
    <3> QED
      BY <1>9, <1>14, <2>1, <2>2, <2>3, <2>5, <3>1
  <2>6. CASE At(s, 3) # Slash
    <3>1. s' = Skip(2)
      BY <2>1, <2>6
    <3> QED
      BY <1>9, <1>14, <2>1, <2>2, <2>4, <2>6, <3>1
  <2> QED
    BY <2>5, <2>6
<1>17. CASE CopyName
  <2>1. /\ s[1] # Slash /\ ~IsDot /\ ~IsDotDot
        /\ dst' = dst \o Component /\ s' = Skip(Len(Component))
    BY <1>1, <1>17 DEF CopyName, Fail
  <2>2. PICK m \in 0 .. l :
          /\ \A i \in 1 .. m : s[i] # Slash
          /\ \/ m = l /\ Component = SubSeq(s, 1, m) /\ Len(Component) = m
             \/ /\ m < l /\ s[m + 1] = Slash
                /\ Component = SubSeq(s, 1, m) \o <<Slash>> /\ Len(Component) = m + 1
    BY <1>1, <1>3, ComponentIs
  <2>3. PICK x \in Text : /\ x = SubSeq(s, 1, m) /\ Len(x) = m
                          /\ \A i \in 1 .. m : x[i] = s[i]
    BY <1>11
  <2>4. m # 0
    <3>1. m = 0 => s[m + 1] # Slash
      BY <2>1
    <3> QED
      BY <1>3, <2>2, <3>1
  <2>5. At(s, m + 1) \in {Slash, "NUL"}
    <3>1. DOMAIN s = 1 .. l /\ m \in Nat
      BY <1>0, <1>3
    <3>2. CASE m = l
      <4>1. m + 1 \notin DOMAIN s
        BY <1>3, <3>1, <3>2
      <4> QED
        BY <4>1 DEF At
    <3>3. CASE m < l
      <4>1. m + 1 \in DOMAIN s /\ s[m + 1] = Slash
        BY <1>3, <2>2, <3>1, <3>3
      <4> QED
        BY <4>1 DEF At
    <3> QED
      BY <1>3, <3>1, <3>2, <3>3
  <2>6. x # <<>> /\ x # <<Dot>> /\ x # Up
    <3>1. x # <<>>
      BY <2>3, <2>4, KnownParts
    <3>2. ASSUME x = <<Dot>> PROVE FALSE
      <4>1. m = 1 /\ x[1] = Dot
        BY <2>3, <3>2, KnownParts
      <4>2. s[1] = Dot /\ At(s, 2) \in {Slash, "NUL"}
        BY <2>3, <2>5, <4>1
      <4> QED
        BY <2>1, <4>2 DEF IsDot
    <3>3. ASSUME x = Up PROVE FALSE
      <4>1. m = 2 /\ x[1] = Dot /\ x[2] = Dot
        BY <2>3, <3>3, KnownParts
      <4>2. s[1] = Dot /\ s[2] = Dot /\ At(s, 3) \in {Slash, "NUL"}
        BY <2>3, <2>5, <4>1
      <4>3. At(s, 2) = s[2]
        <5>1. 2 \in DOMAIN s
          BY <1>0, <1>3, <4>1
        <5> QED
          BY <5>1 DEF At
      <4> QED
        BY <2>1, <4>2, <4>3 DEF IsDotDot
    <3> QED
      BY <3>1, <3>2, <3>3
  <2>7. PICK C : C = Append(c, x) /\ C = Step(R, c, SubSeq(s, 1, m))
    BY <2>3, <2>6, StepPlain
  <2>8. Joined(R, C) = dst \o (x \o <<Slash>>) /\ Settled(R, C, dst \o x)
    <3>1. /\ dst \o (x \o <<Slash>>) = Joined(R, Append(c, x))
          /\ Settled(R, Append(c, x), dst \o x)
      BY <1>6, MoreSettled, Zenon
    <3> QED
      BY <2>7, <3>1, Zenon
  <2>9. CASE m = l
    <3>1. Component = SubSeq(s, 1, m) /\ Len(Component) = m
      BY <1>3, <2>2, <2>9
    <3>2. s' = Skip(m) /\ Settled(R, C, dst')
      BY <2>1, <2>3, <2>8, <3>1, Zenon
    <3> QED
      BY <1>9, <2>2, <2>7, <2>9, <3>2
  <2>10. CASE m < l
    <3>1. /\ Component = SubSeq(s, 1, m) \o <<Slash>> /\ Len(Component) = m + 1
          /\ s[m + 1] = Slash
      BY <1>3, <2>2, <2>10
    <3>2. s' = Skip(m + 1) /\ dst' = Joined(R, C)
      BY <2>1, <2>3, <2>8, <3>1, Zenon
    <3> QED
      BY <1>9, <2>2, <2>7, <2>10, <3>1, <3>2
  <2> QED
    BY <1>3, <2>9, <2>10
<1> QED
  BY <1>12, <1>13, <1>15, <1>16, <1>17

(* The front of a text with a character behind it.                         *)
LEMMA FrontGlue ==
    ASSUME NEW d \in Text
    PROVE  /\ Append(d, Slash) = d \o <<Slash>>
           /\ Front(d \o <<Slash>>) = d /\ Last(d \o <<Slash>>) = Slash
<1>1. d \in Seq(Char) /\ Slash \in Char
  BY Chars DEF Text
<1>2. Append(d, Slash) = d \o <<Slash>>
  BY <1>1, AppendIsConcat
<1>3. Front(Append(d, Slash)) = d /\ Last(Append(d, Slash)) = Slash
  BY <1>1, OneMore
<1> QED
  BY <1>2, <1>3

(* A normal spelling with a slash behind it is the joined list.            *)
LEMMA SpellJoined ==
    ASSUME NEW root \in BOOLEAN, NEW comps, Tidy(root, comps), comps # <<>>
    PROVE  /\ Spell(root, comps) \in Text
           /\ Spell(root, comps) \o <<Slash>> = Joined(root, comps)
           /\ Spell(root, comps) = Front(Joined(root, comps))
           /\ Spell(root, comps) # <<>> /\ Last(Spell(root, comps)) # Slash
<1>1. PICK d, b, x : d = Joined(root, comps) /\ b = Joined(root, Front(comps)) /\ x = Last(comps)
  OBVIOUS
<1>2. /\ d \in Text /\ b \in Text /\ x \in Text /\ Plain(x)
      /\ Len(b) \in Nat /\ Len(x) \in Nat /\ Len(x) > 0
      /\ d = b \o x \o <<Slash>>
  <2>1. d \in Text /\ b \in Text /\ x \in Text /\ Plain(x)
    BY <1>1, JoinedShape
  <2>2. Len(b) \in Nat /\ Len(x) \in Nat /\ Len(x) > 0
    BY <1>1, JoinedShape
  <2>3. d = b \o x \o <<Slash>>
    <3>1. comps = Append(Front(comps), x) /\ Front(comps) \in Seq(Text)
      BY <1>1, FrontLast DEF Tidy
    <3>2. Joined(root, Append(Front(comps), x)) = b \o x \o <<Slash>>
      BY <1>1, <2>1, <3>1, JoinedMore, Zenon
    <3> QED
      BY <1>1, <3>1, <3>2, Zenon
  <2> QED
    BY <2>1, <2>2, <2>3
<1>3. PICK y \in Text : /\ y = b \o x /\ Len(y) = Len(b) + Len(x)
                        /\ \A i \in 1 .. Len(x) : y[Len(b) + i] = x[i]
  BY <1>2, Glue
<1>4. Front(d) = y /\ d = y \o <<Slash>>
  BY <1>2, <1>3, FrontGlue
<1>5. Spell(root, comps) = y
  BY <1>1, <1>4 DEF Spell
<1>6. y # <<>> /\ Last(y) # Slash
  <2>1. PICK l \in Nat, m \in Nat : l = Len(b) /\ m = Len(x) /\ m \in 1 .. m /\ Len(y) = l + m
    BY <1>2, <1>3
  <2>2. x[m] # Slash
    BY <1>2, <2>1 DEF Plain, Part
  <2>3. y[l + m] = x[m]
    BY <1>3, <2>1
  <2>4. l + m # 0
    BY <2>1
  <2>5. y # <<>>
    BY <1>3, <2>1, <2>4, KnownParts
  <2>6. Last(y) = y[l + m]
    BY <2>1 DEF Last
  <2> QED
    BY <2>2, <2>3, <2>5, <2>6
<1> QED
  BY <1>1, <1>4, <1>5, <1>6

(* Meaning is that of the whole text read.                                 *)
LEMMA MeaningTidy ==
    ASSUME NEW n \in Text
    PROVE  /\ Tidy(Rooted(n), Meaning(n)) /\ Rooted(n) \in BOOLEAN /\ Len(n) \in Nat
           /\ Reading(n)[Len(n)].part = <<>> => Meaning(n) = Reading(n)[Len(n)].comps
<1>0. Len(n) \in Nat /\ Rooted(n) \in BOOLEAN
  BY DEF Text, Rooted
<1>1. PICK l \in Nat, R \in BOOLEAN : l = Len(n) /\ R = Rooted(n)
  BY <1>0
<1>2. PICK c, p : c = Reading(n)[l].comps /\ p = Reading(n)[l].part
  OBVIOUS
<1>3. Meaning(n) = Step(R, c, p)
  BY <1>1, <1>2 DEF Meaning
<1>4. Tidy(R, c) /\ Part(p)
  <2>1. l \in 0 .. Len(n)
    BY <1>1
  <2> QED
    BY <1>1, <1>2, <2>1, ReadingTidy
<1>5. Tidy(R, Step(R, c, p))
  BY <1>4, StepTidy
<1>6. p = <<>> => Step(R, c, p) = c
  BY StepValue
<1> QED
  BY <1>1, <1>2, <1>3, <1>5, <1>6

(* The loop has ended with the components of the whole name.               *)
LEMMA LoopEnd ==
    ASSUME NEW n \in Text, InLoop(n, <<>>, dst)
    PROVE  Settled(Rooted(n), Meaning(n), dst)
<1>1. PICK k \in 0 .. Len(n) :
        /\ <<>> = After(n, k)
        /\ \/ Reading(n)[k].part = <<>> /\ dst = Joined(Rooted(n), Reading(n)[k].comps)
           \/ k = Len(n) /\ Settled(Rooted(n), Meaning(n), dst)
  BY DEF InLoop
<1>2. k = Len(n)
  <2>1. Len(After(n, k)) = Len(n) - k /\ Len(n) \in Nat
    BY AfterShape
  <2>2. Len(After(n, k)) = 0
    BY <1>1, Specials
  <2> QED
    BY <2>1, <2>2
<1>3. CASE Reading(n)[k].part = <<>> /\ dst = Joined(Rooted(n), Reading(n)[k].comps)
  BY <1>2, <1>3, MeaningTidy DEF Settled
<1> QED
  BY <1>1, <1>2, <1>3

(* The end of normalise_path: what is in the buffer becomes the normal     *)
(* spelling.                                                               *)
LEMMA DoneSpells ==
    ASSUME NEW n \in Text, dst \in Text, s = <<>>, InLoop(n, s, dst), NormaliseDone
    PROVE  dst' = Spell(Rooted(n), Meaning(n))
<1>0. PICK C : C = Meaning(n)
  OBVIOUS
<1>1. PICK R \in BOOLEAN : R = Rooted(n) /\ C = Meaning(n)
  BY <1>0, MeaningTidy
<1>2. Tidy(R, C) /\ Settled(R, C, dst)
  BY <1>1, LoopEnd, MeaningTidy
<1>3. PICK J : J = Joined(R, C)
  OBVIOUS
<1>4. /\ J \in Text /\ Len(J) \in Nat
      /\ J = <<>> <=> C = <<>> /\ ~R
      /\ Len(J) = 1 => C = <<>> /\ R
      /\ C = <<>> => J = Base(R)
  BY <1>2, <1>3, JoinedEnd
<1>5. /\ dst = <<>> => dst' = <<Dot>>
      /\ dst # <<>> /\ Len(dst) # 1 /\ Last(dst) = Slash => dst' = Front(dst)
      /\ dst # <<>> /\ ~(Len(dst) # 1 /\ Last(dst) = Slash) => dst' = dst
  BY DEF NormaliseDone
<1>6. CASE C = <<>> /\ R
  <2>1. dst = <<Slash>> /\ Spell(R, C) = <<Slash>>
    BY <1>2, <1>3, <1>4, <1>6 DEF Settled, Spell, Base
  <2>2. dst # <<>> /\ Len(dst) = 1
    BY <2>1, Specials
  <2> QED
    BY <1>1, <1>5, <2>1, <2>2
<1>7. CASE C = <<>> /\ ~R
  <2>1. dst = <<>> /\ Spell(R, C) = <<Dot>>
    BY <1>2, <1>3, <1>4, <1>7 DEF Settled, Spell, Base
  <2> QED
    BY <1>1, <1>5, <2>1
<1>8. CASE C # <<>>
  <2>1. PICK p \in Text : /\ p = Spell(R, C) /\ p \o <<Slash>> = J /\ p = Front(J)
                          /\ p # <<>> /\ Last(p) # Slash
    BY <1>2, <1>3, <1>8, SpellJoined
  <2>2. CASE dst = J
    <3>1. dst # <<>> /\ Len(dst) # 1
      BY <1>4, <1>8, <2>2
    <3>2. Last(dst) = Slash
      BY <2>1, <2>2, FrontGlue
    <3> QED
      BY <1>1, <1>5, <2>1, <2>2, <3>1, <3>2
  <2>3. CASE dst \o <<Slash>> = J
    <3>1. dst = p
      BY <2>1, <2>3, FrontGlue
    <3> QED
      BY <1>1, <1>5, <2>1, <3>1
  <2> QED
    BY <1>2, <1>3, <2>2, <2>3 DEF Settled
<1> QED
  BY <1>6, <1>7, <1>8

(* Reading a text does not depend on what follows it.                      *)
LEMMA ReadingPrefix ==
    ASSUME NEW n \in Text, n # <<>>, NEW t \in Text, NEW w, w = n \o t
    PROVE  /\ Rooted(w) = Rooted(n)
           /\ \A i \in 0 .. Len(n) : Reading(w)[i] = Reading(n)[i]
<1>1. /\ w \in Text /\ Len(w) = Len(n) + Len(t) /\ Len(n) \in Nat /\ Len(t) \in Nat
      /\ \A i \in 1 .. Len(n) : w[i] = n[i]
  BY Glue
<1>2. Len(n) > 0
  BY <1>1, KnownParts
<1>3. Rooted(w) = Rooted(n)
  <2>1. 1 \in DOMAIN w /\ 1 \in DOMAIN n /\ w[1] = n[1]
    BY <1>1, <1>2 DEF Text
  <2> QED
    BY <2>1 DEF Rooted, At
<1>4. PICK f, g : f = Reading(w) /\ g = Reading(n)
  OBVIOUS
<1>5. f[0] = Blank /\ g[0] = Blank
  BY <1>1, <1>4, ReadingIs
<1>6. PICK l \in Nat : l = Len(n)
  BY <1>1
<1>7. ASSUME NEW k \in 1 .. l, f[k - 1] = g[k - 1] PROVE f[k] = g[k]
  <2>1. k \in 1 .. Len(w) /\ k \in 1 .. Len(n)
    BY <1>1, <1>6
  <2>2. f[k] = ReadOn(w, k, f[k - 1])
    BY <1>1, <1>4, <2>1, ReadingIs
  <2>3. g[k] = ReadOn(n, k, g[k - 1])
    BY <1>4, <2>1, ReadingIs
  <2>4. w[k] = n[k]
    BY <1>1, <2>1
  <2> QED
    BY <1>3, <1>7, <2>2, <2>3, <2>4 DEF ReadOn
<1>8. ASSUME NEW j \in 0 .. l, f[j] # g[j] PROVE FALSE
  <2>1. PICK bad : bad = {i \in 0 .. l : f[i] # g[i]}
    OBVIOUS
  <2>2. bad \in SUBSET Nat /\ bad # {}
    BY <1>8, <2>1
  <2>3. PICK i \in bad : \A h \in bad : i <= h
    BY <2>2, Least
  <2>4. i \in 0 .. l /\ f[i] # g[i]
    BY <2>1, <2>3
  <2>5. i \in 1 .. l
    BY <1>5, <2>4
  <2>6. i - 1 \in 0 .. l /\ i - 1 \notin bad
    BY <2>3, <2>5
  <2>7. f[i - 1] = g[i - 1]
    BY <2>1, <2>6
  <2> QED
    BY <1>7, <2>4, <2>5, <2>7
<1> QED
  BY <1>3, <1>4, <1>6, <1>8

(* A slash ends the last component of a text.                              *)
LEMMA ReadSlash ==
    ASSUME NEW n \in Text, NEW k \in 1 .. Len(n), n[k] = Slash
    PROVE  /\ Reading(n)[k].part = <<>>
           /\ Reading(n)[k].comps = Step(Rooted(n), Reading(n)[k - 1].comps, Reading(n)[k - 1].part)
<1>1. Reading(n)[k] = ReadOn(n, k, Reading(n)[k - 1])
  BY ReadingIs
<1>2. Reading(n)[k - 1] \in Read
  <2>1. k - 1 \in 0 .. Len(n)
    BY DEF Text
  <2> QED
    BY <2>1, ReadingIs
<1> QED
  BY <1>1, <1>2, ReadOnTyped

(* A text, a slash and a second text: the slash ends the first one.        *)
LEMMA ReadJoint ==
    ASSUME NEW n \in Text, n # <<>>, NEW t \in Text, NEW w
    PROVE  w = n \o <<Slash>> \o t =>
              /\ w \in Text /\ Rooted(w) = Rooted(n) /\ Len(n) + 1 \in 0 .. Len(w)
              /\ Reading(w)[Len(n) + 1].part = <<>>
              /\ Reading(w)[Len(n) + 1].comps = Meaning(n)
              /\ After(w, Len(n) + 1) = t
<1>0. HAVE w = n \o <<Slash>> \o t
<1>1. PICK e : e = <<Slash>>
  OBVIOUS
<1>2. e \in Text /\ Len(e) = 1 /\ e[1] = Slash
  BY <1>1, Specials
<1>3. PICK p : p = n \o e
  OBVIOUS
<1>4. /\ p \in Text /\ Len(p) = Len(n) + 1 /\ Len(n) \in Nat
      /\ p[Len(n) + 1] = Slash
  <2>1. /\ p \in Text /\ Len(p) = Len(n) + Len(e) /\ Len(n) \in Nat
        /\ \A i \in 1 .. Len(e) : p[Len(n) + i] = e[i]
    BY <1>2, <1>3, Glue
  <2> QED
    BY <1>2, <2>1
<1>5. w = p \o t
  BY <1>0, <1>1, <1>3
<1>6. /\ w \in Text /\ Len(w) = Len(p) + Len(t) /\ Len(t) \in Nat
      /\ \A i \in 1 .. Len(p) : w[i] = p[i]
      /\ \A i \in 1 .. Len(t) : w[Len(p) + i] = t[i]
  <2>1. p \in Text
    BY <1>4
  <2> QED
    BY <1>5, <2>1, Glue
<1>7. PICK l \in Nat : l = Len(n) /\ Len(p) = l + 1
  BY <1>4
<1>8. w[l + 1] = Slash /\ l + 1 \in 1 .. Len(w) /\ l + 1 \in 0 .. Len(w) /\ (l + 1) - 1 = l
  BY <1>4, <1>6, <1>7
<1>9. PICK u \in Text : u = e \o t /\ w = n \o u
  <2>1. e \o t \in Text
    BY <1>2, Glue
  <2> QED
    BY <1>2, <1>3, <1>5, <2>1, Glue3
<1>10. Rooted(w) = Rooted(n) /\ Reading(w)[l] = Reading(n)[l]
  <2>1. l \in 0 .. Len(n)
    BY <1>7
  <2>2. w = n \o u
    BY <1>9
  <2>3. Rooted(w) = Rooted(n) /\ \A i \in 0 .. Len(n) : Reading(w)[i] = Reading(n)[i]
    BY <2>2, ReadingPrefix, Zenon
  <2> QED
    BY <2>1, <2>3, Zenon
<1>11. /\ Reading(w)[l + 1].part = <<>>
       /\ Reading(w)[l + 1].comps = Step(Rooted(w), Reading(w)[l].comps, Reading(w)[l].part)
  BY <1>6, <1>8, ReadSlash
<1>12. Meaning(n) = Step(Rooted(n), Reading(n)[l].comps, Reading(n)[l].part)
  BY <1>7 DEF Meaning
<1>13. After(w, l + 1) = t
  <2>1. PICK r : r = After(w, l + 1)
    OBVIOUS
  <2>2. /\ r \in Text /\ Len(r) = Len(w) - (l + 1)
        /\ \A i \in 1 .. Len(w) - (l + 1) : r[i] = w[(l + 1) + i]
    BY <1>6, <1>8, <2>1, AfterShape
  <2>3. Len(w) - (l + 1) = Len(t)
    BY <1>6, <1>7
  <2>4. \A i \in 1 .. Len(t) : r[i] = t[i]
    BY <1>6, <1>7, <2>2, <2>3
  <2> QED
    BY <2>1, <2>2, <2>3, <2>4, SameText
<1> QED
  BY <1>6, <1>7, <1>8, <1>10, <1>11, <1>12, <1>13

(* Where normalise_path starts.                                            *)
LEMMA StartReads ==
    ASSUME NormalCwds, cwd \in Cwds, name \in Text, is_abs \in BOOLEAN,
           StartAbsolute \/ StartPlain \/ StartRelative
    PROVE  Absolute(name) \in Text /\ InLoop(Absolute(name), s', dst')
<1>0. DOMAIN name = 1 .. Len(name) /\ Len(name) \in Nat
  BY DEF Text
<1>1. CASE StartAbsolute
  <2>1. At(name, 1) = Slash /\ dst' = <<Slash>> /\ s' = Tail(name)
    BY <1>1 DEF StartAbsolute
  <2>2. Absolute(name) = name /\ Rooted(name) = TRUE
    BY <2>1 DEF Absolute, Rooted
  <2>3. 1 \in 1 .. Len(name) /\ name[1] = Slash
    <3>1. At(name, 1) # "NUL"
      BY <2>1, Chars
    <3> QED
      BY <2>1, <3>1, Within
  <2>4. /\ Reading(name)[1].part = <<>>
        /\ Reading(name)[1].comps = <<>>
    <3>1. Reading(name)[0] = Blank
      BY ReadingIs
    <3>2. Reading(name)[0].comps = <<>> /\ Reading(name)[0].part = <<>>
      BY <3>1 DEF Blank
    <3>3. /\ Reading(name)[1].part = <<>>
          /\ Reading(name)[1].comps = Step(TRUE, Reading(name)[1 - 1].comps, Reading(name)[1 - 1].part)
      BY <2>2, <2>3, ReadSlash
    <3>4. Step(TRUE, <<>>, <<>>) = <<>>
      BY StepValue
    <3>5. 1 - 1 = 0
      OBVIOUS
    <3> QED
      BY <3>2, <3>3, <3>4, <3>5, Zenon
  <2>5. dst' = Joined(TRUE, <<>>)
    BY <2>1, JoinedNone DEF Base
  <2>6. s' = After(name, 1)
    <3>1. PICK r, u : r = After(name, 1) /\ u = Tail(name)
      OBVIOUS
    <3>2. /\ r \in Text /\ Len(r) = Len(name) - 1
          /\ \A i \in 1 .. Len(name) - 1 : r[i] = name[1 + i]
      <4>1. 1 \in 0 .. Len(name)
        BY <1>0, <2>3
      <4> QED
        BY <3>1, <4>1, AfterShape
    <3>3. /\ u \in Text /\ Len(u) = Len(name) - 1
          /\ \A i \in 1 .. Len(name) - 1 : u[i] = name[i + 1]
      <4>1. name # <<>> /\ name \in Seq(Char)
        BY <2>3 DEF Text
      <4> QED
        BY <3>1, <4>1, HeadTailProperties DEF Text
    <3>4. \A i \in 1 .. Len(name) - 1 : r[i] = u[i]
      BY <1>0, <3>2, <3>3
    <3> QED
      BY <2>1, <3>1, <3>2, <3>3, <3>4, SameText
  <2>7. 1 \in 0 .. Len(name)
    BY <1>0, <2>3
  <2> QED
    BY <2>2, <2>4, <2>5, <2>6, <2>7 DEF InLoop
<1>2. CASE StartPlain
  <2>1. At(name, 1) # Slash /\ ~is_abs /\ dst' = <<>> /\ s' = name
    BY <1>2 DEF StartPlain
  <2>2. Absolute(name) = name /\ Rooted(name) = FALSE
    BY <2>1 DEF Absolute, Rooted
  <2>3. Reading(name)[0].comps = <<>> /\ Reading(name)[0].part = <<>>
    <3>1. Reading(name)[0] = Blank
      BY ReadingIs
    <3> QED
      BY <3>1 DEF Blank
  <2>4. dst' = Joined(FALSE, <<>>)
    BY <2>1, JoinedNone DEF Base
  <2>5. s' = After(name, 0) /\ 0 \in 0 .. Len(name)
    <3>1. 0 \in 0 .. Len(name)
      BY <1>0
    <3>2. PICK r : r = After(name, 0)
      OBVIOUS
    <3>3. /\ r \in Text /\ Len(r) = Len(name) - 0
          /\ \A i \in 1 .. Len(name) - 0 : r[i] = name[0 + i]
      BY <3>1, <3>2, AfterShape
    <3>4. Len(r) = Len(name) /\ \A i \in 1 .. Len(name) : r[i] = name[i]
      BY <1>0, <3>3
    <3> QED
      BY <2>1, <3>1, <3>2, <3>3, <3>4, SameText
  <2> QED
    BY <2>2, <2>3, <2>4, <2>5 DEF InLoop
<1>3. CASE StartRelative
  <2>1. At(name, 1) # Slash /\ is_abs /\ dst' = Append(cwd, Slash) /\ s' = name
    BY <1>3 DEF StartRelative
  <2>2. PICK w : w = cwd \o <<Slash>> \o name /\ Absolute(name) = w
    BY <2>1 DEF Absolute
  <2>3. /\ cwd \in Text /\ At(cwd, 1) = Slash
        /\ cwd = Spell(TRUE, Meaning(cwd)) /\ cwd # <<Slash>>
    BY CwdAssumption DEF NormalCwds
  <2>4. cwd # <<>> /\ Rooted(cwd) = TRUE
    <3>1. cwd # <<>>
      <4>1. At(cwd, 1) # "NUL"
        BY <2>3, Chars
      <4>2. 1 \in 1 .. Len(cwd)
        BY <2>3, <4>1, Within
      <4>3. Len(cwd) # 0
        BY <4>2
      <4> QED
        BY <4>3, Specials
    <3> QED
      BY <2>3, <3>1 DEF Rooted
  <2>5. PICK C : C = Meaning(cwd)
    OBVIOUS
  <2>6. Tidy(TRUE, C) /\ C # <<>>
    BY <2>3, <2>4, <2>5, MeaningTidy DEF Spell
  <2>7. dst' = Joined(TRUE, C)
    <3>1. cwd \o <<Slash>> = Joined(TRUE, C)
      BY <2>3, <2>5, <2>6, SpellJoined
    <3> QED
      BY <2>1, <2>3, <3>1, FrontGlue
  <2>8. /\ w \in Text /\ Rooted(w) = Rooted(cwd) /\ Len(cwd) + 1 \in 0 .. Len(w)
        /\ Reading(w)[Len(cwd) + 1].part = <<>>
        /\ Reading(w)[Len(cwd) + 1].comps = Meaning(cwd)
        /\ After(w, Len(cwd) + 1) = name
    BY <2>2, <2>3, <2>4, ReadJoint
  <2> QED
    BY <2>1, <2>2, <2>4, <2>5, <2>7, <2>8 DEF InLoop
<1> QED
  BY <1>1, <1>2, <1>3

(* What makes the result normal: in the loop the buffer holds the          *)
(* components of what has been read of the name.                           *)
NormalInv ==
    /\ cwd \in Cwds /\ is_abs \in BOOLEAN
    /\ pc = "loop" => Absolute(name) \in Text /\ InLoop(Absolute(name), s, dst)
    /\ Normalised

(* A name at work does not change.                                         *)
LEMMA SameName ==
    ASSUME UNCHANGED call
    PROVE  Absolute(name)' = Absolute(name)
BY DEF call, Absolute

(* Every step keeps what is in the buffer and what has been read of the    *)
(* name together.                                                          *)
LEMMA NormalStep ==
    ASSUME NormalCwds, BufferInv, NormalInv, [Next]_vars
    PROVE  NormalInv'
<1>0. /\ name \in Text /\ s \in Text /\ dst \in Text
      /\ cwd \in Cwds /\ is_abs \in BOOLEAN
  BY DEF BufferInv, Types, NormalInv
<1>1. CASE UNCHANGED vars
  BY <1>1 DEF vars, NormalInv, Normalised, Absolute
<1>2. CASE NextCall
  <2>1. cwd' \in Cwds /\ is_abs' \in BOOLEAN /\ pc' = "start"
    BY <1>2, IsAbsAssumption DEF NextCall
  <2> QED
    BY <2>1 DEF NormalInv, Normalised
<1>3. ASSUME UNCHANGED call
      PROVE  /\ cwd' \in Cwds /\ is_abs' \in BOOLEAN
             /\ Absolute(name)' = Absolute(name)
             /\ Absolute(name') = Absolute(name)
  <2>1. cwd' = cwd /\ is_abs' = is_abs /\ name' = name
    BY <1>3 DEF call
  <2> QED
    BY <1>0, <1>3, <2>1, SameName
<1>4. CASE Parse \/ MapNone \/ MapRule \/ Ended
  <2>1. UNCHANGED call /\ pc' \in {"parse", "fatal", "start", "used"}
    BY <1>4 DEF Parse, ParseLine, ParseBad, ParseDone, MapNone, MapRule, Ended,
                Fail, call, vars
  <2> QED
    BY <1>3, <2>1 DEF NormalInv, Normalised
<1>5. ASSUME pc' = "used", UNCHANGED call PROVE NormalInv'
  BY <1>3, <1>5 DEF NormalInv, Normalised
<1>6. CASE StartTooLong
  BY <1>5, <1>6 DEF StartTooLong, Fail
<1>7. CASE StartAbsolute \/ StartPlain \/ StartRelative
  <2>1. UNCHANGED call /\ pc' = "loop"
    BY <1>7 DEF StartAbsolute, StartPlain, StartRelative
  <2>2. Absolute(name) \in Text /\ InLoop(Absolute(name), s', dst')
    BY <1>0, <1>7, StartReads
  <2>3. (Absolute(name) \in Text /\ InLoop(Absolute(name), s, dst))'
    BY <1>3, <2>1, <2>2 DEF InLoop, Settled, Meaning, Rooted, Reading
  <2> QED
    BY <1>3, <2>1, <2>3 DEF NormalInv, Normalised
<1>8. CASE SkipSlash \/ SkipDot \/ KeepUp \/ GoUp \/ CopyName
  <2>1. UNCHANGED call /\ pc' \in {"loop", "used"} /\ pc = "loop"
    BY <1>8 DEF SkipSlash, SkipDot, KeepUp, GoUp, CopyName, Fail
  <2>2. CASE pc' = "loop"
    <3>1. Absolute(name) \in Text /\ InLoop(Absolute(name), s', dst')
      BY <1>0, <1>8, <2>1, <2>2, LoopReads DEF NormalInv
    <3>2. (Absolute(name) \in Text /\ InLoop(Absolute(name), s, dst))'
      BY <1>3, <2>1, <3>1
    <3> QED
      BY <1>3, <2>1, <2>2, <3>2 DEF NormalInv, Normalised
  <2> QED
    BY <1>5, <2>1, <2>2
<1>9. CASE NormaliseDone
  <2>1. UNCHANGED call /\ pc' \in {"map", "normal"} /\ pc = "loop" /\ s = <<>>
    BY <1>9 DEF NormaliseDone
  <2>2. Absolute(name) \in Text /\ InLoop(Absolute(name), s, dst)
    BY <2>1 DEF NormalInv
  <2>3. dst' = Spell(Rooted(Absolute(name)), Meaning(Absolute(name)))
    BY <1>0, <1>9, <2>1, <2>2, DoneSpells
  <2>4. Normalised'
    BY <1>3, <2>1, <2>3 DEF Normalised
  <2> QED
    BY <1>3, <2>1, <2>4 DEF NormalInv
<1> QED
  BY <1>1, <1>2, <1>4, <1>6, <1>7, <1>8, <1>9 DEF Next, Normalise

(* normalise_path turns every name, of any length and of any characters,   *)
(* into the one normal spelling of what it means, in every working         *)
(* directory that is normal itself (normalise_path, ibcs/filemap.c).       *)
THEOREM NormalisedAlways ==
    ASSUME NormalCwds
    PROVE  Spec => []Normalised
<1>1. Init => NormalInv
  BY IsAbsAssumption DEF Init, NormalInv, Normalised
<1>2. NormalInv /\ BufferInv /\ [Next]_vars => NormalInv'
  BY NormalStep
<1>3. NormalInv => Normalised
  BY DEF NormalInv
<1> QED
  BY <1>1, <1>2, <1>3, BufferAlways, PTL DEF Spec

-----------------------------------------------------------------------------
(* An element behind two lists.                                            *)
LEMMA AppendBehind ==
    ASSUME NEW q \in Seq(Text), NEW r \in Seq(Text), NEW x \in Text
    PROVE  /\ q \o r \in Seq(Text)
           /\ Append(q \o r, x) = q \o Append(r, x)
<1>0. <<x>> \in Seq(Text)
  OBVIOUS
<1>1. PICK e : e = <<x>> /\ e \in Seq(Text)
  BY <1>0
<1>2. q \o r \in Seq(Text)
  BY ConcatProperties
<1>3. Append(q \o r, x) = (q \o r) \o e /\ Append(r, x) = r \o e
  BY <1>1, <1>2, AppendIsConcat
<1>4. (q \o r) \o e = q \o (r \o e)
  BY <1>1, ConcatAssociative
<1> QED
  BY <1>2, <1>3, <1>4

(* The starts of a list, one longer than the other.                        *)
LEMMA Growing ==
    ASSUME NEW q \in Seq(Text)
    PROVE  /\ Len(q) \in Nat /\ SubSeq(q, 1, 0) = <<>> /\ SubSeq(q, 1, Len(q)) = q
           /\ \A k \in 1 .. Len(q) :
                 /\ SubSeq(q, 1, k - 1) \in Seq(Text) /\ q[k] \in Text
                 /\ SubSeq(q, 1, k) = Append(SubSeq(q, 1, k - 1), q[k])
<1>1. Len(q) \in Nat /\ SubSeq(q, 1, 0) = <<>>
  BY SubSeqEmpty
<1>2. SubSeq(q, 1, Len(q)) = q
  BY SubSeqFull
<1>3. ASSUME NEW k \in 1 .. Len(q)
      PROVE  /\ SubSeq(q, 1, k - 1) \in Seq(Text) /\ q[k] \in Text
             /\ SubSeq(q, 1, k) = Append(SubSeq(q, 1, k - 1), q[k])
  <2>1. q[k] \in Text
    OBVIOUS
  <2>2. PICK u : u = SubSeq(q, 1, k - 1)
    OBVIOUS
  <2>3. u \in Seq(Text)
    BY <2>2, SubSeqProperties
  <2>4. 1 \in 1 .. Len(q) /\ k \in 1 .. Len(q)
    BY <1>1
  <2>5. SubSeq(q, 1, k) = u \o <<q[k]>>
    BY <2>2, <2>4, SubSeqRecursiveSecond
  <2>6. Append(u, q[k]) = u \o <<q[k]>>
    BY <2>1, <2>3, AppendIsConcat
  <2> QED
    BY <2>1, <2>2, <2>3, <2>5, <2>6
<1> QED
  BY <1>1, <1>2, <1>3

(* One list is the start of another.                                       *)
Begins(c, q) == c \in Seq(Text) /\ \E r \in Seq(Text) : q = c \o r

(* A list begins itself, and all that goes on with it.                     *)
LEMMA BeginsMore ==
    ASSUME NEW c, NEW q \in Seq(Text), NEW x \in Text
    PROVE  /\ Begins(q, q)
           /\ Begins(c, q) => Begins(c, Append(q, x))
<1>1. q \o <<>> = q /\ <<>> \in Seq(Text)
  BY ConcatEmptySeq
<1>2. ASSUME Begins(c, q) PROVE Begins(c, Append(q, x))
  <2>1. PICK r \in Seq(Text) : q = c \o r /\ c \in Seq(Text)
    BY <1>2 DEF Begins
  <2>2. Append(r, x) \in Seq(Text)
    BY OneMore
  <2>3. Append(c \o r, x) = c \o Append(r, x)
    BY <2>1, AppendBehind, Zenon
  <2> QED
    BY <2>1, <2>2, <2>3 DEF Begins
<1> QED
  BY <1>1, <1>2 DEF Begins

(* A list joined in two parts.                                             *)
LEMMA JoinedApart ==
    ASSUME NEW root \in BOOLEAN, NEW q \in Seq(Text), NEW r \in Seq(Text)
    PROVE  Joined(root, q \o r) = Joined(root, q) \o Joined(FALSE, r)
<1> DEFINE Apart(v) == Joined(root, q \o v) = Joined(root, q) \o Joined(FALSE, v)
<1>1. Apart(<<>>)
  <2>1. q \o <<>> = q /\ Joined(FALSE, <<>>) = <<>>
    BY ConcatEmptySeq, JoinedNone DEF Base
  <2>2. Joined(root, q) \o <<>> = Joined(root, q)
    BY JoinedText, ConcatEmptySeq DEF Text
  <2> QED
    BY <2>1, <2>2
<1>2. ASSUME NEW v \in Seq(Text), NEW x \in Text, Apart(v) PROVE Apart(Append(v, x))
  <2>1. PICK j, k, e : j = Joined(root, q) /\ k = Joined(FALSE, v) /\ e = <<Slash>>
    OBVIOUS
  <2>2. j \in Text /\ k \in Text /\ e \in Text /\ x \o e \in Text
    BY <2>1, JoinedText, Specials, Glue
  <2>3. q \o v \in Seq(Text) /\ Append(q \o v, x) = q \o Append(v, x)
    BY AppendBehind
  <2>4. Joined(root, Append(q \o v, x)) = (j \o k) \o x \o e
    BY <1>2, <2>1, <2>3, JoinedMore
  <2>5. Joined(FALSE, Append(v, x)) = k \o x \o e
    BY <2>1, JoinedMore
  <2>6. (j \o k) \o x \o e = j \o (k \o x \o e)
    <3>1. j \o k \in Text /\ k \o x \in Text
      BY <2>2, Glue
    <3>2. ((j \o k) \o x) \o e = (j \o k) \o (x \o e)
      <4>1. PICK p \in Text : p = j \o k
        BY <3>1
      <4>2. (p \o x) \o e = p \o (x \o e)
        BY <2>2, Glue3
      <4> QED
        BY <4>1, <4>2
    <3>3. (j \o k) \o (x \o e) = j \o (k \o (x \o e))
      BY <2>2, Glue3
    <3>4. (k \o x) \o e = k \o (x \o e)
      BY <2>2, Glue3
    <3> QED
      BY <3>2, <3>3, <3>4
  <2> QED
    BY <2>1, <2>3, <2>4, <2>5, <2>6
<1>3. PICK l \in Nat : l = Len(r)
  OBVIOUS
<1> DEFINE Wrong == {k \in 0 .. l : ~Apart(SubSeq(r, 1, k))}
<1>4. /\ SubSeq(r, 1, 0) = <<>> /\ SubSeq(r, 1, l) = r
      /\ \A k \in 1 .. l :
            /\ SubSeq(r, 1, k - 1) \in Seq(Text) /\ r[k] \in Text
            /\ SubSeq(r, 1, k) = Append(SubSeq(r, 1, k - 1), r[k])
  BY <1>3, Growing
<1> HIDE DEF Apart
<1>5. Wrong = {}
  <2> SUFFICES ASSUME Wrong # {} PROVE FALSE
    OBVIOUS
  <2>1. Wrong \in SUBSET Nat
    BY <1>3
  <2>2. PICK k \in Wrong : \A j \in Wrong : k <= j
    BY <2>1, Least
  <2>3. k \in 0 .. l /\ ~Apart(SubSeq(r, 1, k))
    BY <2>2
  <2>4. k # 0
    BY <1>1, <1>4, <2>3
  <2>5. k \in 1 .. l /\ k - 1 \in 0 .. l /\ ~(k <= k - 1)
    BY <1>3, <2>3, <2>4
  <2>6. Apart(SubSeq(r, 1, k - 1))
    BY <2>2, <2>5
  <2> QED
    BY <1>2, <1>4, <2>3, <2>5, <2>6
<1>6. Apart(SubSeq(r, 1, l))
  BY <1>3, <1>5
<1> QED
  BY <1>4, <1>6 DEF Apart

(* Reading w, from what is behind its first b characters on, collects the  *)
(* components of comps one after the other, and ends with a slash.         *)
Along(b, comps, w) ==
    /\ w \in Text /\ w # <<>> /\ Rooted(w) /\ b <= Len(w)
    /\ Reading(w)[Len(w)].part = <<>> /\ Reading(w)[Len(w)].comps = comps
    /\ \A p \in b .. Len(w) : Begins(Reading(w)[p].comps, comps)

(* A component more, with its slash.                                       *)
LEMMA AlongMore ==
    ASSUME NEW b \in Nat, NEW comps \in Seq(Text), NEW w, Along(b, comps, w),
           NEW x, Plain(x), x # Up
    PROVE  Along(b, Append(comps, x), w \o (x \o <<Slash>>))
<1>1. PICK y : y = x \o <<Slash>>
  OBVIOUS
<1>2. x \in Text /\ w \in Text /\ w # <<>> /\ Rooted(w)
  BY DEF Plain, Part, Along
<1>3. /\ y \in Text /\ Len(y) = Len(x) + 1 /\ Len(x) \in Nat /\ y[Len(x) + 1] = Slash
      /\ \A i \in 1 .. Len(x) : y[i] = x[i]
  <2>1. PICK e : e = <<Slash>> /\ e \in Text /\ Len(e) = 1 /\ e[1] = Slash
    BY Specials
  <2>2. /\ y \in Text /\ Len(y) = Len(x) + Len(e) /\ Len(x) \in Nat
        /\ \A i \in 1 .. Len(x) : y[i] = x[i]
        /\ \A i \in 1 .. Len(e) : y[Len(x) + i] = e[i]
    <3>1. y = x \o e /\ x \in Text /\ e \in Text
      BY <1>1, <1>2, <2>1
    <3> QED
      BY <3>1, Glue
  <2> QED
    BY <2>1, <2>2
<1>4. PICK v : v = w \o y
  OBVIOUS
<1>5. /\ v \in Text /\ Len(v) = Len(w) + Len(y) /\ Len(w) \in Nat
      /\ \A i \in 1 .. Len(w) : v[i] = w[i]
      /\ \A i \in 1 .. Len(y) : v[Len(w) + i] = y[i]
  BY <1>2, <1>3, <1>4, Glue
<1>6. PICK l \in Nat, m \in Nat : l = Len(w) /\ m = Len(x) /\ Len(v) = l + m + 1
  BY <1>3, <1>5
<1>7. ASSUME NEW i \in l + 1 .. l + m PROVE v[i] # Slash /\ v[i] = x[i - l]
  <2>1. i - l \in 1 .. m /\ i - l \in 1 .. Len(y) /\ l + (i - l) = i
    BY <1>3, <1>6
  <2>2. v[i] = y[i - l] /\ y[i - l] = x[i - l]
    BY <1>3, <1>5, <1>6, <2>1
  <2>3. x[i - l] # Slash
    BY <1>6, <2>1 DEF Plain, Part
  <2> QED
    BY <2>2, <2>3
<1>8. v[l + m + 1] = Slash
  <2>1. m + 1 \in 1 .. Len(y) /\ l + (m + 1) = l + m + 1
    BY <1>3, <1>6
  <2> QED
    BY <1>3, <1>5, <1>6, <2>1
<1>9. Rooted(v) /\ \A i \in 0 .. l : Reading(v)[i] = Reading(w)[i]
  BY <1>2, <1>3, <1>4, <1>6, ReadingPrefix
<1>10. Reading(v)[l].part = <<>> /\ Reading(v)[l].comps = comps
  <2>1. Reading(w)[l].part = <<>> /\ Reading(w)[l].comps = comps
    BY <1>6 DEF Along
  <2>2. Reading(v)[l] = Reading(w)[l]
    BY <1>6, <1>9
  <2> QED
    BY <2>1, <2>2
<1>11. l \in 0 .. Len(v) /\ l + m \in l .. Len(v)
  BY <1>6
<1>12. SubSeq(v, l + 1, l + m) = x
  <2>1. PICK u : u = SubSeq(v, l + 1, l + m)
    OBVIOUS
  <2>2. /\ u \in Text /\ Len(u) = (l + m) - l
        /\ \A i \in 1 .. (l + m) - l : u[i] = v[l + i]
    BY <1>5, <1>11, <2>1, Cut DEF Text
  <2>3. (l + m) - l = m
    BY <1>6
  <2>4. ASSUME NEW i \in 1 .. m PROVE u[i] = x[i]
    <3>1. l + i \in l + 1 .. l + m /\ (l + i) - l = i
      BY <1>6
    <3> QED
      BY <1>7, <2>2, <2>3, <3>1
  <2> QED
    BY <1>2, <1>6, <2>1, <2>2, <2>3, <2>4, SameText
<1>13. Step(TRUE, comps, x) = Append(comps, x)
  BY StepPlain DEF Plain
<1>14. /\ Reading(v)[l + m + 1].part = <<>>
       /\ Reading(v)[l + m + 1].comps = Append(comps, x)
  <2>1. l + m < Len(v) /\ v[(l + m) + 1] = Slash /\ (l + m) + 1 = l + m + 1
    BY <1>6, <1>8
  <2>2. /\ Reading(v)[(l + m) + 1].comps = Step(Rooted(v), comps, x)
        /\ Reading(v)[(l + m) + 1].part = <<>>
    <3>1. PICK e \in l .. Len(v) : e = l + m
      BY <1>11
    <3>2. /\ v \in Text /\ l \in 0 .. Len(v) /\ Reading(v)[l].part = <<>>
          /\ comps = Reading(v)[l].comps /\ x = SubSeq(v, l + 1, e)
      BY <1>5, <1>10, <1>11, <1>12, <3>1
    <3>3. \A i \in l + 1 .. e : v[i] # Slash
      BY <1>7, <3>1
    <3>4. e < Len(v) /\ v[e + 1] = Slash
      BY <2>1, <3>1
    <3>5. /\ Reading(v)[e + 1].comps = Step(Rooted(v), comps, x)
          /\ Reading(v)[e + 1].part = <<>>
      BY <3>2, <3>3, <3>4, ReadComponent
    <3> QED
      BY <3>1, <3>5
  <2> QED
    BY <1>9, <1>13, <2>1, <2>2
<1>15. ASSUME NEW p \in b .. Len(v) PROVE Begins(Reading(v)[p].comps, Append(comps, x))
  <2>1. CASE p \in 0 .. l
    <3>1. Reading(v)[p] = Reading(w)[p]
      BY <1>9, <2>1
    <3>2. Begins(Reading(w)[p].comps, comps)
      <4>1. p \in b .. Len(w)
        BY <1>6, <2>1
      <4> QED
        BY <4>1 DEF Along
    <3> QED
      BY <1>2, <3>1, <3>2, BeginsMore
  <2>2. CASE p \in l .. l + m
    <3>1. p \in l .. Len(v) /\ \A i \in l + 1 .. p : v[i] # Slash
      BY <1>6, <1>7, <2>2
    <3>2. Reading(v)[p].comps = Reading(v)[l].comps
      BY <1>5, <1>10, <1>11, <3>1, ReadRun
    <3>3. Begins(comps, Append(comps, x))
      BY <1>2, BeginsMore
    <3> QED
      BY <1>10, <3>2, <3>3
  <2>3. CASE p = l + m + 1
    <3>1. Append(comps, x) \in Seq(Text)
      BY <1>2, OneMore
    <3>2. Begins(Append(comps, x), Append(comps, x))
      BY <1>2, <3>1, BeginsMore
    <3> QED
      BY <1>14, <2>3, <3>2
  <2> QED
    BY <1>6, <2>1, <2>2, <2>3
<1>16. v # <<>> /\ b <= Len(v)
  <2>1. b <= l
    BY <1>6 DEF Along
  <2>2. Len(v) # 0
    BY <1>6
  <2> QED
    BY <1>5, <1>6, <2>1, <2>2, KnownParts
<1>17. Along(b, Append(comps, x), v)
  BY <1>5, <1>6, <1>9, <1>14, <1>15, <1>16 DEF Along
<1> QED
  BY <1>1, <1>4, <1>17

(* Reading a list of components behind a text that ends in a slash.        *)
LEMMA ReadAlong ==
    ASSUME NEW b \in Nat, NEW c \in Seq(Text), NEW w, Along(b, c, w),
           NEW r, Tidy(TRUE, r)
    PROVE  Along(b, c \o r, w \o Joined(FALSE, r))
<1> DEFINE Reads(v) == Along(b, c \o v, w \o Joined(FALSE, v))
<1>0. w \in Text /\ r \in Seq(Text)
  BY DEF Along, Tidy
<1>1. Reads(<<>>)
  <2>1. c \o <<>> = c /\ Joined(FALSE, <<>>) = <<>>
    BY ConcatEmptySeq, JoinedNone DEF Base
  <2>2. w \o <<>> = w
    BY <1>0, ConcatEmptySeq DEF Text
  <2> QED
    BY <2>1, <2>2
<1>2. ASSUME NEW v \in Seq(Text), NEW x, Plain(x), x # Up, Reads(v) PROVE Reads(Append(v, x))
  <2>1. x \in Text
    BY <1>2 DEF Plain, Part
  <2>2. PICK j, e : j = Joined(FALSE, v) /\ e = <<Slash>>
    OBVIOUS
  <2>3. j \in Text /\ e \in Text /\ x \o e \in Text
    BY <2>1, <2>2, JoinedText, Specials, Glue
  <2>4. c \o v \in Seq(Text) /\ Append(c \o v, x) = c \o Append(v, x)
    BY <2>1, AppendBehind
  <2>5. Along(b, Append(c \o v, x), (w \o j) \o (x \o e))
    BY <1>2, <2>2, <2>4, AlongMore
  <2>6. (w \o j) \o (x \o e) = w \o (j \o (x \o e)) /\ (j \o x) \o e = j \o (x \o e)
    BY <1>0, <2>1, <2>3, Glue3
  <2>7. Joined(FALSE, Append(v, x)) = j \o x \o e
    BY <2>1, <2>2, JoinedMore
  <2> QED
    BY <2>4, <2>5, <2>6, <2>7
<1>3. PICK l \in Nat : l = Len(r)
  BY <1>0
<1> DEFINE Wrong == {k \in 0 .. l : ~Reads(SubSeq(r, 1, k))}
<1>4. /\ SubSeq(r, 1, 0) = <<>> /\ SubSeq(r, 1, l) = r
      /\ \A k \in 1 .. l :
            /\ SubSeq(r, 1, k - 1) \in Seq(Text) /\ r[k] \in Text
            /\ SubSeq(r, 1, k) = Append(SubSeq(r, 1, k - 1), r[k])
  BY <1>0, <1>3, Growing
<1>5. \A k \in 1 .. l : Plain(r[k]) /\ r[k] # Up
  BY <1>3 DEF Tidy
<1> HIDE DEF Reads
<1>6. Wrong = {}
  <2> SUFFICES ASSUME Wrong # {} PROVE FALSE
    OBVIOUS
  <2>1. Wrong \in SUBSET Nat
    BY <1>3
  <2>2. PICK k \in Wrong : \A j \in Wrong : k <= j
    BY <2>1, Least
  <2>3. k \in 0 .. l /\ ~Reads(SubSeq(r, 1, k))
    BY <2>2
  <2>4. k # 0
    BY <1>1, <1>4, <2>3
  <2>5. k \in 1 .. l /\ k - 1 \in 0 .. l /\ ~(k <= k - 1)
    BY <1>3, <2>3, <2>4
  <2>6. Reads(SubSeq(r, 1, k - 1))
    BY <2>2, <2>5
  <2> QED
    BY <1>2, <1>4, <1>5, <2>3, <2>5, <2>6
<1>7. Reads(SubSeq(r, 1, l))
  BY <1>3, <1>6
<1> QED
  BY <1>4, <1>7 DEF Reads

(* A text that ends in a slash is read to its end.                         *)
LEMMA SlashAlong ==
    ASSUME NEW w \in Text, w # <<>>, Rooted(w), Last(w) = Slash
    PROVE  Along(Len(w), Meaning(w), w) /\ Meaning(w) \in Seq(Text)
<1>1. PICK l \in Nat : l = Len(w) /\ l \in 1 .. l /\ w[l] = Slash
  <2>1. Len(w) \in Nat /\ Len(w) # 0
    BY KnownParts DEF Text
  <2> QED
    BY <2>1 DEF Last
<1>2. Reading(w)[l].part = <<>>
  BY <1>1, ReadSlash
<1>3. Meaning(w) = Reading(w)[l].comps /\ Tidy(Rooted(w), Meaning(w))
  BY <1>1, <1>2, MeaningTidy
<1>4. Meaning(w) \in Seq(Text)
  BY <1>3 DEF Tidy
<1>5. Begins(Meaning(w), Meaning(w))
  <2>1. Meaning(w) \o <<>> = Meaning(w) /\ <<>> \in Seq(Text)
    BY <1>4, ConcatEmptySeq
  <2> QED
    BY <1>4, <2>1 DEF Begins
<1>6. \A p \in l .. l : p = l
  BY <1>1
<1>7. ASSUME NEW p \in l .. l PROVE Begins(Reading(w)[p].comps, Meaning(w))
  BY <1>3, <1>5, <1>6
<1> QED
  BY <1>1, <1>2, <1>3, <1>4, <1>7 DEF Along

(* A text with a slash behind it means what it means without.              *)
LEMMA BeforeSlash ==
    ASSUME NEW n \in Text, n # <<>>, NEW b, NEW c, Along(b, c, n \o <<Slash>>)
    PROVE  Meaning(n) = c
<1>1. PICK w : w = n \o <<Slash>>
  OBVIOUS
<1>2. w \in Text /\ Len(w) = Len(n) + 1
  BY <1>1, Specials, Glue
<1>3. w = n \o <<Slash>> \o <<>> /\ <<>> \in Text
  BY <1>1, <1>2, Specials, ConcatEmptySeq DEF Text
<1>4. Reading(w)[Len(n) + 1].comps = Meaning(n)
  BY <1>3, ReadJoint
<1>5. Reading(w)[Len(w)].comps = c
  BY <1>1 DEF Along
<1> QED
  BY <1>2, <1>4, <1>5

(* The root.                                                               *)
LEMMA RootAlong == Along(0, <<>>, <<Slash>>)
<1>1. PICK w : w = <<Slash>>
  OBVIOUS
<1>2. w \in Text /\ Len(w) = 1 /\ w[1] = Slash /\ w # <<>>
  BY <1>1, Specials
<1>3. Rooted(w)
  <2>1. 1 \in DOMAIN w
    BY <1>2 DEF Text
  <2> QED
    BY <1>2, <2>1 DEF Rooted, At
<1>4. Reading(w)[0].comps = <<>> /\ Reading(w)[0].part = <<>>
  <2>1. Reading(w)[0] = Blank
    BY <1>2, ReadingIs
  <2> QED
    BY <2>1 DEF Blank
<1>5. /\ Reading(w)[1].part = <<>>
      /\ Reading(w)[1].comps = Step(Rooted(w), Reading(w)[0].comps, Reading(w)[0].part)
  <2>1. 1 \in 1 .. Len(w) /\ 1 - 1 = 0
    BY <1>2
  <2>2. /\ Reading(w)[1].part = <<>>
        /\ Reading(w)[1].comps = Step(Rooted(w), Reading(w)[1 - 1].comps, Reading(w)[1 - 1].part)
    BY <1>2, <2>1, ReadSlash
  <2> QED
    BY <2>1, <2>2, Zenon
<1>6. Step(Rooted(w), <<>>, <<>>) = <<>>
  <2>1. Rooted(w) \in BOOLEAN
    BY DEF Rooted
  <2> QED
    BY <2>1, StepValue
<1>7. Reading(w)[1].comps = <<>>
  BY <1>4, <1>5, <1>6
<1>8. Begins(<<>>, <<>>)
  <2>1. <<>> \in Seq(Text) /\ <<>> \o <<>> = <<>>
    BY ConcatEmptySeq
  <2> QED
    BY <2>1 DEF Begins
<1>9. ASSUME NEW p \in 0 .. 1 PROVE Begins(Reading(w)[p].comps, <<>>)
  <2>1. p = 0 \/ p = 1
    OBVIOUS
  <2> QED
    BY <1>4, <1>7, <1>8, <2>1
<1>10. Along(0, <<>>, w)
  <2>1. PICK none : none = <<>>
    OBVIOUS
  <2>2. /\ w \in Text /\ w # none /\ Rooted(w) /\ Len(w) = 1 /\ 0 <= 1
        /\ Reading(w)[1].part = none /\ Reading(w)[1].comps = none
    <3>1. w \in Text /\ w # none /\ Rooted(w) /\ Len(w) = 1 /\ 0 <= 1
      BY <1>2, <1>3, <2>1
    <3>2. Reading(w)[1].part = none /\ Reading(w)[1].comps = none
      BY <1>5, <1>7, <2>1, Zenon
    <3> QED
      BY <3>1, <3>2
  <2>3. \A p \in 0 .. 1 : Begins(Reading(w)[p].comps, none)
    BY <1>9, <2>1
  <2>4. Along(0, none, w)
    BY <2>1, <2>2, <2>3 DEF Along
  <2> QED
    BY <2>1, <2>4
<1> QED
  BY <1>1, <1>10

(* A joined list means the list, and its starts mean starts of it.         *)
LEMMA JoinedAlong ==
    ASSUME NEW c, Tidy(TRUE, c)
    PROVE  Along(0, c, Joined(TRUE, c))
<1>1. c \in Seq(Text) /\ <<>> \in Seq(Text) /\ <<>> \o c = c
  BY ConcatEmptySeq DEF Tidy
<1>2. Joined(TRUE, <<>> \o c) = Joined(TRUE, <<>>) \o Joined(FALSE, c)
  BY <1>1, JoinedApart
<1>3. Joined(TRUE, <<>>) = <<Slash>>
  BY JoinedNone DEF Base
<1>4. Along(0, <<>> \o c, <<Slash>> \o Joined(FALSE, c))
  BY <1>1, RootAlong, ReadAlong
<1> QED
  BY <1>1, <1>2, <1>3, <1>4

(* The normal spelling of a list means the list, and starts with a slash.  *)
LEMMA SpellMeans ==
    ASSUME NEW c, Tidy(TRUE, c)
    PROVE  Spell(TRUE, c) \in Text /\ Meaning(Spell(TRUE, c)) = c
<1>1. CASE c = <<>>
  <2>1. Spell(TRUE, c) = <<Slash>> /\ Joined(TRUE, c) = <<Slash>> /\ <<Slash>> \in Text
    BY <1>1, JoinedNone, Specials DEF Spell, Base
  <2>2. Along(0, c, <<Slash>>)
    BY <2>1, JoinedAlong
  <2>3. Meaning(<<Slash>>) = c
    BY <2>1, <2>2, MeaningTidy DEF Along
  <2> QED
    BY <2>1, <2>3
<1>2. CASE c # <<>>
  <2>1. PICK p : p = Spell(TRUE, c)
    OBVIOUS
  <2>2. p \in Text /\ p \o <<Slash>> = Joined(TRUE, c) /\ p # <<>>
    BY <1>2, <2>1, SpellJoined
  <2>3. Along(0, c, p \o <<Slash>>)
    BY <2>2, JoinedAlong
  <2> QED
    BY <2>1, <2>2, <2>3, BeforeSlash
<1> QED
  BY <1>1, <1>2

(* A strict prefix of a list, and what follows it.                         *)
LEMMA PrefixParts ==
    ASSUME NEW T, NEW q \in Seq(T), NEW r \in Seq(T)
    PROVE  /\ IsPrefix(q, q \o r)
           /\ SubSeq(q \o r, Len(q) + 1, Len(q \o r)) = r
           /\ r # <<>> => IsStrictPrefix(q, q \o r)
<1>1. PICK w, l, m : w = q \o r /\ l = Len(q) /\ m = Len(r)
  OBVIOUS
<1>2. /\ w \in Seq(T) /\ l \in Nat /\ m \in Nat /\ Len(w) = l + m
      /\ \A i \in 1 .. l + m : w[i] = IF i <= l THEN q[i] ELSE r[i - l]
  BY <1>1, ConcatProperties
<1>3. l \in 0 .. Len(w) /\ 0 \in 0 .. Len(w) /\ l \in 0 .. Len(q) /\ 0 \in 0 .. Len(q)
      /\ l + m \in l .. Len(w)
  BY <1>1, <1>2
<1>4. SubSeq(q, 1, l) = q
  BY <1>1, SubSeqFull
<1>5. SubSeq(w, 1, l) = q
  <2>1. PICK u : u = SubSeq(w, 1, l)
    OBVIOUS
  <2>2. u \in Seq(T) /\ Len(u) = l /\ \A i \in 1 .. l : u[i] = w[i]
    BY <1>2, <1>3, <2>1
  <2>3. \A i \in 1 .. l : w[i] = q[i]
    BY <1>2
  <2> QED
    BY <1>1, <2>1, <2>2, <2>3, SeqEqual
<1>6. SubSeq(w, l + 1, l + m) = r
  <2>1. PICK u : u = SubSeq(w, l + 1, l + m)
    OBVIOUS
  <2>2. u \in Seq(T) /\ Len(u) = (l + m) - l /\ \A i \in 1 .. (l + m) - l : u[i] = w[l + i]
    BY <1>2, <1>3, <2>1, Cut
  <2>3. (l + m) - l = m /\ \A i \in 1 .. m : w[l + i] = r[i]
    <3>1. (l + m) - l = m
      BY <1>2
    <3>2. ASSUME NEW i \in 1 .. m PROVE w[l + i] = r[i]
      <4>1. l + i \in 1 .. l + m /\ ~(l + i <= l) /\ (l + i) - l = i
        BY <1>2
      <4> QED
        BY <1>2, <4>1
    <3> QED
      BY <3>1, <3>2
  <2> QED
    BY <1>1, <2>1, <2>2, <2>3, SeqEqual
<1>7. IsPrefix(q, w)
  BY <1>1, <1>2, <1>4, <1>5 DEF IsPrefix
<1>8. r # <<>> => q # w
  <2>1. r # <<>> => m # 0
    BY <1>1, EmptySeq
  <2> QED
    BY <1>1, <1>2, <2>1
<1> QED
  BY <1>1, <1>2, <1>6, <1>7, <1>8 DEF IsStrictPrefix

(* The other way round.                                                    *)
LEMMA PrefixRest ==
    ASSUME NEW T, NEW q \in Seq(T), NEW w \in Seq(T), IsPrefix(q, w)
    PROVE  \E r \in Seq(T) : w = q \o r
<1>1. PICK l, n : l = Len(q) /\ n = Len(w)
  OBVIOUS
<1>2. l \in Nat /\ n \in Nat /\ l <= n /\ SubSeq(q, 1, l) = SubSeq(w, 1, l)
  BY <1>1 DEF IsPrefix
<1>3. SubSeq(q, 1, l) = q /\ SubSeq(w, 1, n) = w
  BY <1>1, SubSeqFull
<1>4. SubSeq(w, 1, l) \o SubSeq(w, l + 1, n) = SubSeq(w, 1, n)
  <2>1. 1 \in 1 .. Len(w) + 1 /\ l \in 1 - 1 .. Len(w) /\ n \in l .. Len(w)
    BY <1>1, <1>2
  <2> QED
    BY <2>1, ConcatAdjacentSubSeq
<1>5. SubSeq(w, l + 1, n) \in Seq(T)
  <2>1. l \in 0 .. Len(w) /\ n \in l .. Len(w)
    BY <1>1, <1>2
  <2> QED
    BY <2>1, Cut
<1> QED
  BY <1>2, <1>3, <1>4, <1>5

(* The rest of a tidy list is tidy.                                        *)
LEMMA TidyRest ==
    ASSUME NEW q \in Seq(Text), NEW r \in Seq(Text), Tidy(TRUE, q \o r)
    PROVE  Tidy(TRUE, r) /\ Tidy(FALSE, r)
<1>1. PICK w, l, m : w = q \o r /\ l = Len(q) /\ m = Len(r)
  OBVIOUS
<1>2. /\ l \in Nat /\ m \in Nat /\ Len(w) = l + m
      /\ \A i \in 1 .. l + m : w[i] = IF i <= l THEN q[i] ELSE r[i - l]
  BY <1>1, ConcatProperties
<1>3. ASSUME NEW i \in 1 .. m PROVE Plain(r[i]) /\ r[i] # Up
  <2>1. l + i \in 1 .. l + m /\ ~(l + i <= l) /\ (l + i) - l = i
    BY <1>2
  <2>2. w[l + i] = r[i]
    BY <1>2, <2>1
  <2>3. Plain(w[l + i]) /\ w[l + i] # Up
    BY <1>1, <1>2, <2>1 DEF Tidy
  <2> QED
    BY <2>2, <2>3
<1> QED
  BY <1>1, <1>3 DEF Tidy

(* A name under a directory: it starts with the name of the directory and  *)
(* a slash, and goes on with the components that follow.                   *)
LEMMA UnderText ==
    ASSUME NEW q \in Seq(Text), NEW r \in Seq(Text), r # <<>>, Tidy(TRUE, q \o r)
    PROVE  \E p \in Text : /\ Spell(TRUE, q \o r) = Joined(TRUE, q) \o p
                           /\ p \o <<Slash>> = Joined(FALSE, r)
<1>1. Tidy(FALSE, r)
  BY TidyRest
<1>2. PICK p \in Text : p \o <<Slash>> = Joined(FALSE, r)
  BY <1>1, SpellJoined
<1>3. PICK c, j, d : c = q \o r /\ j = Joined(TRUE, q) /\ d = Spell(TRUE, c)
  OBVIOUS
<1>4. c # <<>> /\ Tidy(TRUE, c)
  <2>1. q \o r = <<>> => r = <<>>
    BY ConcatEqualIffEmpty
  <2> QED
    BY <1>3, <2>1, Zenon
<1>5. d \in Text /\ d \o <<Slash>> = Joined(TRUE, c)
  BY <1>3, <1>4, SpellJoined
<1>6. Joined(TRUE, c) = j \o (p \o <<Slash>>)
  BY <1>2, <1>3, JoinedApart
<1>7. j \in Text /\ j \o p \in Text /\ <<Slash>> \in Text
  BY <1>3, JoinedText, Specials, Glue
<1>8. (j \o p) \o <<Slash>> = j \o (p \o <<Slash>>)
  BY <1>7, Glue3
<1>9. d = j \o p
  <2>1. PICK y \in Text : y = j \o p
    BY <1>7
  <2>2. y \o <<Slash>> = d \o <<Slash>>
    BY <1>5, <1>6, <1>8, <2>1
  <2> QED
    BY <1>5, <2>1, <2>2, FrontGlue
<1> QED
  BY <1>2, <1>3, <1>9

(* The other way round: a name that starts with a directory and a slash is *)
(* a name under that directory.                                            *)
LEMMA TextUnder ==
    ASSUME NEW q, Tidy(TRUE, q), NEW c, Tidy(TRUE, c), c # <<>>,
           IsPrefix(Joined(TRUE, q), Spell(TRUE, c))
    PROVE  \E r \in Seq(Text) : r # <<>> /\ c = q \o r
<1>1. PICK f, d : f = Joined(TRUE, q) /\ d = Spell(TRUE, c)
  OBVIOUS
<1>2. PICK J : J = Joined(TRUE, c)
  OBVIOUS
<1>3. d \in Text /\ d \o <<Slash>> = J
  BY <1>1, <1>2, SpellJoined
<1>4. Along(0, q, f) /\ Along(0, c, J)
  BY <1>1, <1>2, JoinedAlong
<1>5. f \in Text /\ f # <<>> /\ Reading(f)[Len(f)].comps = q
  BY <1>4 DEF Along
<1>6. PICK z \in Text : d = f \o z
  BY <1>1, <1>3, <1>5, PrefixRest DEF Text
<1>7. PICK y \in Text : y = z \o <<Slash>> /\ J = f \o y
  <2>1. <<Slash>> \in Text /\ z \o <<Slash>> \in Text
    BY Specials, Glue
  <2>2. (f \o z) \o <<Slash>> = f \o (z \o <<Slash>>)
    BY <1>5, <2>1, Glue3
  <2> QED
    BY <1>3, <1>6, <2>1, <2>2
<1>8. PICK l \in Nat : l = Len(f) /\ l \in 0 .. Len(f)
  BY <1>5 DEF Text
<1>9. Reading(J)[l] = Reading(f)[l]
  <2>1. J = f \o y
    BY <1>7
  <2>2. \A i \in 0 .. Len(f) : Reading(J)[i] = Reading(f)[i]
    BY <1>5, <2>1, ReadingPrefix, Zenon
  <2> QED
    BY <1>8, <2>2, Zenon
<1>10. Len(J) = l + Len(y) /\ Len(y) = Len(z) + 1 /\ Len(z) \in Nat
  <2>1. Len(J) = Len(f) + Len(y)
    BY <1>5, <1>7, Glue
  <2>2. Len(y) = Len(z) + 1 /\ Len(z) \in Nat
    BY <1>7, Specials, Glue
  <2> QED
    BY <1>8, <2>1, <2>2
<1>11. Begins(q, c)
  <2>1. l \in 0 .. Len(J)
    BY <1>10
  <2>2. Begins(Reading(J)[l].comps, c)
    BY <1>4, <2>1 DEF Along
  <2> QED
    BY <1>5, <1>8, <1>9, <2>2
<1>12. PICK r \in Seq(Text) : c = q \o r /\ q \in Seq(Text)
  BY <1>11 DEF Begins
<1>13. r # <<>>
  <2>1. ASSUME r = <<>> PROVE FALSE
    <3>1. c = q
      BY <1>12, <2>1, ConcatEmptySeq
    <3>2. Len(J) = l
      BY <1>1, <1>2, <1>8, <3>1
    <3> QED
      BY <1>8, <1>10, <3>2
  <2> QED
    BY <2>1
<1> QED
  BY <1>12, <1>13

(* Replacing the start f of a name d by another text replaces the          *)
(* components q that the name starts with.                                 *)
Moves(f, to, d, q, c) ==
    Meaning(to \o SubSeq(d, Len(f) + 1, Len(d))) =
        Meaning(to) \o SubSeq(c, Len(q) + 1, Len(c))

(* What a rule for a directory matches, and what it makes of a name.       *)
LEMMA DirectoryRule ==
    ASSUME NEW q, Tidy(TRUE, q), NEW c, Tidy(TRUE, c), NEW f, f = Joined(TRUE, q),
           NEW d, d = Spell(TRUE, c), NEW to \in Text
    PROVE  /\ IsPrefix(f, d) <=> IsStrictPrefix(q, c) \/ f = <<Slash>>
           /\ to # <<>> /\ Rooted(to) /\ Last(to) = Slash /\ IsPrefix(f, d) =>
                  Moves(f, to, d, q, c)
<1>1. /\ f \in Text /\ Len(f) \in Nat /\ f # <<>>
      /\ Len(f) = 1 => q = <<>>
      /\ q = <<>> => f = <<Slash>>
  BY JoinedEnd DEF Base
<1>2. q \in Seq(Text) /\ c \in Seq(Text)
  BY DEF Tidy
<1>3. f = <<Slash>> => q = <<>>
  BY <1>1, Specials
<1>4. CASE c = <<>>
  <2>1. d = <<Slash>>
    BY <1>4 DEF Spell
  <2>2. IsPrefix(f, d) <=> f = <<Slash>>
    <3>1. PICK e \in Text : e = <<Slash>> /\ Len(e) = 1
      BY Specials
    <3>2. IsPrefix(f, e) => Len(f) <= 1
      BY <3>1 DEF IsPrefix
    <3>3. Len(f) # 0
      BY <1>1, KnownParts
    <3>4. IsPrefix(f, e) => f = e
      <4>1. PICK m \in Nat : m = Len(f)
        BY <1>1
      <4>2. m <= 1 => m = 1
        <5>1. m # 0
          BY <3>3, <4>1
        <5>2. \A i \in Nat : i # 0 /\ i <= 1 => i = 1
          OBVIOUS
        <5> QED
          BY <5>1, <5>2
      <4> QED
        BY <1>1, <3>1, <3>2, <4>1, <4>2
    <3>5. IsPrefix(e, e)
      BY <3>1 DEF IsPrefix
    <3> QED
      BY <2>1, <3>1, <3>4, <3>5
  <2>3. ~IsStrictPrefix(q, c)
    <3>1. IsPrefix(q, c) => Len(q) <= 0
      BY <1>4 DEF IsPrefix
    <3>2. Len(q) <= 0 => q = <<>>
      BY <1>2, EmptySeq
    <3> QED
      BY <1>4, <3>1, <3>2 DEF IsStrictPrefix
  <2>4. ASSUME IsPrefix(f, d) PROVE Moves(f, to, d, q, c)
    <3>1. f = d /\ q = <<>>
      BY <1>3, <2>1, <2>2, <2>4
    <3>2. SubSeq(d, Len(f) + 1, Len(d)) = <<>>
      <4>1. PICK m \in Nat : m = Len(f) /\ m = Len(d)
        BY <1>1, <3>1
      <4>2. m < m + 1 /\ m \in Int /\ m + 1 \in Int
        OBVIOUS
      <4>3. SubSeq(d, m + 1, m) = <<>>
        BY <4>2, SubSeqEmpty
      <4> QED
        BY <4>1, <4>3
    <3>3. SubSeq(c, Len(q) + 1, Len(c)) = <<>>
      <4>1. Len(q) = 0 /\ Len(c) = 0
        BY <1>4, <3>1
      <4> QED
        BY <4>1, SubSeqEmpty
    <3>4. to \o <<>> = to
      BY ConcatEmptySeq DEF Text
    <3>5. Meaning(to) \o <<>> = Meaning(to)
      <4>1. Meaning(to) \in Seq(Text)
        BY MeaningTidy DEF Tidy
      <4> QED
        BY <4>1, ConcatEmptySeq
    <3> QED
      BY <3>2, <3>3, <3>4, <3>5 DEF Moves
  <2> QED
    BY <2>2, <2>3, <2>4
<1>5. CASE c # <<>>
  <2>1. ASSUME NEW r \in Seq(Text), r # <<>>, c = q \o r
        PROVE  /\ IsPrefix(f, d) /\ IsStrictPrefix(q, c)
               /\ to # <<>> /\ Rooted(to) /\ Last(to) = Slash => Moves(f, to, d, q, c)
    <3>1. PICK p \in Text : d = f \o p /\ p \o <<Slash>> = Joined(FALSE, r)
      BY <1>2, <2>1, UnderText
    <3>2. IsPrefix(f, d) /\ SubSeq(d, Len(f) + 1, Len(d)) = p
      <4>1. f \in Seq(Char) /\ p \in Seq(Char)
        BY <1>1 DEF Text
      <4>2. IsPrefix(f, f \o p) /\ SubSeq(f \o p, Len(f) + 1, Len(f \o p)) = p
        BY <4>1, PrefixParts
      <4> QED
        BY <3>1, <4>2
    <3>3. IsStrictPrefix(q, c) /\ SubSeq(c, Len(q) + 1, Len(c)) = r
      BY <1>2, <2>1, PrefixParts
    <3>4. ASSUME to # <<>>, Rooted(to), Last(to) = Slash
          PROVE  Meaning(to \o p) = Meaning(to) \o r
      <4>1. Along(Len(to), Meaning(to), to) /\ Meaning(to) \in Seq(Text) /\ Len(to) \in Nat
        BY <3>4, SlashAlong, MeaningTidy
      <4>2. Tidy(TRUE, r)
        BY <1>2, <2>1, TidyRest
      <4>3. Along(Len(to), Meaning(to) \o r, to \o (p \o <<Slash>>))
        BY <3>1, <4>1, <4>2, ReadAlong
      <4>4. (to \o p) \o <<Slash>> = to \o (p \o <<Slash>>)
        BY Specials, Glue3
      <4>5. to \o p \in Text /\ to \o p # <<>>
        BY <3>4, Glue, ConcatEqualIffEmpty DEF Text
      <4> QED
        BY <4>3, <4>4, <4>5, BeforeSlash
    <3>5. Meaning(to \o p) = Meaning(to) \o r => Moves(f, to, d, q, c)
      BY <3>2, <3>3 DEF Moves
    <3> QED
      BY <3>2, <3>3, <3>4, <3>5
  <2>2. ASSUME IsPrefix(f, d) PROVE \E r \in Seq(Text) : r # <<>> /\ c = q \o r
    BY <1>5, <2>2, TextUnder
  <2>3. ASSUME IsStrictPrefix(q, c) PROVE \E r \in Seq(Text) : r # <<>> /\ c = q \o r
    <3>1. PICK r \in Seq(Text) : c = q \o r
      BY <1>2, <2>3, PrefixRest DEF IsStrictPrefix
    <3>2. r # <<>>
      BY <1>2, <2>3, <3>1, ConcatEmptySeq DEF IsStrictPrefix
    <3> QED
      BY <3>1, <3>2
  <2>4. ASSUME f = <<Slash>> PROVE \E r \in Seq(Text) : r # <<>> /\ c = q \o r
    <3>1. q = <<>> /\ <<>> \o c = c
      BY <1>2, <1>3, <2>4, ConcatEmptySeq
    <3> QED
      BY <1>2, <1>5, <3>1
  <2>5. IsPrefix(f, d) <=> IsStrictPrefix(q, c) \/ f = <<Slash>>
    BY <2>1, <2>2, <2>3, <2>4
  <2>6. ASSUME to # <<>>, Rooted(to), Last(to) = Slash, IsPrefix(f, d)
        PROVE  Moves(f, to, d, q, c)
    BY <2>1, <2>2, <2>6
  <2> QED
    BY <2>5, <2>6
<1> QED
  BY <1>4, <1>5

(* Comparing a rule with the name as text finds out whether the name is    *)
(* under the path of the rule, and replacing the text replaces that path.  *)
LEMMA RuleApplies ==
    ASSUME NEW from \in Text, NEW to \in Text, Rooted(from), Rooted(to),
           (Last(from) = Slash) = (Last(to) = Slash),
           from \in {Spell(TRUE, Meaning(from)), Joined(TRUE, Meaning(from))},
           NEW c, Tidy(TRUE, c), dst = Spell(TRUE, c)
    PROVE  /\ Last(from) # Slash => (Matches(from) <=> c = Meaning(from))
           /\ Last(from) = Slash =>
                 (Matches(from) <=> IsStrictPrefix(Meaning(from), c) \/ from = <<Slash>>)
           /\ Matches(from) => Moves(from, to, dst, Meaning(from), c)
<1>1. PICK q : q = Meaning(from)
  OBVIOUS
<1>2. Tidy(TRUE, q) /\ q \in Seq(Text) /\ c \in Seq(Text)
  BY <1>1, MeaningTidy DEF Tidy
<1>3. from # <<>> /\ to # <<>>
  <2>1. ASSUME NEW t \in Text, Rooted(t) PROVE t # <<>>
    <3>1. At(t, 1) # "NUL"
      BY <2>1, Chars DEF Rooted
    <3>2. 1 \in 1 .. Len(t)
      BY <3>1, Within
    <3>3. Len(t) # 0
      BY <3>2
    <3> QED
      BY <3>3, KnownParts
  <2> QED
    BY <2>1
<1>4. dst \in Text /\ Meaning(dst) = c
  BY SpellMeans
<1>5. CASE Last(from) # Slash
  <2>1. from = Spell(TRUE, q)
    <3>1. ASSUME from = Joined(TRUE, q) PROVE FALSE
      <4>1. Len(from) \in Nat /\ (Len(from) = 0 \/ from[Len(from)] = Slash)
        BY <1>2, <3>1, JoinedEnd
      <4>2. Len(from) # 0
        BY <1>3, KnownParts
      <4> QED
        BY <1>5, <4>1, <4>2 DEF Last
    <3> QED
      BY <1>1, <3>1
  <2>2. Matches(from) <=> from = dst
    BY <1>5 DEF Matches
  <2>3. from = dst <=> c = q
    BY <1>1, <1>4, <2>1
  <2>4. ASSUME Matches(from) PROVE Moves(from, to, dst, q, c)
    <3>1. from = dst /\ c = q
      BY <2>2, <2>3, <2>4
    <3>2. SubSeq(dst, Len(from) + 1, Len(dst)) = <<>>
      <4>1. PICK m \in Nat : m = Len(from) /\ m = Len(dst)
        <5>1. Len(from) \in Nat
          BY DEF Text
        <5> QED
          BY <3>1, <5>1
      <4>2. m < m + 1 /\ m \in Int /\ m + 1 \in Int
        OBVIOUS
      <4>3. SubSeq(dst, m + 1, m) = <<>>
        BY <4>2, SubSeqEmpty
      <4> QED
        BY <4>1, <4>3
    <3>3. SubSeq(c, Len(q) + 1, Len(c)) = <<>>
      <4>1. PICK m \in Nat : m = Len(q) /\ m = Len(c)
        BY <1>2, <3>1
      <4>2. m < m + 1 /\ m \in Int /\ m + 1 \in Int
        OBVIOUS
      <4>3. SubSeq(c, m + 1, m) = <<>>
        BY <4>2, SubSeqEmpty
      <4> QED
        BY <4>1, <4>3
    <3>4. to \o <<>> = to
      BY ConcatEmptySeq DEF Text
    <3>5. Meaning(to) \o <<>> = Meaning(to)
      <4>1. Meaning(to) \in Seq(Text)
        BY MeaningTidy DEF Tidy
      <4> QED
        BY <4>1, ConcatEmptySeq
    <3> QED
      BY <3>2, <3>3, <3>4, <3>5 DEF Moves
  <2> QED
    BY <1>1, <1>5, <2>2, <2>3, <2>4
<1>6. CASE Last(from) = Slash
  <2>1. from = Joined(TRUE, q)
    <3>1. CASE from = Spell(TRUE, q) /\ q # <<>>
      BY <1>2, <1>6, <3>1, SpellJoined
    <3>2. CASE from = Spell(TRUE, q) /\ q = <<>>
      BY <3>2, JoinedNone DEF Spell, Base
    <3> QED
      BY <1>1, <3>1, <3>2
  <2>2. IsPrefix(dst, dst)
    BY <1>4 DEF IsPrefix, Text
  <2>3. Matches(from) <=> IsPrefix(from, dst)
    BY <1>6, <2>2 DEF Matches
  <2>4. IsPrefix(from, dst) <=> IsStrictPrefix(q, c) \/ from = <<Slash>>
    BY <1>2, <2>1, DirectoryRule
  <2>5. Last(to) = Slash
    BY <1>6
  <2>6. ASSUME IsPrefix(from, dst) PROVE Moves(from, to, dst, q, c)
    BY <1>2, <1>3, <2>1, <2>5, <2>6, DirectoryRule
  <2> QED
    BY <1>1, <1>6, <2>3, <2>4, <2>6
<1> QED
  BY <1>5, <1>6

(* The rules kept are the rules of the lines read so far, in their order:  *)
(* g gives the line of each.                                               *)
Copied(g) ==
    /\ g \in [1 .. Len(filemap) -> 1 .. line - 1]
    /\ \A i \in 1 .. Len(filemap) :
          filemap[i] = map[g[i]] /\ map[g[i]].kind = "rule"
    /\ \A i, j \in 1 .. Len(filemap) : i < j => g[i] < g[j]
    /\ \A k \in 1 .. line - 1 :
          map[k].kind = "rule" => \E i \in 1 .. Len(filemap) : g[i] = k
ParsedInv ==
    /\ line \in 1 .. Len(map) + 1
    /\ pc # "fatal" =>
          /\ \A k \in 1 .. line - 1 : map[k].kind = "blank" \/ GoodRule(map[k])
          /\ \E g : Copied(g)
    /\ pc \notin {"parse", "fatal"} => line = Len(map) + 1

(* filemap_parse keeps every rule, in the order of the file.               *)
LEMMA ParsedStep ==
    ASSUME BufferInv, ParsedInv, [Next]_vars
    PROVE  ParsedInv'
<1>0. /\ Len(map) \in Nat /\ DOMAIN map = 1 .. Len(map) /\ line \in 1 .. Len(map) + 1
      /\ line \in Nat /\ Len(filemap) \in Nat
      /\ filemap = [i \in 1 .. Len(filemap) |-> filemap[i]]
  BY MapAssumption DEF BufferInv, Types, Rules, ParsedInv
<1>1. CASE UNCHANGED <<map, line, filemap>> /\ pc # "fatal" /\ pc' # "fatal"
              /\ (pc = "parse" => pc' = "parse" \/ line = Len(map) + 1)
  <2>1. \A g : Copied(g) => Copied(g)'
    BY <1>1 DEF Copied
  <2>2. /\ line' \in 1 .. Len(map') + 1
        /\ \A k \in 1 .. line' - 1 : map'[k].kind = "blank" \/ GoodRule(map'[k])
    BY <1>1 DEF ParsedInv
  <2>3. \E g : Copied(g)'
    BY <1>1, <2>1 DEF ParsedInv
  <2>4. pc' \notin {"parse", "fatal"} => line' = Len(map') + 1
    BY <1>1 DEF ParsedInv
  <2> QED
    BY <1>1, <2>2, <2>3, <2>4 DEF ParsedInv
<1>2. CASE pc' = "fatal"
  <2>1. UNCHANGED <<map, line>>
    BY <1>2 DEF Next, Parse, Normalise, ParseLine, ParseBad, ParseDone, MapNone, MapRule,
                NextCall, Ended, StartAbsolute, StartPlain, StartRelative, StartTooLong,
                SkipSlash, SkipDot, KeepUp, GoUp, CopyName, NormaliseDone, Fail,
                parsed, vars
  <2> QED
    BY <1>0, <1>2, <2>1 DEF ParsedInv
<1>3. CASE ParseLine
  <2>1. /\ pc = "parse" /\ pc' = "parse" /\ line <= Len(map) /\ map' = map
        /\ line' = line + 1 /\ line' \in 1 .. Len(map) + 1
        /\ map[line].kind = "blank" \/ GoodRule(map[line])
    BY <1>0, <1>3 DEF ParseLine
  <2>2. PICK n \in Nat : n = Len(filemap)
    BY <1>0
  <2>3. PICK g : Copied(g)
    BY <2>1 DEF ParsedInv
  <2>4. PICK l \in Nat : l = line /\ l >= 1 /\ line' = l + 1 /\ line' - 1 = l
    BY <1>0, <2>1
  <2>5. /\ g \in [1 .. n -> 1 .. l - 1]
        /\ \A i \in 1 .. n : filemap[i] = map[g[i]] /\ map[g[i]].kind = "rule"
        /\ \A i, j \in 1 .. n : i < j => g[i] < g[j]
        /\ \A k \in 1 .. l - 1 : map[k].kind = "rule" => \E i \in 1 .. n : g[i] = k
    BY <2>2, <2>3, <2>4 DEF Copied
  <2>6. \A k \in 1 .. l : k = l \/ k \in 1 .. l - 1
    BY <2>4
  <2>7. \A k \in 1 .. l : map[k].kind = "blank" \/ GoodRule(map[k])
    <3>1. \A k \in 1 .. l - 1 : map[k].kind = "blank" \/ GoodRule(map[k])
      BY <2>1, <2>4 DEF ParsedInv
    <3> QED
      BY <2>1, <2>4, <2>6, <3>1
  <2>8. \A i \in 1 .. n : g[i] \in 1 .. l - 1 /\ g[i] \in 1 .. l /\ g[i] < l /\ g[i] \in Nat
    BY <2>4, <2>5
  <2>9. CASE map[line].kind = "blank"
    <3>1. filemap' = filemap /\ map[l].kind # "rule"
      BY <1>3, <2>4, <2>9 DEF ParseLine
    <3>2. g \in [1 .. n -> 1 .. l]
      BY <2>5, <2>8
    <3>3. \A k \in 1 .. l : map[k].kind = "rule" => \E i \in 1 .. n : g[i] = k
      BY <2>5, <2>6, <3>1
    <3>4. Copied(g)'
      BY <2>1, <2>2, <2>4, <2>5, <3>1, <3>2, <3>3 DEF Copied
    <3> QED
      BY <2>1, <2>4, <2>7, <3>4 DEF ParsedInv
  <2>10. CASE map[line].kind # "blank"
    <3>1. PICK r : r = map[l]
      OBVIOUS
    <3>2. filemap' = Append(filemap, r) /\ r.kind = "rule"
      BY <1>3, <2>1, <2>4, <2>10, <3>1 DEF ParseLine, GoodRule
    <3>3. PICK T : T = {filemap[i] : i \in 1 .. n} \cup {r}
      OBVIOUS
    <3>4. filemap \in Seq(T) /\ r \in T
      <4>1. filemap \in [1 .. n -> T]
        BY <1>0, <2>2, <3>3
      <4> QED
        BY <3>3, <4>1
    <3>5. /\ Len(filemap') = n + 1 /\ filemap'[n + 1] = r
          /\ \A i \in 1 .. n : filemap'[i] = filemap[i]
      BY <2>2, <3>2, <3>4, OneMore
    <3>6. PICK h : h = [i \in 1 .. n + 1 |-> IF i = n + 1 THEN l ELSE g[i]]
      OBVIOUS
    <3>7. h[n + 1] = l /\ \A i \in 1 .. n : h[i] = g[i]
      BY <3>6
    <3>8. \A i \in 1 .. n + 1 : i = n + 1 \/ i \in 1 .. n
      OBVIOUS
    <3>9. h \in [1 .. n + 1 -> 1 .. l]
      BY <2>4, <2>8, <3>6, <3>8
    <3>10. ASSUME NEW i \in 1 .. n + 1
           PROVE  filemap'[i] = map[h[i]] /\ map[h[i]].kind = "rule"
      BY <2>5, <3>1, <3>2, <3>5, <3>7, <3>8
    <3>11. ASSUME NEW i \in 1 .. n + 1, NEW j \in 1 .. n + 1, i < j PROVE h[i] < h[j]
      <4>1. i \in 1 .. n
        BY <3>11
      <4>2. CASE j = n + 1
        BY <2>8, <3>7, <4>1, <4>2
      <4>3. CASE j \in 1 .. n
        BY <2>5, <3>7, <3>11, <4>1, <4>3
      <4> QED
        BY <3>8, <4>2, <4>3
    <3>12. ASSUME NEW k \in 1 .. l, map[k].kind = "rule"
           PROVE  \E i \in 1 .. n + 1 : h[i] = k
      <4>1. CASE k = l
        BY <3>7, <4>1
      <4>2. CASE k \in 1 .. l - 1
        <5>1. PICK i \in 1 .. n : g[i] = k
          BY <2>5, <3>12, <4>2
        <5>2. i \in 1 .. n + 1 /\ h[i] = k
          BY <3>7, <5>1
        <5> QED
          BY <5>2
      <4> QED
        BY <2>6, <4>1, <4>2
    <3>13. Copied(h)'
      BY <2>1, <2>4, <3>5, <3>9, <3>10, <3>11, <3>12 DEF Copied
    <3> QED
      BY <2>1, <2>4, <2>7, <3>13 DEF ParsedInv
  <2> QED
    BY <2>9, <2>10
<1>4. CASE ParseDone
  <2>1. line = Len(map) + 1
    BY <1>0, <1>4 DEF ParseDone
  <2> QED
    BY <1>1, <1>4, <2>1 DEF ParseDone, parsed
<1>5. CASE Normalise \/ MapNone \/ MapRule \/ NextCall
  <2>1. /\ UNCHANGED <<map, line, filemap>> /\ pc \notin {"parse", "fatal"}
        /\ pc' # "fatal"
    <3>1. UNCHANGED parsed
      BY <1>5 DEF Normalise, MapNone, MapRule, NextCall, StartAbsolute, StartPlain,
                  StartRelative, StartTooLong, SkipSlash, SkipDot, KeepUp, GoUp, CopyName,
                  NormaliseDone, Fail
    <3>2. pc \notin {"parse", "fatal"} /\ pc' # "fatal"
      BY <1>5 DEF Normalise, MapNone, MapRule, NextCall, StartAbsolute, StartPlain,
                  StartRelative, StartTooLong, SkipSlash, SkipDot, KeepUp, GoUp, CopyName,
                  NormaliseDone, Fail
    <3> QED
      BY <3>1, <3>2 DEF parsed
  <2> QED
    BY <1>1, <2>1
<1>6. CASE ParseBad
  BY <1>2, <1>6 DEF ParseBad
<1>7. CASE UNCHANGED vars
  <2>1. UNCHANGED <<map, line, filemap>> /\ pc' = pc
    BY <1>7 DEF vars
  <2> QED
    BY <1>1, <1>2, <2>1
<1> QED
  BY <1>3, <1>4, <1>5, <1>6, <1>7 DEF Next, Parse, Ended

(* The first rule that matches is the one of the first line that applies.  *)
LEMMA FirstRule ==
    ASSUME BufferInv, ParsedInv, pc = "map", NEW c,
           \A k \in 1 .. Len(map) :
               map[k].kind = "rule" => (Matches(map[k].from) <=> Under(map[k], c))
    PROVE  /\ Matching = {} <=> Applies(c) = {}
           /\ Matching # {} =>
                 \E k \in Matching, i \in Applies(c) :
                     /\ k = CHOOSE x \in Matching : \A y \in Matching : x <= y
                     /\ i = CHOOSE x \in Applies(c) : \A y \in Applies(c) : x <= y
                     /\ filemap[k] = map[i] /\ Matches(map[i].from)
                     /\ map[i].kind = "rule" /\ i \in 1 .. Len(map)
<1>1. PICK n, l : n = Len(filemap) /\ l = Len(map)
  OBVIOUS
<1>2. n \in Nat /\ l \in Nat /\ DOMAIN filemap = 1 .. n /\ DOMAIN map = 1 .. l /\ line - 1 = l
  <2>1. n \in Nat /\ DOMAIN filemap = 1 .. n
    BY <1>1 DEF BufferInv, Rules
  <2>2. l \in Nat /\ DOMAIN map = 1 .. l
    BY <1>1, MapAssumption DEF BufferInv, Types
  <2>3. line = l + 1
    BY <1>1 DEF ParsedInv
  <2> QED
    BY <2>1, <2>2, <2>3
<1>3. PICK g : Copied(g)
  BY DEF ParsedInv
<1>4. /\ g \in [1 .. n -> 1 .. l]
      /\ \A i \in 1 .. n : filemap[i] = map[g[i]] /\ map[g[i]].kind = "rule"
      /\ \A i, j \in 1 .. n : i < j => g[i] < g[j]
      /\ \A k \in 1 .. l : map[k].kind = "rule" => \E i \in 1 .. n : g[i] = k
  BY <1>1, <1>2, <1>3 DEF Copied
<1>5. PICK M, A : M = Matching /\ A = Applies(c)
  OBVIOUS
<1>6. M = {i \in 1 .. n : Matches(filemap[i].from)}
  BY <1>2, <1>5 DEF Matching
<1>7. A = {i \in 1 .. l : map[i].kind = "rule" /\ Under(map[i], c)}
  BY <1>2, <1>5 DEF Applies
<1>8. \A k \in 1 .. l : map[k].kind = "rule" => (Matches(map[k].from) <=> Under(map[k], c))
  BY <1>1
<1>9. \A i \in M : i \in 1 .. n /\ g[i] \in A /\ g[i] \in 1 .. l /\ Matches(map[g[i]].from)
  <2>1. ASSUME NEW i \in M
        PROVE  i \in 1 .. n /\ g[i] \in A /\ g[i] \in 1 .. l /\ Matches(map[g[i]].from)
    <3>1. i \in 1 .. n /\ Matches(filemap[i].from)
      BY <1>6
    <3>2. g[i] \in 1 .. l /\ filemap[i] = map[g[i]] /\ map[g[i]].kind = "rule"
      BY <1>4, <3>1
    <3>3. Matches(map[g[i]].from)
      BY <3>1, <3>2
    <3> QED
      BY <1>7, <1>8, <3>1, <3>2, <3>3
  <2> QED
    BY <2>1
<1>10. \A a \in A : a \in 1 .. l /\ \E i \in M : g[i] = a
  <2>1. ASSUME NEW a \in A PROVE a \in 1 .. l /\ \E i \in M : g[i] = a
    <3>1. a \in 1 .. l /\ map[a].kind = "rule" /\ Under(map[a], c)
      BY <1>7
    <3>2. PICK i \in 1 .. n : g[i] = a
      BY <1>4, <3>1
    <3>3. Matches(filemap[i].from)
      <4>1. Matches(map[a].from)
        BY <1>8, <3>1
      <4>2. filemap[i] = map[a]
        BY <1>4, <3>2
      <4> QED
        BY <4>1, <4>2
    <3> QED
      BY <1>6, <3>1, <3>2, <3>3
  <2> QED
    BY <2>1
<1>11. M = {} <=> A = {}
  BY <1>9, <1>10
<1>12. ASSUME M # {}
       PROVE  \E k \in M, i \in A :
                     /\ k = CHOOSE x \in M : \A y \in M : x <= y
                     /\ i = CHOOSE x \in A : \A y \in A : x <= y
                     /\ filemap[k] = map[i] /\ Matches(map[i].from)
                     /\ map[i].kind = "rule" /\ i \in 1 .. l
  <2>1. M \in SUBSET Nat /\ A \in SUBSET Nat /\ A # {}
    BY <1>2, <1>9, <1>10, <1>11, <1>12
  <2>2. (\E x \in M : \A y \in M : x <= y) /\ (\E x \in A : \A y \in A : x <= y)
    BY <1>12, <2>1, Least
  <2>3. PICK k, a : /\ k = (CHOOSE x \in M : \A y \in M : x <= y)
                    /\ a = (CHOOSE x \in A : \A y \in A : x <= y)
    OBVIOUS
  <2>4. k \in M /\ \A y \in M : k <= y
    BY <2>2, <2>3
  <2>5. a \in A /\ \A y \in A : a <= y
    BY <2>2, <2>3
  <2>6. PICK i \in M : g[i] = a
    BY <1>10, <2>5
  <2>7. g[k] \in A /\ a <= g[k] /\ k <= i
    BY <1>9, <2>4, <2>5, <2>6
  <2>8. g[k] = a
    <3>1. k \in 1 .. n /\ i \in 1 .. n /\ g[k] \in 1 .. l /\ a \in 1 .. l
      BY <1>9, <1>10, <2>4, <2>5
    <3>2. CASE k = i
      BY <2>6, <3>2
    <3>3. CASE k < i
      <4>1. g[k] < a
        BY <1>4, <2>6, <3>1, <3>3
      <4> QED
        BY <1>2, <2>7, <3>1, <4>1
    <3> QED
      BY <1>2, <2>7, <3>1, <3>2, <3>3
  <2>9. filemap[k] = map[a] /\ Matches(map[a].from) /\ map[a].kind = "rule" /\ a \in 1 .. l
    BY <1>4, <1>9, <2>4, <2>8
  <2> QED
    BY <2>3, <2>4, <2>5, <2>9
<1> QED
  BY <1>1, <1>5, <1>11, <1>12

(* What makes the name used the right one: it is normal and absolute when  *)
(* the rules are looked at.                                                *)
RewriteInv ==
    /\ pc = "map" => is_abs
    /\ Rewritten

(* The name that the rules see.                                            *)
LEMMA NameAtMap ==
    ASSUME BufferInv, NormalInv, RewriteInv, pc = "map", NEW c, c = Meaning(Absolute(name))
    PROVE  Tidy(TRUE, c) /\ dst = Spell(TRUE, c)
<1>1. is_abs /\ cwd \in Cwds /\ name \in Text /\ cwd \in Text
  BY DEF RewriteInv, NormalInv, BufferInv, Types
<1>2. PICK w : w = Absolute(name)
  OBVIOUS
<1>3. w \in Text /\ Rooted(w)
  <2>1. CASE At(name, 1) = Slash
    BY <1>1, <1>2, <2>1 DEF Absolute, Rooted
  <2>2. CASE At(name, 1) # Slash
    <3>1. w = cwd \o <<Slash>> \o name
      BY <1>1, <1>2, <2>2 DEF Absolute
    <3>2. Rooted(cwd) /\ cwd # <<>>
      <4>1. Rooted(cwd)
        BY <1>1, CwdAssumption DEF Rooted
      <4>2. 1 \in 1 .. Len(cwd)
        BY <1>1, <4>1, Chars, Within DEF Rooted
      <4>3. Len(cwd) # 0
        BY <4>2
      <4> QED
        BY <1>1, <4>1, <4>3, KnownParts
    <3> QED
      BY <1>1, <3>1, <3>2, ReadJoint
  <2> QED
    BY <2>1, <2>2
<1>4. Tidy(Rooted(w), Meaning(w))
  BY <1>3, MeaningTidy
<1>5. dst = Spell(Rooted(w), Meaning(w))
  BY <1>2 DEF NormalInv, Normalised
<1> QED
  BY <1>2, <1>3, <1>4, <1>5

(* Every accepted line is compared and applied by what it means.           *)
LEMMA RuleAtMap ==
    ASSUME NormalRules, BufferInv, NormalInv, RewriteInv, ParsedInv, pc = "map",
           NEW c, c = Meaning(Absolute(name)),
           NEW k \in 1 .. Len(map), map[k].kind = "rule"
    PROVE  /\ Matches(map[k].from) <=> Under(map[k], c)
           /\ Matches(map[k].from) =>
                 Moves(map[k].from, map[k].to, dst, Meaning(map[k].from), c)
<1>1. Tidy(TRUE, c) /\ dst = Spell(TRUE, c)
  BY NameAtMap
<1>2. map \in Maps /\ k \in DOMAIN map /\ Len(map) \in Nat
  BY MapAssumption DEF BufferInv, Types
<1>3. GoodRule(map[k])
  <2>1. line = Len(map) + 1
    BY DEF ParsedInv
  <2>2. k \in 1 .. line - 1
    BY <1>2, <2>1
  <2>3. map[k].kind = "blank" \/ GoodRule(map[k])
    BY <2>2 DEF ParsedInv
  <2> QED
    BY <2>3
<1>4. PICK from, to : from = map[k].from /\ to = map[k].to
  OBVIOUS
<1>5. from \in Text /\ to \in Text
  BY <1>2, <1>4, MapAssumption
<1>6. Rooted(from) /\ Rooted(to) /\ (Last(from) = Slash) = (Last(to) = Slash)
  BY <1>3, <1>4 DEF GoodRule, Rooted
<1>7. from \in {Spell(TRUE, Meaning(from)), Joined(TRUE, Meaning(from))}
  BY <1>2, <1>3, <1>4 DEF NormalRules
<1>8. /\ Last(from) # Slash => (Matches(from) <=> c = Meaning(from))
      /\ Last(from) = Slash =>
            (Matches(from) <=> IsStrictPrefix(Meaning(from), c) \/ from = <<Slash>>)
      /\ Matches(from) => Moves(from, to, dst, Meaning(from), c)
  BY <1>1, <1>5, <1>6, <1>7, RuleApplies
<1>9. Under(map[k], c) <=>
          IF Last(from) # Slash THEN c = Meaning(from)
          ELSE IsStrictPrefix(Meaning(from), c) \/ from = <<Slash>>
  BY <1>4 DEF Under
<1> QED
  BY <1>4, <1>8, <1>9

(* The rules make of the name what they should.                            *)
LEMMA RewriteStep ==
    ASSUME NormalRules, BufferInv, NormalInv, ParsedInv, RewriteInv, [Next]_vars
    PROVE  RewriteInv'
<1>1. CASE UNCHANGED vars
  BY <1>1 DEF vars, RewriteInv, Rewritten, Applies, Absolute
<1>2. ASSUME pc' # "map", ~(pc' = "used" /\ ret' = "ok") PROVE RewriteInv'
  BY <1>2 DEF RewriteInv, Rewritten
<1>3. CASE Parse \/ NextCall
  <2>1. pc' \notin {"map", "used"}
    BY <1>3 DEF Parse, ParseLine, ParseBad, ParseDone, NextCall
  <2> QED
    BY <1>2, <2>1
<1>4. CASE Normalise /\ ~NormaliseDone
  <2>1. pc' # "map" /\ ~(pc' = "used" /\ ret' = "ok")
    BY <1>4 DEF Normalise, StartAbsolute, StartPlain, StartRelative, StartTooLong,
                SkipSlash, SkipDot, KeepUp, GoUp, CopyName, Fail
  <2> QED
    BY <1>2, <2>1
<1>5. CASE NormaliseDone
  <2>1. pc' # "used" /\ is_abs' = is_abs /\ (pc' = "map" => is_abs)
    BY <1>5 DEF NormaliseDone, call
  <2> QED
    BY <2>1 DEF RewriteInv, Rewritten
<1>6. ASSUME pc = "map", pc' = "used", UNCHANGED <<parsed, call, ret>>
      PROVE  /\ map' = map /\ Absolute(name)' = Absolute(name)
             /\ \A c : Applies(c)' = Applies(c)
  <2>1. map' = map /\ Absolute(name)' = Absolute(name)
    BY <1>6, SameName DEF parsed
  <2> QED
    BY <2>1 DEF Applies
<1>7. PICK c : c = Meaning(Absolute(name))
  OBVIOUS
<1>8. ASSUME pc = "map"
      PROVE  /\ Tidy(TRUE, c) /\ dst = Spell(TRUE, c)
             /\ \A k \in 1 .. Len(map) : map[k].kind = "rule" =>
                   /\ Matches(map[k].from) <=> Under(map[k], c)
                   /\ Matches(map[k].from) =>
                         Moves(map[k].from, map[k].to, dst, Meaning(map[k].from), c)
  BY <1>7, <1>8, NameAtMap, RuleAtMap
<1>9. CASE MapNone
  <2>1. pc = "map" /\ Matching = {} /\ pc' = "used" /\ dst' = dst /\ UNCHANGED <<parsed, call, ret>>
    BY <1>9 DEF MapNone
  <2>2. Applies(c) = {}
    BY <1>8, <2>1, FirstRule
  <2>3. (Meaning(Absolute(name)))' = c /\ Applies(c)' = {} /\ dst' = Spell(TRUE, c)
    BY <1>6, <1>7, <1>8, <2>1, <2>2
  <2> QED
    BY <2>1, <2>3 DEF RewriteInv, Rewritten
<1>10. CASE MapRule
  <2>1. pc = "map" /\ Matching # {} /\ pc' = "used"
    BY <1>10 DEF MapRule, Fail
  <2>2. CASE ret' # "ok"
    BY <1>2, <2>1, <2>2
  <2>3. CASE ret' = "ok"
    <3>1. PICK k \in Matching, i \in Applies(c) :
              /\ k = CHOOSE x \in Matching : \A y \in Matching : x <= y
              /\ i = CHOOSE x \in Applies(c) : \A y \in Applies(c) : x <= y
              /\ filemap[k] = map[i] /\ Matches(map[i].from)
              /\ map[i].kind = "rule" /\ i \in 1 .. Len(map)
      BY <1>8, <2>1, FirstRule
    <3>2. /\ UNCHANGED <<parsed, call, ret>>
          /\ dst' = map[i].to \o SubSeq(dst, Len(map[i].from) + 1, Len(dst))
      <4>1. PICK r : r = filemap[k]
        OBVIOUS
      <4>2. /\ UNCHANGED <<parsed, call, ret>>
            /\ dst' = r.to \o SubSeq(dst, Len(r.from) + 1, Len(dst))
        BY <1>10, <2>3, <3>1, <4>1 DEF MapRule, Fail
      <4> QED
        BY <3>1, <4>1, <4>2
    <3>3. Moves(map[i].from, map[i].to, dst, Meaning(map[i].from), c)
      BY <1>8, <2>1, <3>1
    <3>4. Meaning(dst') = Meaning(map[i].to) \o
              SubSeq(c, Len(Meaning(map[i].from)) + 1, Len(c))
      BY <3>2, <3>3 DEF Moves
    <3>5. map' = map /\ (Meaning(Absolute(name)))' = c /\ Applies(c)' = Applies(c)
      BY <1>6, <1>7, <2>1, <3>2
    <3>6. Applies(c)' # {} /\ i = CHOOSE x \in Applies(c)' : \A y \in Applies(c)' : x <= y
      BY <3>1, <3>5
    <3> QED
      BY <2>1, <3>4, <3>5, <3>6 DEF RewriteInv, Rewritten
  <2> QED
    BY <2>2, <2>3
<1> QED
  BY <1>1, <1>3, <1>4, <1>5, <1>9, <1>10 DEF Next, Ended

(* The name every redirected call uses is what the first rule, in the      *)
(* order of the map file, makes of the program's name, for every map file  *)
(* that spells its paths normally, and a name without a rule is used as it *)
(* is (filemap_parse, normalise_path and filemap_map, ibcs/filemap.c).     *)
THEOREM RewrittenAlways ==
    ASSUME NormalCwds, NormalRules
    PROVE  Spec => []Rewritten
<1>1. Init => NormalInv /\ ParsedInv /\ RewriteInv
  <2> SUFFICES ASSUME Init PROVE NormalInv /\ ParsedInv /\ RewriteInv
    OBVIOUS
  <2>1. NormalInv
    BY IsAbsAssumption DEF Init, NormalInv, Normalised
  <2>2. ParsedInv
    <3>1. Len(map) \in Nat /\ line = 1 /\ pc = "parse" /\ filemap = <<>> /\ Len(filemap) = 0
      BY MapAssumption DEF Init
    <3>2. line \in 1 .. Len(map) + 1 /\ 1 .. line - 1 = {} /\ 1 .. Len(filemap) = {}
      BY <3>1
    <3>3. PICK g : g \in [1 .. Len(filemap) -> 1 .. line - 1]
      <4>1. [i \in {} |-> 0] \in [{} -> {}]
        OBVIOUS
      <4> QED
        BY <3>2, <4>1
    <3>4. Copied(g)
      BY <3>2, <3>3 DEF Copied
    <3> QED
      BY <3>1, <3>2, <3>4 DEF ParsedInv
  <2>3. RewriteInv
    BY DEF Init, RewriteInv, Rewritten
  <2> QED
    BY <2>1, <2>2, <2>3
<1>2. /\ NormalInv /\ ParsedInv /\ RewriteInv /\ BufferInv /\ [Next]_vars
      => NormalInv' /\ ParsedInv' /\ RewriteInv'
  BY NormalStep, ParsedStep, RewriteStep
<1>3. RewriteInv => Rewritten
  BY DEF RewriteInv
<1> QED
  BY <1>1, <1>2, <1>3, BufferAlways, PTL DEF Spec
=============================================================================
