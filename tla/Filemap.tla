------------------------------- MODULE Filemap -------------------------------
(***************************************************************************)
(* The --map option, ibcs/filemap.c: the rules are read once, and every    *)
(* file name the program uses is made absolute and normal, then rewritten  *)
(* by the first rule that matches.  The callers in linux26-compat.c use    *)
(* what is in the buffer, whatever filemap_map returned.                   *)
(*                                                                         *)
(* Names are sequences of characters, because what can go wrong is in the  *)
(* characters: the code edits one buffer in place.  The NUL at the end is  *)
(* left out, so a buffer of size bytes has room for size - 1 characters.   *)
(***************************************************************************)
EXTENDS Integers, Sequences, SequencesExt, FiniteSets

CONSTANTS
    Maps,       \* the map files: sequences of lines
    Cwds,       \* the working directories
    Names,      \* the names the program uses
    DstSizes,   \* sizes of the callers' buffers (PATH_MAX)
    IsAbs       \* how normalise_path is called: filemap_map wants an
                \* absolute name, the unit tests of filemap.c either

Slash == "/"
Dot == "."
At(s, i) == IF i \in DOMAIN s THEN s[i] ELSE "NUL"

(* Names and paths are sequences of characters other than NUL.             *)
Char == ({Slash, Dot} \cup STRING) \ {"NUL"}
Text == Seq(Char)

(* A line of a map file: blank or a comment, one that does not parse, or a *)
(* rule.                                                                   *)
ASSUME MapAssumption ==
    \A m \in Maps :
        /\ Len(m) \in Nat /\ DOMAIN m = 1 .. Len(m)
        /\ \A i \in DOMAIN m :
              /\ m[i].kind \in {"blank", "bad", "rule"}
              /\ m[i].kind = "rule" => m[i].from \in Text /\ m[i].to \in Text
ASSUME NameAssumption == \A n \in Names : n \in Text
ASSUME CwdAssumption == \A c \in Cwds : c \in Text /\ At(c, 1) = Slash
ASSUME IsAbsAssumption == IsAbs \subseteq BOOLEAN
ASSUME SizeAssumption == \A n \in DstSizes : n \in Nat /\ n >= 2

VARIABLES
    pc,         \* where filemap_parse, normalise_path or filemap_map is
    map,        \* the map file
    line,       \* the next line of it
    filemap,    \* the rules read so far
    cwd, name, dst_size, is_abs,    \* of the call in progress
    s,          \* what is left of name
    dst,        \* the buffer, up to d
    ret         \* "ok", or the error of normalise_path or filemap_map

vars == <<pc, map, line, filemap, cwd, name, dst_size, is_abs, s, dst, ret>>
parsed == <<map, line, filemap>>
call == <<cwd, name, dst_size, is_abs>>

Init ==
    /\ pc = "parse" /\ map \in Maps /\ line = 1 /\ filemap = <<>>
    /\ cwd \in Cwds /\ name \in Names /\ dst_size \in DstSizes
    /\ is_abs \in IsAbs
    /\ s = <<>> /\ dst = <<>> /\ ret = "ok"
-----------------------------------------------------------------------------
(* filemap_parse.  Both paths of a rule are absolute, and either both end  *)
(* in a slash or neither does.  A bad line is the end of the process.      *)
GoodRule(l) ==
    /\ l.kind = "rule"
    /\ At(l.from, 1) = Slash /\ At(l.to, 1) = Slash
    /\ (Last(l.from) = Slash) = (Last(l.to) = Slash)

(* Mutant: a rule is put in front of the others.                           *)
ParseLineFront ==
    /\ pc = "parse" /\ line <= Len(map)
    /\ map[line].kind = "blank" \/ GoodRule(map[line])
    /\ line' = line + 1
    /\ filemap' = IF map[line].kind = "blank" THEN filemap
                  ELSE <<map[line]>> \o filemap
    /\ UNCHANGED <<pc, map, call, s, dst, ret>>

ParseLine ==
    /\ pc = "parse" /\ line <= Len(map)
    /\ map[line].kind = "blank" \/ GoodRule(map[line])
    /\ line' = line + 1
    /\ filemap' = IF map[line].kind = "blank" THEN filemap
                  ELSE Append(filemap, map[line])
    /\ UNCHANGED <<pc, map, call, s, dst, ret>>

ParseBad ==
    /\ pc = "parse" /\ line <= Len(map)
    /\ map[line].kind # "blank" /\ ~GoodRule(map[line])
    /\ pc' = "fatal" /\ filemap' = <<>>
    /\ UNCHANGED <<map, line, call, s, dst, ret>>

ParseDone ==
    /\ pc = "parse" /\ line > Len(map)
    /\ pc' = "start"
    /\ UNCHANGED <<parsed, call, s, dst, ret>>
-----------------------------------------------------------------------------
(* normalise_path.                                                         *)
Fail(e) == pc' = "used" /\ ret' = e /\ UNCHANGED <<parsed, call, s>>
Skip(n) == SubSeq(s, n + 1, Len(s))

(* An absolute name, a relative one that may stay so, or the current       *)
(* directory and a slash.                                                  *)
StartAbsolute ==
    /\ pc = "start" /\ At(name, 1) = Slash
    /\ pc' = "loop"
    /\ dst' = <<Slash>> /\ s' = Tail(name)
    /\ UNCHANGED <<parsed, call, ret>>

StartPlain ==
    /\ pc = "start" /\ At(name, 1) # Slash /\ ~is_abs
    /\ pc' = "loop"
    /\ dst' = <<>> /\ s' = name
    /\ UNCHANGED <<parsed, call, ret>>

StartRelative ==
    /\ pc = "start" /\ At(name, 1) # Slash /\ is_abs
    /\ Len(cwd) + 2 < dst_size
    /\ pc' = "loop"
    /\ dst' = Append(cwd, Slash) /\ s' = name
    /\ UNCHANGED <<parsed, call, ret>>

(* getcwd() finds the buffer too small, or there is no room for the slash. *)
StartTooLong ==
    /\ pc = "start" /\ At(name, 1) # Slash /\ is_abs
    /\ Len(cwd) + 2 >= dst_size
    /\ Fail(IF Len(cwd) >= dst_size THEN "ERANGE" ELSE "ENAMETOOLONG")
    /\ dst' = IF Len(cwd) >= dst_size THEN <<>> ELSE cwd

IsDot == s[1] = Dot /\ At(s, 2) \in {Slash, "NUL"}
IsDotDot == s[1] = Dot /\ At(s, 2) = Dot /\ At(s, 3) \in {Slash, "NUL"}

SkipSlash ==
    /\ pc = "loop" /\ At(s, 1) = Slash
    /\ s' = Skip(1)
    /\ UNCHANGED <<pc, parsed, call, dst, ret>>

SkipDot ==
    /\ pc = "loop" /\ s # <<>> /\ IsDot
    /\ s' = Skip(IF At(s, 2) = Slash THEN 2 ELSE 1)
    /\ UNCHANGED <<pc, parsed, call, dst, ret>>

(* The last component of dst is "..", which cannot be undone.              *)
EndsInUp ==
    LET n == Len(dst)
    IN  /\ n >= 3 /\ dst[n - 1] = Dot /\ dst[n - 2] = Dot
        /\ At(dst, n - 3) \in {Slash, "NUL"}

(* Mutant: the loop stops one character too late.                          *)
EraseNameSlash ==
    LET ends == {i \in 0 .. Len(dst) - 1 : i = 0 \/ dst[i] = Slash}
        last == CHOOSE i \in ends : \A j \in ends : j <= i
    IN  SubSeq(dst, 1, IF last > 0 THEN last - 1 ELSE last)

(* d goes back to just behind the slash before the last component.         *)
EraseName ==
    LET ends == {i \in 0 .. Len(dst) - 1 : i = 0 \/ dst[i] = Slash}
        last == CHOOSE i \in ends : \A j \in ends : j <= i
    IN  SubSeq(dst, 1, last)

KeepUp ==
    /\ pc = "loop" /\ s # <<>> /\ IsDotDot
    /\ dst = <<>> \/ EndsInUp
    /\ IF Len(dst) + 3 >= dst_size THEN Fail("ENAMETOOLONG") /\ UNCHANGED dst
       ELSE /\ dst' = dst \o (IF At(s, 3) = Slash THEN <<Dot, Dot, Slash>>
                                                  ELSE <<Dot, Dot>>)
            /\ s' = Skip(IF At(s, 3) = Slash THEN 3 ELSE 2)
            /\ UNCHANGED <<pc, parsed, call, ret>>

GoUp ==
    /\ pc = "loop" /\ s # <<>> /\ IsDotDot
    /\ dst # <<>> /\ ~EndsInUp
    /\ dst' = IF Len(dst) # 1 THEN EraseName ELSE dst
    /\ s' = Skip(IF At(s, 3) = Slash THEN 3 ELSE 2)
    /\ UNCHANGED <<pc, parsed, call, ret>>

(* The next component, with its slash if it has one.                       *)
Component ==
    LET slashes == {i \in DOMAIN s : s[i] = Slash}
    IN  IF slashes = {} THEN s
        ELSE SubSeq(s, 1, CHOOSE i \in slashes : \A j \in slashes : i <= j)

(* Mutant: the NUL is forgotten.                                           *)
CopyNameNoNul ==
    /\ pc = "loop" /\ s # <<>> /\ s[1] # Slash /\ ~IsDot /\ ~IsDotDot
    /\ IF Len(dst \o Component) > dst_size
       THEN /\ Fail("ENAMETOOLONG")
            /\ dst' = SubSeq(dst \o Component, 1, dst_size)
       ELSE /\ dst' = dst \o Component
            /\ s' = Skip(Len(Component))
            /\ UNCHANGED <<pc, parsed, call, ret>>

CopyName ==
    /\ pc = "loop" /\ s # <<>> /\ s[1] # Slash /\ ~IsDot /\ ~IsDotDot
    /\ IF Len(dst \o Component) >= dst_size
       THEN /\ Fail("ENAMETOOLONG")
            /\ dst' = SubSeq(dst \o Component, 1, dst_size)
       ELSE /\ dst' = dst \o Component
            /\ s' = Skip(Len(Component))
            /\ UNCHANGED <<pc, parsed, call, ret>>

(* An empty result is ".", a trailing slash goes unless it is the root.    *)
NormaliseDone ==
    /\ pc = "loop" /\ s = <<>>
    /\ pc' = IF is_abs THEN "map" ELSE "normal"
    /\ dst' = IF dst = <<>> THEN <<Dot>>
              ELSE IF Len(dst) # 1 /\ Last(dst) = Slash THEN Front(dst) ELSE dst
    /\ UNCHANGED <<parsed, call, s, ret>>
-----------------------------------------------------------------------------
(* filemap_map.  The comparison of a rule with the name stops at the first *)
(* difference or at the end of the rule.                                   *)

(* Mutant: every rule matches as a prefix.                                 *)
MatchesPrefix(from) == IsPrefix(from, dst)

Matches(from) == \/ from = dst
                 \/ IsPrefix(from, dst) /\ Last(from) = Slash
Matching == {i \in DOMAIN filemap : Matches(filemap[i].from)}

MapNone ==
    /\ pc = "map" /\ Matching = {}
    /\ pc' = "used"
    /\ UNCHANGED <<parsed, call, s, dst, ret>>

(* A rule for one file replaces the name, one for a directory its prefix;  *)
(* only the latter looks at the room there is, and only to make it longer. *)
MapRule ==
    /\ pc = "map" /\ Matching # {}
    /\ LET rule == filemap[CHOOSE i \in Matching : \A j \in Matching : i <= j]
           tail == SubSeq(dst, Len(rule.from) + 1, Len(dst))
           long == Len(rule.to) > Len(rule.from)
                      /\ Len(rule.to \o tail) + 1 > dst_size
       IN  IF Last(rule.from) = Slash /\ long
           THEN Fail("ENAMETOOLONG") /\ UNCHANGED dst
           ELSE /\ pc' = "used"
                /\ dst' = rule.to \o tail
                /\ UNCHANGED <<parsed, call, s, ret>>

(* The next call, of any of the redirected system calls.                   *)
NextCall ==
    /\ pc \in {"used", "normal"}
    /\ pc' = "start"
    /\ cwd' \in Cwds /\ name' \in Names /\ is_abs' \in IsAbs
    /\ s' = <<>> /\ dst' = <<>> /\ ret' = "ok"
    /\ UNCHANGED <<parsed, dst_size>>

Ended == pc = "fatal" /\ UNCHANGED vars

Parse == ParseLine \/ ParseBad \/ ParseDone
Normalise == \/ StartAbsolute \/ StartPlain \/ StartRelative \/ StartTooLong
             \/ SkipSlash \/ SkipDot \/ KeepUp \/ GoUp \/ CopyName
             \/ NormaliseDone
Next == Parse \/ Normalise \/ MapNone \/ MapRule \/ NextCall \/ Ended

Spec == Init /\ [][Next]_vars
-----------------------------------------------------------------------------
(* What a name means: the components on the way from the root, or from     *)
(* the unknown directory a relative name starts in.  It is read character  *)
(* by character: comps are the components up to a slash, part is what      *)
(* follows it.                                                             *)
Up == <<Dot, Dot>>
Absolute(n) == IF At(n, 1) = Slash \/ ~is_abs THEN n ELSE cwd \o <<Slash>> \o n
Rooted(n) == At(n, 1) = Slash
Step(root, comps, c) ==
    CASE c \in {<<>>, <<Dot>>} -> comps
      [] c = Up /\ comps # <<>> /\ Last(comps) # Up -> Front(comps)
      [] c = Up /\ comps = <<>> /\ root -> <<>>
      [] OTHER -> Append(comps, c)
ReadOn(n, k, p) ==
    IF n[k] = Slash
    THEN [comps |-> Step(Rooted(n), p.comps, p.part), part |-> <<>>]
    ELSE [comps |-> p.comps, part |-> Append(p.part, n[k])]
Reading(n) ==
    LET read[k \in 0 .. Len(n)] ==
            IF k = 0 THEN [comps |-> <<>>, part |-> <<>>]
            ELSE ReadOn(n, k, read[k - 1])
    IN  read
Meaning(n) ==
    LET end == Reading(n)[Len(n)] IN Step(Rooted(n), end.comps, end.part)

(* The one normal spelling: the components, each with a slash behind it,   *)
(* but for the last slash.                                                 *)
Joined(root, comps) ==
    LET join[k \in 0 .. Len(comps)] ==
            IF k = 0 THEN IF root THEN <<Slash>> ELSE <<>>
            ELSE join[k - 1] \o comps[k] \o <<Slash>>
    IN  join[Len(comps)]
Spell(root, comps) ==
    IF comps # <<>> THEN Front(Joined(root, comps))
    ELSE IF root THEN <<Slash>> ELSE <<Dot>>

(* The working directories are normal, as getcwd gives them.  The root is  *)
(* left out: the slash that is put behind it is one too many.              *)
NormalCwds ==
    \A c \in Cwds : c = Spell(TRUE, Meaning(c)) /\ c # <<Slash>>

(* The paths the rules of a map file are compared by are normal, that of a *)
(* directory with its slash: filemap_parse takes them as they are, so that *)
(* another spelling would match nothing.                                   *)
NormalRules ==
    \A m \in Maps : \A i \in DOMAIN m :
        GoodRule(m[i]) =>
            m[i].from \in {Spell(TRUE, Meaning(m[i].from)), Joined(TRUE, Meaning(m[i].from))}

(* normalise_path turns every name into the one normal spelling of what it *)
(* means, "removing redundant //, /. and /.. sequences" (filemap.c:64), so *)
(* that the rules, which are compared as text, see every spelling alike.   *)
Normalised ==
    pc \in {"map", "normal"} =>
        dst = Spell(Rooted(Absolute(name)), Meaning(Absolute(name)))

(* Nothing is written beyond the buffer, and a name that was not refused   *)
(* leaves room for its NUL: "dst must have at least dst_size chars         *)
(* available" (filemap.c:65).  The exception is a rule for one file, whose *)
(* target is copied without a look at its length.                          *)
WithinBuffer ==
    \/ /\ Len(dst) <= dst_size
       /\ ret = "ok" => Len(dst) < dst_size
    \/ /\ pc = "used"
       /\ \E i \in DOMAIN filemap : filemap[i].to = dst /\ Last(dst) # Slash

(* The path of a rule is that of the name, or of a directory it is under:  *)
(* the lines of the map file whose rules apply to a name.                  *)
Under(rule, comps) ==
    LET dir == Meaning(rule.from)
    IN  IF Last(rule.from) # Slash THEN comps = dir
        ELSE IsStrictPrefix(dir, comps) \/ rule.from = <<Slash>>
Applies(comps) == {i \in DOMAIN map : map[i].kind = "rule" /\ Under(map[i], comps)}

(* The name used is what the first rule, in the order of the map file,     *)
(* makes of the program's name: a rule for a file applies to that file, a  *)
(* rule ending in a slash to what is under the directory, "but not the     *)
(* directory itself" (filemap.c:204).                                      *)
Rewritten ==
    LET comps == Meaning(Absolute(name))
        first == CHOOSE i \in Applies(comps) : \A j \in Applies(comps) : i <= j
    IN  pc = "used" /\ ret = "ok" =>
            IF Applies(comps) = {} THEN dst = Spell(TRUE, comps)
            ELSE Meaning(dst) = Meaning(map[first].to) \o
                    SubSeq(comps, Len(Meaning(map[first].from)) + 1, Len(comps))
=============================================================================
