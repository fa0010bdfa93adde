------------------------------ MODULE MCFilemap ------------------------------
(***************************************************************************)
(* Instances of Filemap: every name of up to five characters made of       *)
(* slashes, dots and one letter.                                           *)
(***************************************************************************)
EXTENDS Filemap

CONSTANT MaxLen     \* bound: characters of a name

Letters == {Slash, Dot, "a"}
AllNames == UNION {[1 .. n -> Letters] : n \in 0 .. MaxLen}

A == <<Slash, "a">>
AA == <<Slash, "a", "a">>
Dir(d) == Append(d, Slash)
B == <<Slash, "b">>
Rule(from, to) == [kind |-> "rule", from |-> from, to |-> to]
Blank == [kind |-> "blank"]
Bad == [kind |-> "bad"]

MCMaps ==
    {<<>>, <<Blank, Bad>>,
     <<Rule(A, B \o B), Blank, Rule(Dir(A), B \o Dir(B))>>,
     <<Rule(Dir(A), Dir(B)), Rule(A \o A, B)>>,
     <<Rule(A \o A, B), Rule(Dir(A \o A), Dir(B)), Rule(Dir(A), B \o Dir(B))>>,
     <<Rule(A, Dir(B)), Rule(AA, B)>>}

NotRoot == {A, A \o A}
WithRoot == NotRoot \cup {<<Slash>>}

(* The hypotheses of the theorems about Normalised and Rewritten hold of   *)
(* the maps, and of the directories other than the root.                   *)
ASSUME MCNormalRules == NormalRules
ASSUME MCNormalCwds == Cwds = NotRoot => NormalCwds
=============================================================================
