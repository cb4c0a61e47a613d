-------------------------------- MODULE Lists --------------------------------
(***************************************************************************)
(* The operators on sequences (a VecDeque or a Vec of the code) of the     *)
(* models that theorems are about.  They have the names and meanings of    *)
(* SequencesExt.  That module extends Bags, which the proof manager then   *)
(* carries through every obligation: proofs take several times as long.    *)
(***************************************************************************)
EXTENDS Integers, Sequences, Functions

Contains(s, x) == \E i \in 1..Len(s) : s[i] = x
ToSet(s) == {s[i] : i \in 1..Len(s)}

Last(s) == s[Len(s)]
Front(s) == SubSeq(s, 1, Len(s) - 1)
RemoveAt(s, i) == SubSeq(s, 1, i - 1) \o SubSeq(s, i + 1, Len(s))

Reverse(s) == [i \in 1..Len(s) |-> s[(Len(s) - i) + 1]]

\* The sequences that ss consists of, one after the other.
FlattenSeq(ss) ==
  LET flat[i \in 1..Len(ss)] == IF i = 1 THEN ss[i] ELSE flat[i - 1] \o ss[i]
  IN IF Len(ss) = 0 THEN ss ELSE flat[Len(ss)]
=============================================================================
