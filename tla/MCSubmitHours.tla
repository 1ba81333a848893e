---------------------------- MODULE MCSubmitHours ----------------------------
(* Instances of SubmitHours for TLC: sessions s1, s2, s3 of one or two phones. *)
EXTENDS HoursHistory

CONSTANTS d1, d2, s1, s2, s3

\* Half hours, all different, so that a sum tells which submissions are in it.
Weight == (s1 :> 1) @@ (s2 :> 2) @@ (s3 :> 4)
MCCredit == [S \in SUBSET Sessions |-> MapThenSumSet(LAMBDA s : Weight[s], S)]

\* Two sessions worth the same: with the same owner, they are symmetric.
AlikeWeight == (s1 :> 1) @@ (s2 :> 2) @@ (s3 :> 1)
AlikeCredit == [S \in SUBSET Sessions |-> MapThenSumSet(LAMBDA s : AlikeWeight[s], S)]
Alike == Permutations({s1, s3})

OneOwner == [s \in Sessions |-> d1]
TwoOwners == [s \in Sessions |-> IF s = s2 THEN d2 ELSE d1]
=============================================================================
