----------------------------- MODULE HoursTheorems -----------------------------
(***************************************************************************)
(* What one session is worth, and what a set of submissions adds to a      *)
(* counter: the theorems about Duration, and the facts about Amount that   *)
(* the other proofs use.                                                   *)
(***************************************************************************)
EXTENDS HoursCounters, Duration, FiniteSetTheorems, TLAPS

-----------------------------------------------------------------------------
(* One session: the rounding and the two thresholds.                       *)

\* Every interval has a nearest tenth, so each session is worth something definite
\* or one of two neighbours: `Nearest' leaves no session without hours.
THEOREM NearestExists ==
  ASSUME NEW i \in Nat
  PROVE  \E t \in Nat : Nearest(i, t)
<1> DEFINE t == (i + 180000) \div Tenth
<1>1. t \in Nat /\ Tenth * t <= i + 180000 /\ i + 180000 < Tenth * t + Tenth
  BY Z3 DEF Tenth
<1>2. 2 * i <= Tenth * (2 * t + 1) /\ 2 * i >= Tenth * (2 * t - 1)
  <2> HIDE DEF t
  <2> QED BY <1>1, Z3 DEF Tenth
<1>3. QED
  BY <1>1, <1>2 DEF Nearest

\* The two platforms never credit one interval with more than a tenth of an hour
\* of difference (HomeFragment.java:169-172, RecordViewController.swift:153-154).
THEOREM PlatformsAgree ==
  ASSUME NEW i \in Nat, NEW a \in Nat, NEW b \in Nat, Nearest(i, a), Nearest(i, b)
  PROVE  a <= b + 1 /\ b <= a + 1
BY Z3 DEF Nearest, Tenth

\* A session that either platform accepts is worth at least half an hour, and more
\* by less than three minutes' rounding of what was studied.
THEOREM AcceptedIsHalfHour ==
  ASSUME NEW i \in Nat, NEW t \in Nat, Nearest(i, t),
         LongEnoughAndroid(i) \/ LongEnoughIos(i)
  PROVE  t >= 5 /\ Tenth * t <= i + 180000 /\ i <= Tenth * t + 180000
BY Z3 DEF Nearest, Tenth, HalfHour, LongEnoughAndroid, LongEnoughIos

\* The platforms disagree on an interval exactly when it is thirty minutes to the
\* millisecond (HomeFragment.java:127, RecordViewController.swift:122).
THEOREM ThresholdsDiffer ==
  ASSUME NEW i \in Nat
  PROVE  LongEnoughAndroid(i) # LongEnoughIos(i) <=> i = HalfHour
BY Z3 DEF HalfHour, LongEnoughAndroid, LongEnoughIos

-----------------------------------------------------------------------------
(* A set of submissions.                                                   *)

\* Subsets of Sessions are finite, so their cardinalities are numbers.
LEMMA SessionSetsFinite ==
  \A S \in SUBSET Sessions : IsFiniteSet(S) /\ Cardinality(S) \in Nat
BY SessionsFinite, FS_Subset, FS_CardinalityType

\* A set of submissions adds a natural number to either counter.
LEMMA AmountType ==
  \A p \in Paths, S \in SUBSET Sessions : Amount(p, S) \in Nat
BY SessionSetsFinite, CreditIsAdditive DEF Amount

\* No submission adds nothing.
LEMMA AmountEmpty == \A p \in Paths : Amount(p, {}) = 0
BY FS_EmptySet, CreditIsAdditive DEF Amount

\* What two disjoint groups of submissions add is added up.
LEMMA AmountUnion ==
  ASSUME NEW p \in Paths, NEW S \in SUBSET Sessions, NEW T \in SUBSET Sessions,
         S \cap T = {}
  PROVE  Amount(p, S \cup T) = Amount(p, S) + Amount(p, T)
<1>1. CASE p = NumSessions
  <2>1. IsFiniteSet(S) /\ IsFiniteSet(T)
    BY SessionSetsFinite
  <2>2. Cardinality(S \cup T) = Cardinality(S) + Cardinality(T) - Cardinality(S \cap T)
    BY <2>1, FS_Union
  <2>3. Cardinality(S \cap T) = 0
    BY FS_EmptySet
  <2>4. Cardinality(S) \in Nat /\ Cardinality(T) \in Nat
    BY SessionSetsFinite
  <2>5. QED
    BY <1>1, <2>2, <2>3, <2>4 DEF Amount
<1>2. CASE p # NumSessions
  BY <1>2, CreditIsAdditive DEF Amount
<1>3. QED
  BY <1>1, <1>2
================================================================================
